\* Votes may be recorded while no vote transaction can be signed.
SPECIFICATION Spec
CONSTANTS
    MAX_LOCKOUT_HISTORY = 2
    INITIAL_LOCKOUT = 2
    MaxSlot = 3
    MaxCrashes = 1
    MaxQueue = 1
    MAX_ENTRIES = 3
    Signable <- SometimesSignable

PROPERTIES KeepsLockoutPromise
CHECK_DEADLOCK FALSE
