\* Two crashes, of which the second loses the block of the tower's root.
SPECIFICATION Spec
CONSTANTS
    MAX_LOCKOUT_HISTORY = 2
    INITIAL_LOCKOUT = 2
    MaxSlot = 5
    MaxCrashes = 2
    MaxQueue = 1
    MAX_ENTRIES = 6
    Signable <- AlwaysSignable
INVARIANT AssertionsHold
CHECK_DEADLOCK FALSE
