\* What a validator holds to be confirmed: by counting votes, for its subscribers, for its clients.
SPECIFICATION MCSpec
CONSTANTS
    v1 = v1
    v2 = v2
    v3 = v3
    Slots = {1, 2, 3, 4}
    Parent <- TwoForks
    Confirmable = {1, 2, 3}
    MaxQueue = 1
    Voters = {v1, v2}
    Stake <- EqualStakes
    Voted = {1, 2, 3}
    MaxChannel = 1
    MAX_LOCKOUT_HISTORY = 1
    INITIAL_LOCKOUT = 2
INVARIANTS NoticesExact TrackerOK 
PROPERTIES ConfirmedNeverBack ConfirmedIsTold 
CHECK_DEADLOCK FALSE
