SPECIFICATION Spec
CONSTANTS
    MAX_LOCKOUT_HISTORY = 2
    INITIAL_LOCKOUT = 2
    MAX_EPOCH_CREDITS_HISTORY = 2
    MAX_ITEMS = 2
    MAX_SLOT_HASHES = 3
    MAX_LEADER_SCHEDULE_EPOCH_OFFSET = 3
    SlotsPerEpoch = 1
    LeaderScheduleSlotOffset = 1
    Features <- AllFeatures
    Keys = {k1, k2}
    NoKey = NoKey
    Commissions = {0}
    MinimumBalance = 1
    MaxSlot = 4
    MaxSkip = 1
    MaxVoteSlots = 2
    Timestamps = {1}
    MaxLamports = 2
SYMMETRY KeySymmetry
INVARIANT VotesOK
PROPERTIES VotesNeverRollBack ScheduledVotersFixed
CHECK_DEADLOCK FALSE
