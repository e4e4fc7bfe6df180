\* The tower, fork choice and the latest votes it is fed with.
SPECIFICATION MCSpec
CONSTANTS
    MAX_LOCKOUT_HISTORY = 2
    INITIAL_LOCKOUT = 2
    MaxSlot = 4
    MaxCrashes = 1
    MaxQueue = 2
    MAX_ENTRIES = 2
    Signable <- AlwaysSignable
    v1 = v1
    v2 = v2
    Voters = {v1, v2}
    Keys <- MCKeys
    Genesis <- MCGenesis
    Trees <- MCTrees
    SlotsPerEpoch = 2
    Stake <- MCStake
    Validators = {v1, v2}
    Versions <- MCVersions
    FirstRoot <- MCGenesis
    Parents <- MCParents
    Landed <- MCLanded
INVARIANTS TowerOK RootsOK NoFailure ForkChoiceExact GossipVotesOK
PROPERTIES RestartAgreesOnRoot KeepsLockoutPromise
CHECK_DEADLOCK FALSE
