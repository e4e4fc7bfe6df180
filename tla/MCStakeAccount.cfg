\* Stake accounts, their warm-up, the cache of stakes and rewards.
SPECIFICATION Spec
CONSTANTS
    k0 = k0
    k1 = k1
    k2 = k2
    v1 = v1
    v2 = v2
    Accounts = {a1, a2}
    Rate = 4
    None = None
    Scenarios <- MCScenarios
SYMMETRY Symmetry
 
PROPERTY StakeMovesByRight
CHECK_DEADLOCK FALSE
