\* Two consecutive leader slots after one of another leader.
SPECIFICATION FairSpec
CONSTANTS
    MaxSlot = 3
    TICKS_PER_SLOT = 1
    HASHES_PER_TICK = 3
    HASHES_PER_BATCH = 1
    MySlots <- LastTwo
    Txs = {t1}
INVARIANT BlocksOK
PROPERTIES OneBankPerSlot WorkFinishes
CHECK_DEADLOCK FALSE
