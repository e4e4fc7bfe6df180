\* Conflicting batches of two with a block that is soon full; single locks.
SPECIFICATION MCSpec
CONSTANTS
    th1 = th1
    th2 = th2
    t1 = t1
    t2 = t2
    t3 = t3
    t4 = t4
    a = a
    b = b
    Threads <- MCThreads
    Txs <- MCTxs
    BankAccounts <- MCAccounts
    WritableOf <- MCWritableOf
    ReadonlyOf <- MCReadonlyOf
    Expired <- MCExpired
    SimpleVotes <- MCVotes
    CostOf <- MCCost
    ExecutionCostOf <- MCExecution
    UnitsOf <- MCUnits
    Packets <- MCPackets
    MAX_NUM_TRANSACTIONS_PER_BATCH = 2
    block_cost_limit = 7
    account_cost_limit = 5
    vote_cost_limit = 3
    Accounts <- MCAccounts
    Holders <- MCHolders
    Writable <- MCWritable
    Readonly <- MCReadonly
INVARIANTS FrozenBankReplays  LocksOK
PROPERTY BankingFinishes
CHECK_DEADLOCK FALSE
