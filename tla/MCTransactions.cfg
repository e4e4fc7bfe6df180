\* The fate of a transaction sent to the leaders; the status cache under any
\* calls; no transaction twice on a fork.
SPECIFICATION MCSpec
CONSTANTS
    t1 = t1
    t2 = t2
    Clients <- MCClients
    MaxHeight = 2
    MAX_TRANSACTION_QUEUE_SIZE = 1
    MAX_RECENT_BLOCKHASHES = 1
    MAX_PROCESSING_AGE = 0
    Hashes = {h1, h2}
    Keys = {k}
    Slots <- MCSlots
    MAX_CACHE_ENTRIES = 2
INVARIANTS  ReplayOK
PROPERTY SendingSettles
CHECK_DEADLOCK FALSE
