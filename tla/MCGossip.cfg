\* The table of gossip values of a node, and how a value spreads over nodes.
SPECIFICATION MCSpec
CONSTANTS
    a = a
    b = b
    c = c
    o = o
    p = p
    q = q
    Pubkeys = {a, b, c}
    Settings <- MCSettings
    Stake <- MCStake
    Order <- MCOrder
    Keep = {a}
    Cap = 2
    crds_timeout = 0
    Timeouts <- MCTimeouts
    Retention = 0
    max_bytes = 4
    msg_timeout = 1
    MaxOrdinal = 4
    Origin = o
    Networks <- MCNetworks
 
PROPERTY Converges
CHECK_DEADLOCK FALSE
