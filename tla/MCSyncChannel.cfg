CONSTANTS
    t1 = t1
    t2 = t2
    a1 = a1
    a2 = a2
    b1 = b1
    b2 = b2
    Threads = {t1, t2}
    Channels = {a1, a2, b1, b2}
    Ends <- TwoChannelsEnds
    Peer <- TwoChannelsPeer
    Restricted = {a1}
    Timed = {a1, a2}
    Delaying = {b1, b2}
    Budgets <- NestedOrRestricted
    Mortal = {t2}
    None = None
SPECIFICATION FairSpec
INVARIANTS SendsNest NothingOverlooked
PROPERTY EverySendReturns
CHECK_DEADLOCK FALSE
