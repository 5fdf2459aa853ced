CONSTANTS
    Tasks = {t1, t2, t3}
    Workers = {w1, w2, w3}
    NoTask = NoTask
SPECIFICATION FairSpec
INVARIANTS IdleCountAccurate NoStrandedTask OneHolderPerTask
PROPERTIES TaskEventuallyRuns PoolEventuallyDestroyed
CHECK_DEADLOCK FALSE
