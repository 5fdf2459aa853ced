CONSTANTS
    NumTransactions = 3
    Keys = {k1}
    Requests <- LoadReloadBack
    MaxEntries = 4
    MaxReads = 1
    MaxRestarts <- FirstRestarts
    CancelInCallback = FALSE
    None = None
SPECIFICATION FairSpec
INVARIANTS ReaderWriterLock NoDanglingEntry NobodyForgotten OnlyWholeResponsesServed
PROPERTIES DoomedGetsNoUsers EveryStartAnswered
CHECK_DEADLOCK FALSE
