CONSTANTS
    Commands <- Latches
    TotalEntries = 5
    MayFail = TRUE
    TokenLimit = 2
    CommandsPerUpdate = 2
    MaxPipeline = 0
    MaxTasks = 1
SPECIFICATION FairSpec
PROPERTIES ClientReturns ServiceProgresses
CHECK_DEADLOCK FALSE
