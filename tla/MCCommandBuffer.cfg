CONSTANTS
    Commands <- Resizes
    TotalEntries = 6
    MayFail = FALSE
    TokenLimit = 2
    CommandsPerUpdate = 2
    MaxPipeline = 1
    MaxTasks = 1
SPECIFICATION Spec
INVARIANT TokenWaitsAreRight
PROPERTIES StreamSpec FinishDrains
