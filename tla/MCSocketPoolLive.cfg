CONSTANTS
    Groups = {g1, g2}
    Handles = {h1, h2, h3}
    MaxSockets = 2
    MaxPerGroup = 2
    Kinds <- OnePriority
    ConnectResults = {"ok", "pending", "error", "errorWithSocket"}
    BackupJobs = TRUE
    MaxFlushes = 0
    MaxPosted = 1
    MaxExcess = 1
    None = None
SPECIFICATION FairSpec
INVARIANTS LimitsHold WakeupDue
PROPERTY RequestAnswered
