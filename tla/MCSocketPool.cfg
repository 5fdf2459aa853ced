CONSTANTS
    Groups = {g1, g2}
    Handles = {h1, h2}
    MaxSockets = 2
    MaxPerGroup = 2
    Kinds <- ManyKinds
    ConnectResults = {"ok", "pending", "error", "errorWithSocket"}
    BackupJobs = TRUE
    MaxFlushes = 1
    MaxPosted = 2
    MaxExcess = 1
    None = None
SYMMETRY PoolSymmetry
SPECIFICATION Spec
INVARIANTS PoolConsistent CallbackIsPosted NoStaleIdle
