CONSTANTS
    Nodes = {n1, n2, n3}
    Null = Null
    Keys = {k1, k2}
    CacheTypes = {"DISK_CACHE", "MEDIA_CACHE", "APP_CACHE"}
    MaxCrashes = 1
    MaxReuse = 1
    NoKey = NoKey
SPECIFICATION Spec
INVARIANTS SelfCheck 
PROPERTY LruSpec
CONSTRAINT UpToAccident
CHECK_DEADLOCK FALSE
SYMMETRY CacheSymmetry
