CONSTANTS
    Events = {1, 2}
    ManualReset = {2}
    Threads = {t1, t2}
    NoEvent = NoEvent
    NoThread = NoThread
SPECIFICATION FairSpec
PROPERTY Settles
CHECK_DEADLOCK FALSE
