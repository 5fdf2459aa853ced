CONSTANTS
    Events = {1, 2}
    ManualReset = {2}
    Threads = {t1, t2, t3}
    NoEvent = NoEvent
    NoThread = NoThread
SPECIFICATION Spec
INVARIANTS WaitListsSound SignalConserved NoGridlock
CHECK_DEADLOCK FALSE
SYMMETRY ThreadSymmetry
