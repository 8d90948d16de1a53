SPECIFICATION SpecWithTermination
CONSTANTS
    Threads = {t1, t2, t3}
    Locks = {1}
    SuspendTypes = {Process}
    NoThread = NoThread
    NoLock = NoLock
SYMMETRY Symmetry
INVARIANT IsLockedByHolder
