SPECIFICATION FairSpec
CONSTANTS
    Threads = {t1, t2, t3}
    Locks = {1, 2}
    SuspendTypes = {Process}
    NoThread = NoThread
    NoLock = NoLock
INVARIANTS IsLockedByHolder WaitersAreKnown 
PROPERTY MutexSpec
 
