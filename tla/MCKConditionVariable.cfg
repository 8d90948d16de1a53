SPECIFICATION FairSpec
CONSTANTS
    a = a  b = b  c = c  d = d
    NoThread = NoThread
    Threads <- Three
    Mutexes = {1}
    Keys = {1, 2}
    BasePriority <- EqualPriorities
    NewPriorities = {}
    TerminatingThreadPriority = 15
    MutexesOf <- AllMutexes
    Sleepers <- Three
    Signallers <- Three
    Doomed = {}
    Counts = {0, 1}
    Disciplined = TRUE
INVARIANTS WordIsTrue 
PROPERTY LockWaiterIsWoken
CHECK_DEADLOCK FALSE
