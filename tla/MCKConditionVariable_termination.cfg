SPECIFICATION SpecWithTermination
CONSTANTS
    a = a  b = b  c = c  d = d
    NoThread = NoThread
    Threads <- Three
    Mutexes = {1, 2}
    Keys = {1}
    BasePriority <- ThreePriorities
    NewPriorities = {50}
    TerminatingThreadPriority = 15
    MutexesOf <- LastTakesTwo
    Sleepers = {a}
    Signallers = {b}
    Doomed = {a}
    Counts = {0}
    Disciplined = FALSE
INVARIANTS WordIsTrue InheritanceIsRight
CHECK_DEADLOCK FALSE
