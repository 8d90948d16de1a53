SPECIFICATION FairSpec
CONSTANTS
    a = a  b = b  c = c
    NoThread = NoThread  NoAddress = NoAddress
    Threads <- Three
    Priority <- ThreePriorities
    Addresses = {1}
    Width = 2
    WaitTypes = {"WaitIfLessThan", "DecrementAndWaitIfLessThan", "WaitIfEqual"}
    Doomed = {b}
    WaitValues <- OddValues
    Counts = {0, 1, 2}
INVARIANTS WellFormed SleepsWhileConditionHolds
PROPERTIES ConditionGoneIsNoticed SignalIsExact
CHECK_DEADLOCK FALSE
