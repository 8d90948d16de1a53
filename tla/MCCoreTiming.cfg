SPECIFICATION FairSpec
CONSTANTS
    once = once  loop = loop  NoType = NoType
    Clients = {1, 2}
    Types = {once, loop}
    Period <- OnceAndLoop
    MaxTime = 1
    Soonest = 1
PROPERTIES DueEventIsCalled ControlReturns
CHECK_DEADLOCK FALSE
INVARIANTS UnscheduledNeverRuns 
