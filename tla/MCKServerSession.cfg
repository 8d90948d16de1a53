SPECIFICATION FairSpec
CONSTANTS
    c1 = c1  c2 = c2  s1 = s1  s2 = s2
    NoRequest = 0  NoThread = NoThread
    Clients = {c1, c2}
    Servers = {s1, s2}
    Requests = {1, 2}
    Modes <- OneAsync
    Doomed = {c2}
INVARIANTS WellFormed SleepingServerHasNoWork
PROPERTIES ProtocolSpec CallersAreReleased
CHECK_DEADLOCK FALSE
