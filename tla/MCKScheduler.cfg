SPECIFICATION FairSpec
CONSTANTS
    a = a  b = b
    Threads = {a, b}
    NoThread = NoThread  Host = Host  NoActor = NoActor
    Cores = {0, 1}
    InitialPriority <- Equal
    InitialAffinity <- AnyCore
    Priorities <- Raised
    Masks <- Bound
    Preempted <- EachCore
    HighestCoreMigrationAllowedPriority = 2
INVARIANTS WellFormed OneCoreAtATime ChoiceIsFollowed ChoiceIsRight
PROPERTY ChosenThreadRuns
CHECK_DEADLOCK FALSE
