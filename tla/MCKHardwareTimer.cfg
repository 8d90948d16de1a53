SPECIFICATION FairSpec
CONSTANTS
    Tasks = {1, 2, 3}
    NoTask = 0
    Never = 5
INVARIANT TimerIsArmed
PROPERTIES EarliestFirst TaskFires
CHECK_DEADLOCK FALSE
