SPECIFICATION Spec
CONSTANTS
    x = x  y = y
    NoObject = NoObject  NoNode = NoNode
    Threads = {1, 2}
    Objects = {x, y}
    HandleLists <- Duplicates
    Calls = {"sleep", "cancel", "terminate", "close"}
INVARIANTS WellFormed SignaledHasNoWaiter CancelIsNotLost
 
CHECK_DEADLOCK FALSE
