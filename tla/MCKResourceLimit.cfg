SPECIFICATION FairSpec
CONSTANTS
    Threads = {1, 2, 3}
    NoThread = 0
    Amounts = {0, 1, 2}
    Doomed = {3}
    Limits = {1, 2}
INVARIANTS BooksAreRight WaitersAreServed
PROPERTY ReserveReturns
