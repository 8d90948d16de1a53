SPECIFICATION Spec
CONSTANTS
    t1 = t1  t2 = t2  NoThread = NoThread  Null = Null
    Threads = {t1, t2}
    Objects = {1, 2}
    TableSize = 2
    MaxLinearId = 3
    MaxHandles = 2
SYMMETRY ThreadSymmetry
INVARIANTS WellFormed ReferencesBalance HandleNamesItsObject
CHECK_DEADLOCK FALSE
