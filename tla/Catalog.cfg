CONSTANTS
    Threads = {t1, t2}
    Names = {docs, notes}
    Alike <- AllAlike
    None = None
    MaxDepth = 2
    MaxRows = 3
    MaxParts = 2
    MaxCrashes = 1
    MaxFaults = 1
SPECIFICATION Spec
INVARIANTS Consistent RowsBacked FilesOwned TokenServes
PROPERTY IsATree
CONSTRAINT InBounds
SYMMETRY Symmetry
CHECK_DEADLOCK FALSE
