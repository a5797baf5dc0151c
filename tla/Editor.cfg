CONSTANTS
    Files = {f1, f2}
    Scratch = Scratch
    Worked = {f1, f2}
    Absent = Absent
    None = None
    MaxTabs = 2
    SnapEvery = 1
    UndoDepth = 1
    MaxTexts = 3
    MaxFaults = 1
SPECIFICATION Spec
INVARIANTS Consistent FilesDoNotMix
PROPERTIES KeptWhileOpen SnapshotOutlivesEdits
CONSTRAINT InStep
SYMMETRY Symmetry
CHECK_DEADLOCK FALSE
