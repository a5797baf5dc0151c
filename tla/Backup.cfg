CONSTANTS
    Files = {f1, f2, f3}
    Contents = {x, y}
    Large = {f3}
    Reports = {f2}
    Absent = Absent
    Torn = Torn
    None = None
    MaxNumber = 1
    MaxEdits = 2
    MaxFaults = 1
SPECIFICATION Spec
INVARIANTS BackupsTrue ListedExist Recoverable RestoreExact
PROPERTIES UndoBringsBack
SYMMETRY Symmetry
