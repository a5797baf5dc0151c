CONSTANTS
    Uploads = {u1, u2}
    Browsers = {u2}
    NumChunks = 3
    MaxCrashes = 1
    MaxStops = 1
    MaxRivals = 1
    Absent = Absent
SPECIFICATION Spec
INVARIANTS StoredInOrder CancelledNeverStored NothingElseLeftBehind
CONSTRAINT OneAtATime
CHECK_DEADLOCK FALSE
