CONSTANTS
    Uploads = {u1}
    Browsers = {u1}
    NumChunks = 3
    MaxCrashes = 2
    MaxStops = 1
    MaxRivals = 1
    Absent = Absent
SPECIFICATION FairSpec
INVARIANT StoredExact
PROPERTIES AllOrNothing Settles
CHECK_DEADLOCK FALSE
