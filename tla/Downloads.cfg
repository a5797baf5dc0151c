CONSTANTS
    zip = zip
    tar = tar
    iso = iso
    prt = prt
    aPart = aPart
    bPart = bPart
    u1 = u1
    u2 = u2
    Jobs <- Asked
    Procs = {p1, p2}
    Urls = {u1, u2}
    Files = {zip, tar, iso, prt}
    PartOf <- Staging
    None = None
    Blocks = 2
    MaxVersions = 2
    MaxFaults = 1
SPECIFICATION Spec
INVARIANTS Consistent WholeFiles StoppedStays
PROPERTY NeverLost
CONSTRAINT InBounds
SYMMETRY Symmetry
CHECK_DEADLOCK FALSE
