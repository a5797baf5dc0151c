CONSTANTS
    Requests = {r1, r2}
    Installers = {i1, i2}
    Packages = {pkg}
    NoBot = NoBot
    MaxCrashes = 1
    MaxOps = 3
SPECIFICATION BotsSpec
INVARIANT BusyMeansInstalling
PROPERTY ErrorStays
CHECK_DEADLOCK FALSE
