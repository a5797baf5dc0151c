CONSTANTS
    b1 = b1  b2 = b2  b3 = b3
    c1 = c1  c2 = c2  c3 = c3  c4 = c4
    Browsers = {b1, b2}
    Calls = {c1, c2}
    Owner <- MCOwner
    Cap = 2
    TTL = 2
    None = None
    MaxIds = 4
    MaxPlies = 1
    MaxLost = 2
SPECIFICATION Spec
INVARIANTS OwnGame CapHeld
PROPERTY EvictsStalest
CHECK_DEADLOCK FALSE
