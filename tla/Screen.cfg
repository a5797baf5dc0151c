CONSTANTS
    Tabs = {t1, t2}
    Ops = {"move", "resign", "undo", "new"}
    MaxRev = 2
SPECIFICATION FairSpec
PROPERTIES NoGhost CatchesUp
CHECK_DEADLOCK FALSE
