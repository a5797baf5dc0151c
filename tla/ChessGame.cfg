CONSTANTS
    Threads = {t1, t2}
    Positions <- MCPositions
    StartPos <- MCStart
    Legal <- MCLegal
    After <- MCAfter
    ToMove <- MCToMove
    Verdict <- MCVerdict
    BareKing <- MCBareKing
    TimeControls <- Both
    Untimed = Untimed
    None = None
    MaxLag = 2
    MaxGames = 1
    Plies = 2
SPECIFICATION FairSpec
INVARIANTS HistoryReplays ResultFits BusyMeansSearching
PROPERTIES TimeCharged 
CONSTRAINT InBounds
CHECK_DEADLOCK FALSE
