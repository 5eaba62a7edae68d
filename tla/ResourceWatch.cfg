\* A watch ends.
CHECK_DEADLOCK FALSE
SPECIFICATION FairSpec
CONSTANTS
    Fresh = 1
    Response = 2
    Startup = 2
    Nothing = Nothing
INVARIANTS
    BreachesAreJudged
    SilenceIsNoticed
    NothingIsLeft
PROPERTIES
    EveryWatchEnds
