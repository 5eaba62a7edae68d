SPECIFICATION FairStreamSpec
CONSTANTS
    p1 = p1
    r1 = r1
    r2 = r2
    Procs <- OneProc
    Runs <- TwoRuns
    LayerEvents = 1
    MaxFaults = 2
    NoRun = NoRun
INVARIANTS
    OpenRunsAreOwned
PROPERTIES
    StatusFollowsLifecycle
    RunsAreDecided
    EveryStreamEnds
