SPECIFICATION Spec
CONSTANTS
    p1 = p1
    p2 = p2
    r1 = r1
    r2 = r2
    Procs <- TwoProcs
    Runs <- TwoRuns
    LayerEvents = 1
    MaxFaults = 1
    NoRun = NoRun
SYMMETRY Symmetry
INVARIANTS
    TerminalHasTrace
PROPERTIES
    OnlyRecoveryIsOverruled
