SPECIFICATION Spec
CONSTANTS
    s1 = s1
    s2 = s2
    p1 = p1
    p2 = p2
    Suites <- TwoSuites
    Total = 1
    Pids <- OnePid
    MaxFaults = 1
    PauseBy = {}
    NoPid = NoPid
    NoSuite = NoSuite
SYMMETRY SuiteSymmetry
INVARIANTS
    OneBatchAtATime
PROPERTIES
    CooldownIsKept
CONSTRAINTS
    PilotsRecover
    OneLatch
