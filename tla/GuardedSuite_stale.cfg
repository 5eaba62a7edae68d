SPECIFICATION Spec
CONSTANTS
    s1 = s1
    s2 = s2
    p1 = p1
    p2 = p2
    Suites <- OneSuite
    Total = 2
    Pids <- TwoPids
    MaxFaults = 1
    PauseBy = {"signal", "file"}
    NoPid = NoPid
    NoSuite = NoSuite
SYMMETRY PidSymmetry
PROPERTIES
    NoLaunchBesideStaleWorker
