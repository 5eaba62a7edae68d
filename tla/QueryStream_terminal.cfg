SPECIFICATION StreamSpec
CONSTANTS
    p1 = p1
    r1 = r1
    r2 = r2
    Procs <- OneProc
    Runs <- OneRun
    LayerEvents = 1
    MaxFaults = 0
    NoRun = NoRun
PROPERTIES
    TerminalComesLast
