\* A latched plan is over: it really stops.
CHECK_DEADLOCK FALSE
SPECIFICATION FairSpec
CONSTANTS
    spider = spider
    olist = olist
    g1 = g1
    g2 = g2
    w1 = w1
    w2 = w2
    Suites <- BothSuites
    First <- spider
    Cases <- SomeCases
    Servers <- TwoServers
    Workers <- TwoWorkers
    MaxFaults = 1
    None = None
INVARIANTS
    ServerOutlivesWorker
    ShutdownIsSafe
    OrphansAreFound
PROPERTIES
    RecoveryFirst
    FilesAreARegister
    SequenceAdvances
    EveryRunEnds
    NativesEnd
