SPECIFICATION Spec
CONSTANTS
    NoSql = NoSql
    Candidates = {a, b, c}
    Signals = {s, t}
    AllSettings <- MCSettings
    Retries = 1
INVARIANTS
    LoopMakesProgress
    OnlyRepairableIsRetried
    ResultIsOfCandidate
PROPERTIES
    OnlyAcceptedIsAnswered
