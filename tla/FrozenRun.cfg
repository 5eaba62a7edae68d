\* An index or a run that nobody begins again stops.
CHECK_DEADLOCK FALSE
SPECIFICATION Spec
CONSTANTS
    b1 = b1
    b2 = b2
    v1 = v1
    v2 = v2
    d1 = d1
    d2 = d2
    c1 = c1
    c2 = c2
    Builders <- TwoBuilders
    Versions <- TwoVersions
    Databases <- TwoDatabases
    CatalogOf <- SomeCatalogs
    Cases = 2
    MaxBuilds = 2
    MaxFaults = 1
    MaxEdits = 1
    None = None
    NoPin = NoPin
SYMMETRY BuilderSymmetry
INVARIANTS
    RowsMatchIdentity
    RowsMatchPin
    ContinuationIsFaithful
PROPERTIES
    BundlesAreImmutable
