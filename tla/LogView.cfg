SPECIFICATION Spec
CONSTANTS
    a = a
    b = b
    Pids = {p, q}
    Packages <- MCPackages
    NoPid = NoPid
    NoPackage = NoPackage
    NoFilter = NoFilter
    NoCache = NoCache
    Terms <- MCTerms
    BaseCapacity = 1
    MaxPending = 2
    PidsAreReused = FALSE
    MaxArrivals = 4
    MaxRelevance = 2
    MaxSelected = 1
SYMMETRY PidSymmetry
INVARIANTS
    ViewInv
PROPERTIES
    NothingShownGoesFirst
