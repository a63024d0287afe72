SPECIFICATION Spec
CONSTANTS
    k1 = k1
    k2 = k2
    k3 = k3
    s1 = s1
    s2 = s2
    n1 = n1
    None = None
    MinSuggestions = 2
    MaxSuggestions = 3
    Keys = {k1, k2, k3}
    Titles = {s1, s2}
    Issues = {"analysis"}
    Notes = {n1}
    MaxAnalyses = 2
    MaxRounds = 3
SYMMETRY Interchangeable
CHECK_DEADLOCK FALSE
INVARIANTS
    TypeOK
    SetComplete
    SnapshotHolds
PROPERTIES
    AcceptedKept
