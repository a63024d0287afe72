SPECIFICATION Spec
CONSTANTS
    r1 = r1
    r2 = r2
    r3 = r3
    v1 = v1
    v2 = v2
    v3 = v3
    None = None
    Requests = {r1, r2, r3}
    Versions = {v1, v2, v3}
    Length = 1
    InitStates = {"draft"}
    Kinds = {"archive", "restore"}
    MaxSubmits = 1
SYMMETRY Interchangeable
CHECK_DEADLOCK FALSE
INVARIANTS
    RestoresPreviousState
