SPECIFICATION Spec
CONSTANTS
    r1 = r1
    r2 = r2
    r3 = r3
    v1 = v1
    v2 = v2
    v3 = v3
    None = None
    Requests = {r1, r2}
    Versions = {v1, v2}
    Length = 2
    InitStates = {"draft", "suggestions_ready"}
    Kinds = {"update", "notes", "archive", "restore", "manual_edit", "create_lock", "delete_lock", "finalize"}
    MaxSubmits = 3
SYMMETRY Interchangeable
CHECK_DEADLOCK FALSE
INVARIANTS
    OneFirstDraft
    FinalVersion
    LocksApart
    
PROPERTIES
    InputsStable
