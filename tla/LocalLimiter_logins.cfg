SPECIFICATION Spec
CONSTANTS
    a1 = a1
    u1 = u1
    u2 = u2
    u3 = u3
    n1 = n1
    n2 = n2
    None = None
    Addresses = {a1}
    Usernames = {u1, u2, u3}
    Names = {n1, n2}
    Normalized <- Spelling
    Window = 2
    Second = 2
    Rounding = 1
    Limit <- Limits
    PruneEvery = 3
    MaxTime = 9
CHECK_DEADLOCK FALSE
INVARIANTS
    WindowLimit
    RetryAfterSuffices
PROPERTIES
    ImplementsRedis
