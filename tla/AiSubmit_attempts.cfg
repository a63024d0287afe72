SPECIFICATION Spec
CONSTANTS
    c1 = c1
    c3 = c3
    k1 = k1
    k2 = k2
    b1 = b1
    None = None
    Keys = {k1, k2}
    Bodies = {b1}
    Clicks = {c1, c3}
    RetryClicks = {c3}
    KeyOf <- RetryKey
    BodyOf <- OneBody
    MaxAttempts = 2
    MayClear = TRUE
CHECK_DEADLOCK FALSE
INVARIANTS
    BilledOnce
    AcceptedIsOwn
PROPERTIES
    EveryClickSettles
