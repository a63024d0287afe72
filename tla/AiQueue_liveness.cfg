SPECIFICATION Spec
CONSTANTS
    m1 = m1
    m2 = m2
    t1 = t1
    t2 = t2
    o1 = o1
    o2 = o2
    o3 = o3
    w1 = w1
    w2 = w2
    None = None
    Members = {m1}
    Tasks = {t1}
    OwnerOf <- OneTask
    Ops = {o1, o2}
    Workers = {w1, w2}
    CallBound = 1
    LeaseTTL = 2
    StaleAfter = 3
    InitStates = {"editing"}
    Faults = {"redis", "database", "crash", "shutdown"}
    MaxFaults = 1
CHECK_DEADLOCK FALSE
PROPERTIES
    EveryOperationFinishes
