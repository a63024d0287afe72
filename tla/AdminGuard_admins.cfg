SPECIFICATION Spec
CONSTANTS
    a1 = a1
    a2 = a2
    m1 = m1
    r1 = r1
    r2 = r2
    r3 = r3
    b1 = b1
    b2 = b2
    None = None
    Members = {a1, a2, m1}
    Requests = {r1, r2, r3}
    Boots = {b1, b2}
    InitAdmins <- NoneOrTwo
SYMMETRY Interchangeable
CHECK_DEADLOCK FALSE
INVARIANTS
    AdminRemains
PROPERTIES
    FirstAdminOnly
    AccountsKept
