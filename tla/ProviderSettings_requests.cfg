SPECIFICATION SettingsSpec
CONSTANTS
    r1 = r1
    r2 = r2
    r3 = r3
    r4 = r4
    u1 = u1
    u2 = u2
    m1 = m1
    m2 = m2
    t1 = t1
    t2 = t2
    NoConnection = NoConnection
    Changes = {r1, r2, r3, r4}
    Urls = {u1, u2}
    Models = {m1, m2}
    Timeouts = {t1, t2}
SYMMETRY Interchangeable
CHECK_DEADLOCK FALSE
INVARIANTS
    SettingsTypeOK
    KeyGoesToItsUrl
PROPERTIES
    PatchKeepsConnection
