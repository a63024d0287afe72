SPECIFICATION TextSpec
CONSTANTS
    a = a
    space = space
    NoSelection = NoSelection
    Alphabet = {a, space}
    Blank = space
    Wide = {a}
    MaxLength = 3
    MaxVersions = 2
    MaxOrder = 1
CHECK_DEADLOCK FALSE
INVARIANTS
    TextTypeOK
    LocksPreserved
    NoFalseRefusal
    SelectionOnly
    ShownInPlace
