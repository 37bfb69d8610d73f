SPECIFICATION Spec
CONSTANTS
    Proc = {p1, p2}
    File = {a, b}
    a = a
    b = b
    Link = link
    None = none
    Cases <- Often
    Memory = 2
    Start = 4
    End = 6
SYMMETRY Symmetry
INVARIANTS
    CheckedOften
CHECK_DEADLOCK FALSE
