CONSTANTS
    Callers = {c1, c2}
    Keys = {k1, k2}
    Bodies = {b1}
    Objects = {o1, o2, o3, o4, o5, o6, o7}
    NoObject = NoObject
    Missing = Missing
    Tokens = {t1}
    NoToken = NoToken
    NoKey = NoKey
    MaxCalls = 2
SYMMETRY MCSymmetry
SPECIFICATION Spec
INVARIANTS
    KeepsExisting
    FilesKept
    TokenOnce
CHECK_DEADLOCK FALSE
