CONSTANTS
    Callers = {c1, c2, c3}
    Objects = {a, b}
    Zero = Zero
    Size = 1
SPECIFICATION Spec
INVARIANTS
    OnePlace
    DrainedOnce
CHECK_DEADLOCK FALSE
