SPECIFICATION Spec
CONSTANTS
    Master = {m1, m2}
    File = {f1, f2}
    Clip = {c1, c2}
    Slots = 2
    Null = Null
INVARIANT ReleaseSparesOpen
CHECK_DEADLOCK FALSE
