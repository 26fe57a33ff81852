CONSTANTS
    Requests = {r1, r2, r3, r4, r5}
    Skipping = {r5}
    MaxReqs = 2
    Window = 4
    Suffixes = {x, y}
    Skew = 1
    Delay = 1
    MaxTime = 5
SPECIFICATION Spec
CHECK_DEADLOCK FALSE
INVARIANTS
    TypeOK
    RateBound
    RefusedWhenFull
SYMMETRY Symmetry
