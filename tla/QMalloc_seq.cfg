\* One CPU: quick fit, the rover lists, realloc and morecore without
\* contention for mclock.
CONSTANTS
    c1 = c1  c2 = c2  Nil = Nil
    CPU <- MCCPU1
    Mult = 2
    NQUICK = 3
    Arena0 = 7
    PgUnits = 6
    MaxCore = 1
    Req = {1, 2, 3}
    MaxHeld = 3
    Aligns = {1}
SPECIFICATION Spec
INVARIANT TypeOK NoOverlap NoLeak
