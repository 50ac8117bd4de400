\* Two CPUs whose first requests exceed mseg0: one is inside morecore when
\* the other finds mclock held, waits for it and rescans without mainlock.
CONSTANTS
    c1 = c1  c2 = c2  Nil = Nil
    CPU <- MCCPU2
    Mult = 2
    NQUICK = 3
    Arena0 = 4
    PgUnits = 6
    MaxCore = 1
    Req = {1, 3}
    MaxHeld = 1
    Aligns = {1}
SPECIFICATION Spec
INVARIANT NoOverlap
