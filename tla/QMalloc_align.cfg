\* One CPU: mallocalign with alignments of 2 and 4 units next to malloc,
\* free and realloc, through the quick lists, the tail and the rovers.
CONSTANTS
    c1 = c1  c2 = c2  Nil = Nil
    CPU <- MCCPU1
    Mult = 2
    NQUICK = 3
    Arena0 = 7
    PgUnits = 6
    MaxCore = 1
    Req = {1, 3}
    MaxHeld = 2
    Aligns = {2, 4}
SPECIFICATION Spec
INVARIANT TypeOK NoOverlap NoLeak
PROPERTY AlignedResult
