\* One CPU, requests of 2, 3, 5 and 7 units: a fragment list drained without
\* removing its largest block, then a larger block freed onto the empty list.
CONSTANTS
    c1 = c1  c2 = c2  Nil = Nil
    CPU <- MCCPU1
    Mult = 2
    NQUICK = 3
    Arena0 = 12
    PgUnits = 16
    MaxCore = 1
    Req = {1, 2, 3, 5}
    MaxHeld = 3
    Aligns = {1}
SPECIFICATION Spec
INVARIANT MaxszSound
