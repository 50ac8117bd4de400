\* Two CPUs, joinpages on: a join racing a split of the same large page.
CONSTANTS
    c1 = c1
    c2 = c2
    Nil = Nil
    CPU <- MCCPU2
    NBig = 1
    NHead = 0
    NBun = 1
    BSZ = 2
    JoinPages = TRUE
    PoolMax = 0
    MaxHeld = 1
    ReqClasses = {1, 2}
SYMMETRY MCSymmetry
SPECIFICATION Spec
INVARIANT NoDoubleAlloc
