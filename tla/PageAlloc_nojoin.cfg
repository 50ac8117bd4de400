\* Two CPUs sharing the allocator, joinpages off.
CONSTANTS
    c1 = c1
    c2 = c2
    Nil = Nil
    CPU <- MCCPU2
    NBig = 1
    NHead = 1
    NBun = 2
    BSZ = 2
    JoinPages = FALSE
    PoolMax = 1
    MaxHeld = 2
    ReqClasses = {0, 1, 2}
SYMMETRY MCSymmetry
SPECIFICATION Spec
INVARIANTS TypeOK FreeListsConsistent NoDoubleAlloc NoLeak
