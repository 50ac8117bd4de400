\* Two CPUs sharing the allocator, joinpages off.
CONSTANTS
    c1 = c1
    c2 = c2
    Nil = Nil
    CPU <- MCCPU1
    NBig = 2
    NHead = 1
    NBun = 2
    BSZ = 2
    JoinPages = TRUE
    PoolMax = 1
    MaxHeld = 3
    ReqClasses = {0, 1, 2}
SPECIFICATION Spec
INVARIANTS FreeListsConsistent NoDoubleAlloc NoLeak
