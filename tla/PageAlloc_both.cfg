\* PageAlloc_nojoin.cfg (two CPUs, joinpages off) and PageAlloc_join1.cfg
\* (one CPU, joinpages on) in one model.
CONSTANTS
    c1 = c1
    c2 = c2
    Nil = Nil
SPECIFICATION Spec
INVARIANTS TypeOK FreeListsConsistent NoDoubleAlloc NoLeak
