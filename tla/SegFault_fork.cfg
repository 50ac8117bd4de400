\* forkseg and copy on reference: parent p1 on s0, child p2 on the copy s1.
CONSTANTS
    Nil = Nil
    p1 = p1  p2 = p2  s0 = s0  s1 = s1
    f1 = f1  f2 = f2  f3 = f3  f4 = f4  f5 = f5  f6 = f6
    Procs <- ForkProcs
    Segs <- BothSegs
    SegOf <- ForkSegOf
    Src <- SrcOfCopy
    Frames <- Frames4
    NPte = 2
    PTEPERTAB = 1
    FLen = 1
    PoolMax = 0
    IOFail = TRUE
    FreeReqs <- SinglePageFrees
SYMMETRY Frame4Symmetry
SPECIFICATION Spec
INVARIANT TypeOK PageOwnership
