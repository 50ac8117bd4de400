\* A page faulted into the parent after fork is shared with the child through src.
CONSTANTS
    Nil = Nil
    p1 = p1  p2 = p2  s0 = s0  s1 = s1
    f1 = f1  f2 = f2  f3 = f3  f4 = f4  f5 = f5  f6 = f6
    Procs <- ForkProcs
    Segs <- BothSegs
    SegOf <- ForkSegOf
    Src <- SrcOfCopy
    Frames <- Frames5
    NPte = 2
    PTEPERTAB = 1
    FLen = 1
    PoolMax = 0
    IOFail = FALSE
    FreeReqs <- SinglePageFrees
SYMMETRY Frame5Symmetry
SPECIFICATION Spec
INVARIANT UserMapsPrivate
