\* A thread failing out of pagedin releases the segment lock its sibling holds in segfree.
CONSTANTS
    Nil = Nil
    p1 = p1  p2 = p2  s0 = s0  s1 = s1
    f1 = f1  f2 = f2  f3 = f3  f4 = f4  f5 = f5  f6 = f6
    Procs <- ThreadProcs
    Segs <- RootSegs
    SegOf <- ThreadSegOf
    Src <- SrcRoot
    Frames <- Frames2
    NPte = 2
    PTEPERTAB = 1
    FLen = 1
    PoolMax = 1
    IOFail = FALSE
    FreeReqs <- SinglePageFrees
SYMMETRY ThreadSymmetry
SPECIFICATION Spec
INVARIANT SegLockHeld
