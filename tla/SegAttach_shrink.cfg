\* brk below the data top: ibrk panics "ibrk doesn't shrink".
CONSTANTS
    Nil = Nil
    p1 = p1  p2 = p2
    g1 = g1  g2 = g2  g3 = g3  g4 = g4  g5 = g5  g6 = g6
    Procs <- TwoProcs
    Segs <- SixSegs
    NSEG = 6
    PGSZ = 2
    UTZERO = 2
    UTOP = 16
    SEGMAXSIZE = 10
    PSSIZE = 4
    BrkAddrs <- MCBrkAddrs
    AttachVas = {0, 8}
    AttachLens = {2, 4}
    Shares = {FALSE, TRUE}
SYMMETRY SegSymmetry
SPECIFICATION Spec
INVARIANT NoPanic
CHECK_DEADLOCK FALSE
