\* Two processes exec two files through a cache of one segment.
CONSTANTS
    Nil = Nil
    p1 = p1  p2 = p2  x1 = x1  x2 = x2  g1 = g1  g2 = g2  g3 = g3  g4 = g4
    Procs <- TwoProcs
    Files <- TwoFiles
    Segs <- ThreeSegs
    SCACHESIZE = 1
    MaxOps = 4
SPECIFICATION Spec
INVARIANT NoUseAfterFree
