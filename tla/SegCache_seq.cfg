\* One process execs two files through a cache of one segment.
CONSTANTS
    Nil = Nil
    p1 = p1  p2 = p2  x1 = x1  x2 = x2  g1 = g1  g2 = g2  g3 = g3  g4 = g4
    Procs <- OneProc
    Files <- TwoFiles
    Segs <- ThreeSegs
    SCACHESIZE = 1
    MaxOps = 6
SPECIFICATION Spec
INVARIANT TypeOK NoUseAfterFree RefExact CacheConsistent NoPanic VictimCorrect
