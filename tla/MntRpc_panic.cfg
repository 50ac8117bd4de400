\* Two processes, two notes: a flush interrupted while the reader completes it panics in mntqrm.
CONSTANTS
    Nil = Nil
    p1 = p1  p2 = p2  p3 = p3  h1 = h1  h2 = h2  h3 = h3  h4 = h4
    Procs <- TwoProcs
    Rpcs <- Rpcs3
    NTags = 4
    NRPCS = 0
    MaxOps = 2
    MaxIntr = 2
    SrvErrors = TRUE
    SrvFifo = FALSE
    ConnErrors = FALSE
SPECIFICATION Spec
INVARIANT NoPanic
