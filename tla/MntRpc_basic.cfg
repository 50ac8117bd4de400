\* Two processes issue two operations and take up to two notes; the server answers in any order and may fail a read, and a write to the connection may fail.
CONSTANTS
    Nil = Nil
    p1 = p1  p2 = p2  p3 = p3  h1 = h1  h2 = h2  h3 = h3  h4 = h4
    Procs <- TwoProcs
    Rpcs <- Rpcs3
    NTags = 4
    NRPCS = 0
    MaxOps = 2
    MaxIntr = 2
    SrvErrors = TRUE
    SrvFifo = FALSE
    ConnErrors = TRUE
SYMMETRY ProcSymmetry
SPECIFICATION Spec
INVARIANT TypeOK QueueExact
