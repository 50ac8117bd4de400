\* Three processes: one leaves the reader gate through an interrupted flush and strands a sleeper.
CONSTANTS
    Nil = Nil
    p1 = p1  p2 = p2  p3 = p3  h1 = h1  h2 = h2  h3 = h3  h4 = h4
    Procs <- ThreeProcs
    Rpcs <- Rpcs4
    NTags = 5
    NRPCS = 0
    MaxOps = 3
    MaxIntr = 2
    SrvErrors = FALSE
    SrvFifo = TRUE
    ConnErrors = FALSE
SYMMETRY ProcSymmetry
SPECIFICATION Spec
INVARIANT NoStrandedSleeper
