\* An interrupted reader frees its rpc without a flush; the tag's next user takes the old answer.
CONSTANTS
    Nil = Nil
    p1 = p1  p2 = p2  p3 = p3  h1 = h1  h2 = h2  h3 = h3  h4 = h4
    Procs <- OneProc
    Rpcs <- Rpcs3
    NTags = 4
    NRPCS = 0
    MaxOps = 2
    MaxIntr = 1
    SrvErrors = FALSE
    SrvFifo = TRUE
    ConnErrors = FALSE
SPECIFICATION Spec
INVARIANT ReplyMatches
