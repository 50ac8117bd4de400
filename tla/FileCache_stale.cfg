\* A write racing a read-ahead: does a later read see it? One-unit pages,
\* so a three-page read runs past the two-page window and queues page 2.
CONSTANTS
    Nil = Nil
    p1 = p1  p2 = p2  w1 = w1  w2 = w2  s1 = s1  s2 = s2
    f1 = f1  f2 = f2  f3 = f3  f4 = f4  f5 = f5
    Procs <- TwoProcs
    Workers <- OneWorker
    Segs <- OneSeg
    Frames <- Frames4
    PGSZ = 1
    IOUNIT = 1
    FSIZE = 3
    NBYTES = 2
    MaxOps = 4
    MaxVer = 1
    RpcFail = TRUE
    ReadReqs <- WideReads
SYMMETRY Symmetry
SPECIFICATION Spec
INVARIANT ReadYourWrites
