\* Two processes opening, reading, writing and removing a 3-unit file.
CONSTANTS
    Nil = Nil
    p1 = p1  p2 = p2  w1 = w1  w2 = w2  s1 = s1  s2 = s2
    f1 = f1  f2 = f2  f3 = f3  f4 = f4  f5 = f5
    Procs <- TwoProcs
    Workers <- OneWorker
    Segs <- OneSeg
    Frames <- Frames4
    PGSZ = 2
    IOUNIT = 1
    FSIZE = 3
    NBYTES = 2
    MaxOps = 4
    MaxVer = 1
    RpcFail = TRUE
    ReadReqs <- Reads
SPECIFICATION FairSpec
INVARIANT TypeOK PageRefsExact NoPanic
PROPERTY OpsComplete
