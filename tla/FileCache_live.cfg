\* Two processes and two creadprocs, under the
\* fairness of the scheduler and the qlocks: read-aheads are served and
\* every operation returns.
CONSTANTS
    Nil = Nil
    p1 = p1  p2 = p2  w1 = w1  w2 = w2  s1 = s1  s2 = s2
    f1 = f1  f2 = f2  f3 = f3  f4 = f4  f5 = f5
    Procs <- TwoProcs
    Workers <- TwoWorkers
    Segs <- OneSeg
    Frames <- Frames4
    PGSZ = 1
    IOUNIT = 1
    FSIZE = 3
    NBYTES = 2
    MaxOps = 4
    MaxVer = 1
    RpcFail = FALSE
    ReadReqs <- WideReads
SPECIFICATION FairSpec
PROPERTY QueueDrains OpsComplete
