\* A kproc wires itself to a processor of the other Sched (Schedsz = 1).
CONSTANTS
    Nil = Nil
    NMach = 2
    Schedsz = 1
    Procs <- MCProcs
    Boot = 1
    NPri = 2
    BasePri <- MCBasePri
    Nbalance = 3
    WireAcross = TRUE
    Wirers = {2}
    Noted = {1}
SPECIFICATION Spec
INVARIANT RunqExact
VIEW MCView
