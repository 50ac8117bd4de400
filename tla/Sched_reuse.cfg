\* newproc reuses a slot schedinit released before it cleared up->mach.
CONSTANTS
    Nil = Nil
    NMach = 2
    Schedsz = 2
    Procs <- MCProcs
    Boot = 1
    NPri = 2
    BasePri <- MCBasePri
    Nbalance = 3
    WireAcross = FALSE
    Wirers = {2}
    Noted = {1}
SPECIFICATION Spec
INVARIANT NoDoubleRun
VIEW MCView
