\* An interrupt preempts pexit after up->sch = nil.
CONSTANTS
    Nil = Nil
    NMach = 2
    Schedsz = 2
    Procs <- MCProcs
    Boot = 1
    NPri = 2
    BasePri <- MCBasePri
    Nbalance = 3
    WireAcross = FALSE
    Wirers = {2}
    Noted = {1}
SPECIFICATION Spec
INVARIANT NoCrash
VIEW MCView
