\* A bind with MREPL (putum of the old list, no wlock) while the other
\* process scans the same union in createdir.
CONSTANTS
    p1 = p1  p2 = p2  d1 = d1  d2 = d2  s0 = s0  a = a  b = b  Nil = Nil
    Procs <- MCProcs
    Names <- MCNames
    Devs <- MCDevs
    Slash = s0
    NMount = 3
    NEl = 5
    MaxLen = 1
    Orders = {"before", "after", "repl"}
    UnTo <- MCUnTo
SPECIFICATION Spec
VIEW LiveView
PROPERTY NoUseAfterFree
