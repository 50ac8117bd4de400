\* Two processes sharing a Pgrp: binds before and after, with and without
\* MCREATE, unmounts of one Chan or of all, and createdir in a union.
CONSTANTS
    p1 = p1  p2 = p2  d1 = d1  d2 = d2  s0 = s0  a = a  b = b  Nil = Nil
    Procs <- MCProcs
    Names <- MCNames
    Devs <- MCDevs
    Slash = s0
    NMount = 3
    NEl = 5
    MaxLen = 2
    Orders = {"before", "after"}
    UnTo <- MCUnTo
SPECIFICATION Spec
VIEW LiveView
INVARIANT TypeOK TreeConsistent MountRefs
