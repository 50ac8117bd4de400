--------------------------- MODULE MC_MountTable ---------------------------
EXTENDS MountTable, TLC
CONSTANTS p1, p2, d1, d2, s0, a, b
MCProcs == {p1, p2}
MCNames == {a}
MCDevs == {d1}
\* cunmount of a bound device, or of everything at a path.
MCUnTo == {Chan(d1, <<>>), Nil}
\* Unmounts that may name the root device bound at "/".
MCUnToSlash == {Chan(s0, <<>>), Nil}
====
