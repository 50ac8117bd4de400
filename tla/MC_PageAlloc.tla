--------------------------- MODULE MC_PageAlloc ---------------------------
(* Instances of PageAlloc for TLC.                                         *)
EXTENDS PageAlloc, TLC

CONSTANTS c1, c2

MCCPU1 == {c1}
MCCPU2 == {c1, c2}

\* The CPUs are interchangeable: no action names a particular one.
MCSymmetry == Permutations({c1, c2})
====
