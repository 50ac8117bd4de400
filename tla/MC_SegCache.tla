---------------------------- MODULE MC_SegCache ----------------------------
(* Instances of SegCache for TLC.                                          *)
EXTENDS SegCache, TLC

CONSTANTS p1, p2, x1, x2, g1, g2, g3, g4

OneProc  == {p1}
TwoProcs == {p1, p2}
TwoFiles == {x1, x2}
ThreeSegs == {g1, g2, g3}
FourSegs  == {g1, g2, g3, g4}

ProcSymmetry == Permutations(TwoProcs)
==============================================================================
