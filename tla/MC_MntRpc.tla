----------------------------- MODULE MC_MntRpc -----------------------------
(* Instances of MntRpc for TLC.                                            *)
EXTENDS MntRpc, TLC

CONSTANTS p1, p2, p3, h1, h2, h3, h4

OneProc    == {p1}
TwoProcs   == {p1, p2}
ThreeProcs == {p1, p2, p3}
Rpcs3 == {h1, h2, h3}
Rpcs4 == {h1, h2, h3, h4}
\* The processes are interchangeable: no step names a particular one.
ProcSymmetry == Permutations(ThreeProcs)
====
