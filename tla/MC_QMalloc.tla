---------------------------- MODULE MC_QMalloc ----------------------------
(* Instances of QMalloc for TLC.                                           *)
EXTENDS QMalloc, TLC

CONSTANTS c1, c2

MCCPU1 == {c1}
MCCPU2 == {c1, c2}
====
