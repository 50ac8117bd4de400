---------------------------- MODULE MC_SegAttach ----------------------------
(* Instances of SegAttach for TLC.  A process starts with text [2,4),     *)
(* data [4,6) and stack [14,16), pages of two addresses, as after exec.   *)
EXTENDS SegAttach, TLC

CONSTANTS p1, p2, g1, g2, g3, g4, g5, g6

TwoProcs == {p1, p2}
SixSegs  == {g1, g2, g3, g4, g5, g6}

\* brk/segbrk/segdetach addresses: a query, the data base, into a
\* segment attached at 8, and next to the stack.
MCBrkAddrs == {0, 4, 9, 13}

SegSymmetry == Permutations(SixSegs)
==============================================================================
