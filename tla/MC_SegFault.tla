---------------------------- MODULE MC_SegFault ----------------------------
(* Instances of SegFault for TLC: a root DATA segment s0 and a copy s1     *)
(* that forkseg makes from it, used by processes p1, p2, p3.              *)
EXTENDS SegFault, TLC

CONSTANTS p1, p2, s0, s1, f1, f2, f3, f4, f5, f6

\* A parent p1 on s0 and the child p2 that its fork puts on s1.
ForkProcs == {p1, p2}
ForkSegOf == (p1 :> s0) @@ (p2 :> s1)

\* Two threads (processes sharing the segment after rfork(RFMEM)) on s0.
ThreadProcs == {p1, p2}
ThreadSegOf == (p1 :> s0) @@ (p2 :> s0)

OneProc  == {p1}
OneSegOf == p1 :> s0

RootSegs == {s0}
BothSegs == {s0, s1}
SrcOfCopy == (s0 :> Nil) @@ (s1 :> s0)
SrcRoot   == s0 :> Nil

\* segfree requests <<from, to>> in half pages: whole single pages, an
\* unaligned start, several pages.
SinglePageFrees == {<<0, 2>>, <<1, 4>>}
WholeSegFree    == {<<0, 4>>}
UnalignedFrees  == {<<1, 2>>, <<0, 2>>, <<4, 8>>}

Frames2 == {f1, f2}
Frames4 == {f1, f2, f3, f4}
Frames5 == {f1, f2, f3, f4, f5}
Frames6 == {f1, f2, f3, f4, f5, f6}

FrameSymmetry  == Permutations(Frames6)
Frame5Symmetry == Permutations(Frames5)
Frame4Symmetry == Permutations(Frames4)
ThreadSymmetry == Permutations(ThreadProcs) \cup Permutations(Frames2)
==============================================================================
