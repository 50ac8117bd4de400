--------------------------- MODULE MC_FileCache ---------------------------
(* Instances of FileCache for TLC.                                         *)
EXTENDS FileCache, TLC

CONSTANTS p1, p2, w1, w2, s1, s2, f1, f2, f3, f4, f5

TwoProcs == {p1, p2}
OneWorker == {w1}
TwoWorkers == {w1, w2}
OneSeg == {s1}
Frames4 == {f1, f2, f3, f4}
Frames5 == {f1, f2, f3, f4, f5}

\* A whole-window read from the start and a one-page read of the second page.
Reads == {<<0, 4>>, <<2, 2>>}
WindowRead == {<<0, 4>>}
\* With one-unit pages: a read of three pages, one past the two-page
\* window (so it queues a read-ahead), and a read of the last page.
WideReads == {<<0, 3>>, <<2, 1>>}

\* The two processes are interchangeable (newpage picks frames itself).
Symmetry == Permutations(TwoProcs)
====
