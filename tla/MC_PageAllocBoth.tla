------------------------- MODULE MC_PageAllocBoth -------------------------
(***************************************************************************)
(* The two passing configurations of PageAlloc in one model: the variable *)
(* mode, fixed in the initial state, says which instance a behaviour      *)
(* belongs to.                                                             *)
(*   "nojoin": two CPUs, *joinpages off, one large page, two bundles.     *)
(*   "join1":  one CPU, *joinpages on, two large pages, so joinbundle and *)
(*             the join of a drained allocator into its parent page run.  *)
(* Each property holds of the model iff it holds of the instance of the   *)
(* behaviour's mode.                                                       *)
(***************************************************************************)
EXTENDS TLC

CONSTANTS c1, c2, Nil

VARIABLES fl, ref, pga, parent, classlist, nsplit, pool, npool, panicked,
          pc, req, ci, pg, fp, fa, held, mode

NJ == INSTANCE PageAlloc WITH CPU <- {c1, c2}, NBig <- 1, NHead <- 1,
        NBun <- 2, BSZ <- 2, JoinPages <- FALSE, PoolMax <- 1, MaxHeld <- 2,
        ReqClasses <- {0, 1, 2}
J1 == INSTANCE PageAlloc WITH CPU <- {c1}, NBig <- 2, NHead <- 1,
        NBun <- 2, BSZ <- 2, JoinPages <- TRUE, PoolMax <- 1, MaxHeld <- 3,
        ReqClasses <- {0, 1, 2}

Init == \/ mode = "nojoin" /\ NJ!Init
        \/ mode = "join1" /\ J1!Init

Next == /\ \/ mode = "nojoin" /\ NJ!Next
           \/ mode = "join1" /\ J1!Next
        /\ UNCHANGED mode

Spec == Init /\ [][Next]_<<NJ!vars, mode>>

\* The properties of PageAlloc, each read in the instance of the behaviour.
\* TypeOK: the allocator's variables have their types.
TypeOK == IF mode = "nojoin" THEN NJ!TypeOK ELSE J1!TypeOK

\* Free lists match nfree, back-links and prev links under concurrent
\* newpg/pgfree (nojoin) and under joinbundle and joins (join1).
FreeListsConsistent ==
    IF mode = "nojoin" THEN NJ!FreeListsConsistent ELSE J1!FreeListsConsistent

\* No frame is owned twice, across splits, bundles, pools and joins.
NoDoubleAlloc == IF mode = "nojoin" THEN NJ!NoDoubleAlloc ELSE J1!NoDoubleAlloc

\* With no CPU inside the allocator, every frame has an owner.
NoLeak == IF mode = "nojoin" THEN NJ!NoLeak ELSE J1!NoLeak
====
