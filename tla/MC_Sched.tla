--------------------------- MODULE MC_Sched ---------------------------------
(* Instances of Sched for TLC.                                              *)
EXTENDS Sched

\* The boot process at the normal level, a kproc one level above.
MCProcs == {1, 2}
MCBasePri == [p \in MCProcs |-> IF p = 1 THEN 0 ELSE 1]

(***************************************************************************)
(* A Dead slot's p->priority, p->mp, p->wired and p->notepending are      *)
(* rewritten by newproc before anything reads them, so states that differ *)
(* only there have the same futures.                                      *)
(***************************************************************************)
Fresh(f, v) == [p \in Procs |-> IF pst[p] = "Dead" THEN v ELSE f[p]]
MCView == <<ms, cur, pst, pmach, Fresh(pmp, Nil), psch, Fresh(pwired, Nil),
            Fresh(pri, 0), ppc, asleep, cond, Fresh(note, FALSE), runq, nrdy,
            runvec, nruns, smp, last, crash>>
====
