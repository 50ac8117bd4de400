------------------------------- MODULE Sched -------------------------------
(***************************************************************************)
(* The process scheduler of port/proc.c.  Each group of Schedsz          *)
(* processors shares a Sched: a lock, Npriq run queues, nrdy and the      *)
(* runvec bitmap.  A processor leaves a process through schedinit (which  *)
(* re-readies a Running one and releases a Moribund one) and picks the    *)
(* next with runproc/rqrunproc, rebalancing once a second.  A process     *)
(* sleeps on a Rendez and is readied by wakeup or postnote; it can wire   *)
(* itself to a processor (procwired), move to another Sched at exec       *)
(* (execsched), create processes (newproc) and exit (pexit).              *)
(*                                                                         *)
(* Data abstraction: reprioritize() depends on cpu usage and load; here   *)
(* it yields any level up to p->basepri.  The edf queues stay empty       *)
(* (noedf.c).  Each process sleeps on a Rendez of its own, whose         *)
(* condition is set by an interrupt handler that then calls wakeup.      *)
(***************************************************************************)
EXTENDS Integers, Sequences, SequencesExt, FiniteSets

CONSTANTS
    NMach,       \* processors 0..NMach-1 (sys->machptr)
    Schedsz,     \* processors per Sched (proc.c Schedsz)
    Procs,       \* process slots
    Boot,        \* the first process; pexit panics for it (no parent)
    NPri,        \* Npriq, the scheduler's priority levels
    BasePri,     \* [Procs -> 0..NPri-1]: p->basepri from procpriority
    Nbalance,    \* one runproc in Nbalance ignores affinity
    WireAcross,  \* procwired may pick a processor of another Sched
    Wirers,      \* the processes that call procwired (kprocs)
    Noted,       \* the processes that are sent notes
    Nil

Machs == 0..NMach-1
SchOf(m) == m \div Schedsz                 \* setsched: m->sch
Scheds == {SchOf(m) : m \in Machs}
NSched == Cardinality(Scheds)
Pri == 0..NPri-1

VARIABLES
    ms,       \* ms[m]: where processor m is: "sw" in schedinit, "sw2" before
              \* up->mach = nil, "sched" in runproc, "idle" in idlehands, "run"
    cur,      \* cur[m]: up on processor m
    pst,      \* p->state
    pmach,    \* p->mach: the processor whose stack holds p's context
    pmp,      \* p->mp: the processor p last ran on (affinity)
    psch,     \* p->sch
    pwired,   \* p->wired
    pri,      \* p->priority
    ppc,      \* where p is: "user", "slept" (inside sleep), "exit" (in pexit)
    asleep,   \* r->p = p and p->r = r for p's Rendez
    cond,     \* the condition p's sleep tests
    note,     \* p->notepending
    runq,     \* runq[s][k]: the processes on sch->runq[k], head first
    nrdy,     \* sch->nrdy
    runvec,   \* sch->runvec, as the set of its bits
    nruns,    \* sch->nruns % Nbalance
    smp,      \* sch->mp
    last,     \* execsched's static last
    crash     \* a panic or a fault in lock(nil)

vars == <<ms, cur, pst, pmach, pmp, psch, pwired, pri, ppc, asleep, cond,
          note, runq, nrdy, runvec, nruns, smp, last, crash>>
qvars == <<pst, pri, runq, nrdy, runvec, crash>>

InQueue(p) == \E s \in Scheds, k \in Pri : \E i \in DOMAIN runq[s][k] : runq[s][k][i] = p

\* p->rnext != nil: p is queued and not at the tail.
HasNext(p) ==
    \E s \in Scheds, k \in Pri : \E i \in 1..(Len(runq[s][k]) - 1) : runq[s][k][i] = p

Init ==
    /\ ms = [m \in Machs |-> "sw"]
    /\ cur = [m \in Machs |-> Nil]
    /\ pst = [p \in Procs |-> IF p = Boot THEN "Ready" ELSE "Dead"]
    /\ pmach = [p \in Procs |-> Nil]
    /\ pmp = [p \in Procs |-> Nil]
    /\ psch = [p \in Procs |-> IF p = Boot THEN 0 ELSE Nil]
    /\ pwired = [p \in Procs |-> Nil]
    /\ pri = [p \in Procs |-> BasePri[p]]
    /\ ppc = [p \in Procs |-> "user"]
    /\ asleep = [p \in Procs |-> FALSE]
    /\ cond = [p \in Procs |-> FALSE]
    /\ note = [p \in Procs |-> FALSE]
    /\ runq = [s \in Scheds |-> [k \in Pri |->
                  IF s = 0 /\ k = BasePri[Boot] THEN <<Boot>> ELSE <<>>]]
    /\ nrdy = [s \in Scheds |-> IF s = 0 THEN 1 ELSE 0]
    /\ runvec = [s \in Scheds |-> IF s = 0 THEN {BasePri[Boot]} ELSE {}]
    /\ nruns = [s \in Scheds |-> 0]
    /\ smp = [s \in Scheds |-> Nil]
    /\ last = 0
    /\ crash = FALSE

\* linkproc(p, pri) under lock(s): p at the tail of s->runq[pri], nrdy++,
\* the level's runvec bit set.
Linkproc(p, s, k) ==
    /\ pri' = [pri EXCEPT ![p] = k]
    /\ runq' = [runq EXCEPT ![s][k] = Append(@, p)]
    /\ nrdy' = [nrdy EXCEPT ![s] = @ + 1]
    /\ runvec' = [runvec EXCEPT ![s] = @ \cup {k}]

(***************************************************************************)
(* ready(p) with p->sch = s: reprioritize, state Ready, then linkproc      *)
(* under lock(s).  lock(nil) faults; linkproc panics when p->rnext is set. *)
(***************************************************************************)
Ready(p, s) ==
    IF s = Nil \/ HasNext(p)
    THEN crash' = TRUE /\ UNCHANGED <<pst, pri, runq, nrdy, runvec>>
    ELSE /\ pst' = [pst EXCEPT ![p] = "Ready"]
         /\ \E k \in 0..BasePri[p] : Linkproc(p, s, k)
         /\ UNCHANGED crash

(***************************************************************************)
(* rqrunproc's test of a queued p on processor m: skip it while its        *)
(* context is still on a processor's stack; a wired p goes to its wired   *)
(* processor, or anywhere when wired to another Sched (it migrates);      *)
(* otherwise take it unless affinity prefers another processor.           *)
(***************************************************************************)
Runnable(p, m, aff) ==
    /\ pmach[p] = Nil
    /\ IF pwired[p] # Nil
       THEN psch[p] # SchOf(pwired[p]) \/ pwired[p] = m
       ELSE pmp[p] = Nil \/ ~aff \/ pmp[p] = m

\* Index of the process rqrunproc(q, aff) takes from q, 0 if none.
Take(q, m, aff) == SelectInSeq(q, LAMBDA p : Runnable(p, m, aff))

\* runproc's scan of one level: with affinity unless nruns%Nbalance is 0,
\* then without.
TakeAt(q, m, n) ==
    LET j == IF n % Nbalance # 0 THEN Take(q, m, TRUE) ELSE 0
    IN IF j # 0 THEN j ELSE Take(q, m, FALSE)

(***************************************************************************)
(* rebalance(), once a second on the Sched's bookkeeping processor: each  *)
(* queued process gets reprioritize()'s level, at most its basepri; one   *)
(* whose level changes is unlinked and linked at the tail of its new      *)
(* queue.  The order among the processes moved to one level, which the    *)
(* "goto again" rescans decide, is left open.  A level loses its runvec   *)
(* bit when its queue empties and gets it back when a process is linked.  *)
(***************************************************************************)
Rebalances(s) ==
    LET Q == runq[s]
        P == UNION {ToSet(Q[k]) : k \in Pri}
        Moved(np, k) == {p \in P : np[p] = k /\ p \notin ToSet(Q[k])}
        Stay(np, k) == SelectSeq(Q[k], LAMBDA p : np[p] = k)
        Orders(np) == {o \in [Pri -> UNION {SetToSeqs(Moved(np, k)) : k \in Pri}] :
                          \A k \in Pri : o[k] \in SetToSeqs(Moved(np, k))}
        Bit(np, k) == IF Moved(np, k) # {} THEN TRUE
                      ELSE IF Q[k] # <<>> /\ Stay(np, k) = <<>> THEN FALSE
                      ELSE k \in runvec[s]
    IN UNION { { [q  |-> [k \in Pri |-> Stay(np, k) \o o[k]],
                  np |-> np,
                  rv |-> {k \in Pri : Bit(np, k)}] : o \in Orders(np) }
             : np \in {f \in [P -> Pri] : \A p \in P : f[p] <= BasePri[p]} }

NoRebalance(s) == [q |-> runq[s], np |-> [p \in {} |-> 0], rv |-> runvec[s]]

(***************************************************************************)
(* unlinkproc(rq, l, p) of sch = p->sch: when rq of Sched s empties it     *)
(* clears bit rq - sch->runq.  For sch # s that index is not a level of   *)
(* sch: the shift clears one arbitrary bit of sch->runvec, or none.       *)
(***************************************************************************)
Cleared(s, s2, k, q2) ==
    IF q2 # <<>> THEN {{}}
    ELSE IF s2 = s THEN {{k}}
    ELSE {{}} \cup {{j} : j \in Pri}

\* The end of sched(): up = p, Running, p->mach = m, m->proc = up.
Dispatch(m, p) ==
    /\ pst' = [pst EXCEPT ![p] = "Running"]
    /\ pmach' = [pmach EXCEPT ![p] = m]
    /\ cur' = [cur EXCEPT ![m] = p]
    /\ ms' = [ms EXCEPT ![m] = "run"]

(***************************************************************************)
(* runproc() on processor m, under lock(sch): nruns++, rebalance when due, *)
(* then the scan from the highest level down; the process taken is        *)
(* unlinked (a wired one whose p->sch is not its wired processor's gets   *)
(* that Sched first), made Scheding with p->mp = m, and sched() runs it:  *)
(* a new priority, Running, p->mach = m.  With nothing taken, m idles.    *)
(***************************************************************************)
Runproc(m) ==
    LET s == SchOf(m)
        n == (nruns[s] + 1) % Nbalance
    IN
    /\ ms[m] = "sched" /\ ~crash
    /\ nruns' = [nruns EXCEPT ![s] = n]
    /\ \E b \in IF smp[s] = m THEN Rebalances(s) \cup {NoRebalance(s)}
                ELSE {NoRebalance(s)} :
       LET Q == b.q
           L == {k \in Pri : TakeAt(Q[k], m, n) # 0}
           NewPri(x) == IF x \in DOMAIN b.np THEN b.np[x] ELSE pri[x]
       IN
       IF L = {}
       THEN /\ runq' = [runq EXCEPT ![s] = Q]
            /\ runvec' = [runvec EXCEPT ![s] = b.rv]
            /\ pri' = [x \in Procs |-> NewPri(x)]
            /\ ms' = [ms EXCEPT ![m] = "idle"]
            /\ UNCHANGED <<cur, pst, pmach, pmp, psch, nrdy>>
       ELSE LET k == Max(L)
                j == TakeAt(Q[k], m, n)
                p == Q[k][j]
                s2 == IF pwired[p] # Nil /\ psch[p] # SchOf(pwired[p])
                      THEN SchOf(pwired[p]) ELSE psch[p]
                q2 == RemoveAt(Q[k], j)
                rv1 == [runvec EXCEPT ![s] = b.rv]
            IN
            /\ runq' = [runq EXCEPT ![s] = [Q EXCEPT ![k] = q2]]
            /\ nrdy' = [nrdy EXCEPT ![s2] = @ - 1]
            /\ \E clr \in Cleared(s, s2, k, q2) :
                  runvec' = [rv1 EXCEPT ![s2] = @ \ clr]
            /\ psch' = [psch EXCEPT ![p] = s2]
            /\ \E k2 \in 0..BasePri[p] :
                  pri' = [x \in Procs |-> IF x = p THEN k2 ELSE NewPri(x)]
            /\ pmp' = [pmp EXCEPT ![p] = m]
            /\ Dispatch(m, p)
    /\ UNCHANGED <<pwired, ppc, asleep, cond, note, smp, last, crash>>

\* runproc's "while(sch->nrdy == 0) idlehands();" ends when nrdy is not 0.
Idle(m) ==
    /\ ms[m] = "idle" /\ ~crash
    /\ nrdy[SchOf(m)] # 0
    /\ ms' = [ms EXCEPT ![m] = "sched"]
    /\ UNCHANGED <<cur, pst, pmach, pmp, psch, pwired, pri, ppc, asleep, cond,
                   note, runq, nrdy, runvec, nruns, smp, last, crash>>

(***************************************************************************)
(* schedinit() on processor m, entered at boot and whenever up gives up m: *)
(* m becomes its Sched's mp; a Running up is readied, a Moribund one is   *)
(* Dead and its slot released (psrelease); up->mach is cleared after.     *)
(***************************************************************************)
Schedinit(m) ==
    LET p == cur[m] IN
    /\ ms[m] = "sw" /\ ~crash
    /\ smp' = [smp EXCEPT ![SchOf(m)] = m]
    /\ IF p = Nil
       THEN ms' = [ms EXCEPT ![m] = "sched"] /\ UNCHANGED qvars
       ELSE /\ ms' = [ms EXCEPT ![m] = "sw2"]
            /\ CASE pst[p] = "Running"  -> Ready(p, psch[p])
                 [] pst[p] = "Moribund" -> /\ pst' = [pst EXCEPT ![p] = "Dead"]
                                           /\ UNCHANGED <<pri, runq, nrdy, runvec, crash>>
                 [] OTHER               -> UNCHANGED qvars
    /\ UNCHANGED <<cur, pmach, pmp, psch, pwired, ppc, asleep, cond, note,
                   nruns, last>>

\* schedinit's "up->mach = nil; up = nil;" then sched() calls runproc.
SchedinitDone(m) ==
    /\ ms[m] = "sw2" /\ ~crash
    /\ pmach' = [pmach EXCEPT ![cur[m]] = Nil]
    /\ cur' = [cur EXCEPT ![m] = Nil]
    /\ ms' = [ms EXCEPT ![m] = "sched"]
    /\ UNCHANGED <<pst, pmp, psch, pwired, pri, ppc, asleep, cond, note,
                   runq, nrdy, runvec, nruns, smp, last, crash>>

(***************************************************************************)
(* Steps of up, the process running on processor m.                       *)
(***************************************************************************)
OnCpu(m) == ms[m] = "run" /\ ~crash

\* pid != 0: newproc sets p->pid and p->sch, pexit clears both.
Live(p) == psch[p] # Nil

\* anyready(), anyhigher(): m->sch->runvec, and its bits above up's level.
AnyReady(m) == runvec[SchOf(m)] # {}
AnyHigher(m) == \E k \in runvec[SchOf(m)] : k > pri[cur[m]]

\* sched() from a Running up: m goes to schedinit.
ToSched(m) ==
    /\ ms' = [ms EXCEPT ![m] = "sw"]
    /\ UNCHANGED <<cur, pst, pmach, pmp, psch, pwired, pri, ppc, asleep, cond,
                   note, runq, nrdy, runvec, nruns, smp, last, crash>>

\* yield(): sched() when anyready().
Yield(m) ==
    /\ OnCpu(m) /\ ppc[cur[m]] = "user"
    /\ AnyReady(m)
    /\ ToSched(m)

(***************************************************************************)
(* An interrupt on m: hzsched()'s clock tick (100ms used, not fixedpri,   *)
(* anyready) or preempted() at the end of another interrupt (anyhigher)   *)
(* leads to sched().  pexit runs with interrupts on, also after          *)
(* up->sch = nil.                                                          *)
(***************************************************************************)
Preempted(m) ==
    LET p == cur[m] IN
    /\ OnCpu(m)
    /\ ppc[p] \in {"user", "exit"}
    /\ AnyHigher(m) \/ AnyReady(m)
    /\ ToSched(m)

\* Leaving sleep(): error(Eintr) when a note is pending, else the caller
\* goes on and consumes the condition it waited for.
Return(p) ==
    IF note[p] THEN note' = [note EXCEPT ![p] = FALSE] /\ UNCHANGED cond
    ELSE cond' = [cond EXCEPT ![p] = FALSE] /\ UNCHANGED note

(***************************************************************************)
(* sleep(r, f, arg) under lock(r) and up->rlock: r->p = up; if f(arg) or a *)
(* note is pending, never mind; otherwise up is Wakeme on r and m goes    *)
(* to schedinit.                                                          *)
(***************************************************************************)
Sleep(m) ==
    LET p == cur[m] IN
    /\ OnCpu(m) /\ ppc[p] = "user"
    /\ IF cond[p] \/ note[p]
       THEN Return(p) /\ UNCHANGED <<ms, pst, ppc, asleep>>
       ELSE /\ pst' = [pst EXCEPT ![p] = "Wakeme"]
            /\ asleep' = [asleep EXCEPT ![p] = TRUE]
            /\ ppc' = [ppc EXCEPT ![p] = "slept"]
            /\ ms' = [ms EXCEPT ![m] = "sw"]
            /\ UNCHANGED <<cond, note>>
    /\ UNCHANGED <<cur, pmach, pmp, psch, pwired, pri, runq, nrdy, runvec,
                   nruns, smp, last, crash>>

\* sleep() resumed after wakeup or postnote readied up.
Woke(m) ==
    LET p == cur[m] IN
    /\ OnCpu(m) /\ ppc[p] = "slept"
    /\ Return(p)
    /\ ppc' = [ppc EXCEPT ![p] = "user"]
    /\ UNCHANGED <<ms, cur, pst, pmach, pmp, psch, pwired, pri, asleep,
                   runq, nrdy, runvec, nruns, smp, last, crash>>

\* pexit() up to "psunhash(up); up->pid = 0; up->sch = nil;" under up->exl.
Pexit(m) ==
    LET p == cur[m] IN
    /\ OnCpu(m) /\ ppc[p] = "user"
    /\ p # Boot
    /\ psch' = [psch EXCEPT ![p] = Nil]
    /\ ppc' = [ppc EXCEPT ![p] = "exit"]
    /\ UNCHANGED <<ms, cur, pst, pmach, pmp, pwired, pri, asleep, cond,
                   note, runq, nrdy, runvec, nruns, smp, last, crash>>

\* The end of pexit(): noschedlock(&procalloc); up->state = Moribund; sched().
PexitSched(m) ==
    LET p == cur[m] IN
    /\ OnCpu(m) /\ ppc[p] = "exit"
    /\ pst' = [pst EXCEPT ![p] = "Moribund"]
    /\ ppc' = [ppc EXCEPT ![p] = "user"]
    /\ ms' = [ms EXCEPT ![m] = "sw"]
    /\ UNCHANGED <<cur, pmach, pmp, psch, pwired, pri, asleep, cond, note,
                   runq, nrdy, runvec, nruns, smp, last, crash>>

(***************************************************************************)
(* execsched(): an unwired up moves to the next Sched, round robin from   *)
(* last, that has a processor (sch->mp != nil).                           *)
(***************************************************************************)
Execsched(m) ==
    LET p == cur[m]
        Off == {i \in 1..NSched : smp[(last + i) % NSched] # Nil}
        ni == (last + Min(Off)) % NSched
    IN
    /\ OnCpu(m) /\ ppc[p] = "user"
    /\ pwired[p] = Nil
    /\ psch' = [psch EXCEPT ![p] = ni]
    /\ last' = ni
    /\ UNCHANGED <<ms, cur, pst, pmach, pmp, pwired, pri, ppc, asleep, cond,
                   note, runq, nrdy, runvec, nruns, smp, crash>>

\* procwired's count of live processes wired to processor i, p not counted.
Nwired(i, p) == Cardinality({q \in Procs \ {p} : pwired[q] = i /\ Live(q)})

\* The first processor with the fewest processes wired to it.
LeastWired(p) ==
    CHOOSE i \in Machs : \A j \in Machs :
        Nwired(i, p) < Nwired(j, p) \/ (Nwired(i, p) = Nwired(j, p) /\ i <= j)

\* The processor sys->machptr[bm] names: none for an index past the
\* online processors (MACHMAX is larger).
WireTo(p, bm) == IF bm \in Machs THEN bm ELSE Nil

\* procwired(up, bm): bm < 0 picks LeastWired, else bm % MACHMAX; p->wired
\* and p->mp become that processor.
Procwired(m) ==
    LET p == cur[m] IN
    /\ OnCpu(m) /\ ppc[p] = "user" /\ p \in Wirers
    /\ \E bm \in {LeastWired(p)} \cup 0..NMach :
          /\ WireAcross \/ bm \notin Machs \/ SchOf(bm) = psch[p]
          /\ pwired' = [pwired EXCEPT ![p] = WireTo(p, bm)]
          /\ pmp' = [pmp EXCEPT ![p] = WireTo(p, bm)]
    /\ UNCHANGED <<ms, cur, pst, pmach, psch, pri, ppc, asleep, cond, note,
                   runq, nrdy, runvec, nruns, smp, last, crash>>

\* psalloc(): a slot from procalloc.free, where psrelease put a Dead one.
Free(q) == pst[q] = "Dead"

(***************************************************************************)
(* newproc() by up on m, then the caller's ready(): a Dead slot from      *)
(* psalloc gets mach, mp and wired 0, notepending 0, sch = m->sch.         *)
(***************************************************************************)
Newproc(m) ==
    /\ OnCpu(m) /\ ppc[cur[m]] = "user"
    /\ \E q \in Procs :
          /\ Free(q)
          /\ pmach' = [pmach EXCEPT ![q] = Nil]
          /\ pmp' = [pmp EXCEPT ![q] = Nil]
          /\ pwired' = [pwired EXCEPT ![q] = Nil]
          /\ psch' = [psch EXCEPT ![q] = SchOf(m)]
          /\ note' = [note EXCEPT ![q] = FALSE]
          /\ Ready(q, SchOf(m))
    /\ UNCHANGED <<ms, cur, ppc, asleep, cond, nruns, smp, last>>

(***************************************************************************)
(* Interrupt handlers, on any processor.                                  *)
(***************************************************************************)

\* wakeup() and postnote() with r->p = p: p must be Wakeme on r, is
\* unlinked from r and readied.
Wake(p) ==
    /\ asleep' = [asleep EXCEPT ![p] = FALSE]
    /\ IF pst[p] # "Wakeme"
       THEN crash' = TRUE /\ UNCHANGED <<pst, pri, runq, nrdy, runvec>>
       ELSE Ready(p, psch[p])

(***************************************************************************)
(* An interrupt handler makes the condition of p's Rendez true and calls  *)
(* wakeup(r): under lock(r) and p->rlock a sleeper r->p is readied.  As   *)
(* sleep() tests and commits under lock(r) in one step, setting the      *)
(* condition before or after taking lock(r) leads to the same states.    *)
(***************************************************************************)
Wakeup(p) ==
    /\ ~crash /\ pst[p] # "Dead"
    /\ ~cond[p]
    /\ cond' = [cond EXCEPT ![p] = TRUE]
    /\ IF asleep[p] THEN Wake(p) ELSE UNCHANGED <<asleep, qvars>>
    /\ UNCHANGED <<ms, cur, pmach, pmp, psch, pwired, ppc, note, nruns, smp,
                   last>>

\* postnote(p): notepending = 1, then under p->rlock and r a sleeper is
\* readied.
Postnote(p) ==
    /\ ~crash /\ p \in Noted /\ Live(p) /\ ~note[p]
    /\ note' = [note EXCEPT ![p] = TRUE]
    /\ IF asleep[p] THEN Wake(p) ELSE UNCHANGED <<asleep, qvars>>
    /\ UNCHANGED <<ms, cur, pmach, pmp, psch, pwired, ppc, cond, nruns,
                   smp, last>>

Mach(m) == Schedinit(m) \/ SchedinitDone(m) \/ Runproc(m) \/ Idle(m)

Up(m) ==
    \/ Yield(m) \/ Preempted(m) \/ Sleep(m) \/ Woke(m) \/ Pexit(m) \/ PexitSched(m)
    \/ Execsched(m) \/ Procwired(m) \/ Newproc(m)

Intr(p) == Wakeup(p) \/ Postnote(p)

\* After a panic the machine stops: no step but this one.
Halted == crash /\ UNCHANGED vars

Next == (\E m \in Machs : Mach(m) \/ Up(m)) \/ (\E p \in Procs : Intr(p)) \/ Halted

Spec == Init /\ [][Next]_vars

(***************************************************************************)
(* Properties.                                                             *)
(***************************************************************************)
MState == {"sw", "sw2", "sched", "idle", "run"}
PState == {"Dead", "Moribund", "Ready", "Running", "Wakeme"}

TypeOK ==
    /\ ms \in [Machs -> MState]
    /\ cur \in [Machs -> Procs \cup {Nil}]
    /\ pst \in [Procs -> PState]
    /\ pmach \in [Procs -> Machs \cup {Nil}]
    /\ pmp \in [Procs -> Machs \cup {Nil}]
    /\ psch \in [Procs -> Scheds \cup {Nil}]
    /\ pwired \in [Procs -> Machs \cup {Nil}]
    /\ pri \in [Procs -> Pri]
    /\ ppc \in [Procs -> {"user", "slept", "exit"}]
    /\ asleep \in [Procs -> BOOLEAN]
    /\ cond \in [Procs -> BOOLEAN]
    /\ note \in [Procs -> BOOLEAN]
    /\ \A s \in Scheds : \A k \in Pri : runq[s][k] \in Seq(Procs)
    /\ nrdy \in [Scheds -> Int]
    /\ runvec \in [Scheds -> SUBSET Pri]
    /\ nruns \in [Scheds -> 0..Nbalance-1]
    /\ smp \in [Scheds -> Machs \cup {Nil}]
    /\ last \in Scheds
    /\ crash \in BOOLEAN

\* The places a process occupies in the run queues.
Slots(p) == UNION {{<<s, k, i>> : i \in {j \in DOMAIN runq[s][k] : runq[s][k][j] = p}}
                   : s \in Scheds, k \in Pri}

(***************************************************************************)
(* The run queue bookkeeping that linkproc, unlinkproc, rebalance and      *)
(* rqrunproc's migration of wired processes maintain: sch->nrdy counts    *)
(* the queued processes and runvec has exactly the non-empty levels, so   *)
(* runproc's idle loop and anyready()/anyhigher() see the queues as they  *)
(* are; a process is queued once, on its own Sched at its priority, iff  *)
(* it is Ready.                                                           *)
(***************************************************************************)
RunqExact ==
    /\ \A s \in Scheds :
          /\ nrdy[s] = MapThenSumSet(LAMBDA k : Len(runq[s][k]), Pri)
          /\ runvec[s] = {k \in Pri : runq[s][k] # <<>>}
    /\ \A p \in Procs :
          /\ Cardinality(Slots(p)) = IF pst[p] = "Ready" THEN 1 ELSE 0
          /\ \A x \in Slots(p) : psch[p] = x[1] /\ pri[p] = x[2]

(***************************************************************************)
(* A process runs on one processor at a time: the process a processor     *)
(* runs has its context on that processor (p->mach), which rqrunproc's    *)
(* p->mach test and schedinit's late "up->mach = nil" are there to keep.  *)
(***************************************************************************)
NoDoubleRun ==
    \A m \in Machs : ms[m] = "run" => pmach[cur[m]] = m /\ pst[cur[m]] = "Running"

\* No panic (linkproc, wakeup: state) and no ready() through a nil p->sch.
NoCrash == ~crash
====
