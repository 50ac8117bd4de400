------------------------------ MODULE SegFault ------------------------------
(***************************************************************************)
(* Segments, page faults, fork and mass unmap: port/fault.c (fault,        *)
(* fixfault, pagein, pagedin, pgread), port/segment.c (segwalk, ptecpy,    *)
(* forkseg, mfreeseg), port/sysseg.c (syssegfree) and procflushseg of      *)
(* port/proc.c.                                                            *)
(*                                                                         *)
(* Each process runs on its own processor.  Segments are DATA segments:    *)
(* a root segment and copies made by forkseg whose src is the root.  A     *)
(* segment's page map is NPte tables (Pte) of PTEPERTAB slots; a slot      *)
(* holds a page frame or Nil.  Frames come from an abstract allocator (a   *)
(* free set and the per-process selfish pool of putpage); PageAlloc models *)
(* the allocator itself.  A process's MMU is tlb[p]: the frame each        *)
(* address is mapped to.  Locks are the Segment and Page QLocks: holder    *)
(* or Nil.  Page contents are not modelled; n is the paged-in flag.        *)
(***************************************************************************)
EXTENDS Naturals, Sequences, FiniteSets, Functions

CONSTANTS
    Procs,       \* processes (threads sharing a segment are processes)
    Segs,        \* DATA segments
    SegOf,       \* the DATA segment of each process
    Src,         \* the src of each segment (Nil for a root segment)
    NPte,        \* Pte tables in a segment map (mapsize)
    PTEPERTAB,   \* slots per Pte
    FLen,        \* slots below FLen are backed by the file, others zero-fill
    Frames,      \* page frames
    PoolMax,     \* NPROCPOOLSZ
    IOFail,      \* pgread may fail
    FreeReqs,    \* segfree(from, to) requests, in half-page units
    Nil

Addr   == 0..(NPte * PTEPERTAB - 1)
PteOf(a) == a \div PTEPERTAB

\* (top-start)>>pgszlg2 and pages -= PTEPERTAB-j in usize: a negative result
\* wraps to a count larger than any segment.
Wrapped == NPte * PTEPERTAB + 1000

ASSUME /\ SegOf \in [Procs -> Segs] /\ Src \in [Segs -> Segs \cup {Nil}]
       /\ NPte \in Nat \ {0} /\ PTEPERTAB \in Nat \ {0} /\ FLen \in Nat
       /\ PoolMax \in Nat /\ IOFail \in BOOLEAN
       /\ FreeReqs \subseteq (0..2 * NPte * PTEPERTAB) \X (0..2 * NPte * PTEPERTAB)

PCs == {"idle", "pagein", "pagedin", "turnstile", "read", "faulterr",
        "relock", "cow", "cowput", "mmuput", "mmuinstall",
        "forkcopy", "flushwait", "mfree", "mout", "mflushwait", "mput"}

\* The control points at which a process holds its segment's s->lk.
LockedPCs == {"pagein", "cow", "cowput", "forkcopy", "flushwait",
              "mfree", "mout", "mflushwait", "mput"}

Crashes == {"none", "nilderef", "linked", "nofree", "ref"}

VARIABLES
    slot,       \* s->map[i]->pages[j]
    pte,        \* s->map[i] != nil
    slk,        \* s->lk holder
    ref,        \* Page.ref
    n,          \* Page.n, the paged-in flag
    plk,        \* Page QLock holder (held during page-in)
    lnk,        \* Page.next
    free,       \* frames free in the allocator
    pool,       \* up->pgfree, head first
    tlb,        \* the MMU of each process
    mmuflush,   \* m->mmuflush of the processor running each process
    state,      \* "unborn", "new" (its segment made by forkseg), "run"
    crash,      \* a panic or a nil dereference in the kernel
    pc, va, pgv, list, mf, kid

vars == <<slot, pte, slk, ref, n, plk, lnk, free, pool, tlb, mmuflush, state,
          crash, pc, va, pgv, list, mf, kid>>

NoMf == [i |-> 0, j |-> 0, pages |-> 0, lo |-> 0, hi |-> 0]

Init ==
    /\ slot = [s \in Segs |-> [a \in Addr |-> Nil]]
    /\ pte  = [s \in Segs |-> [i \in 0..NPte-1 |-> FALSE]]
    /\ slk  = [s \in Segs |-> Nil]
    /\ ref  = [f \in Frames |-> 0]
    /\ n    = [f \in Frames |-> 0]
    /\ plk  = [f \in Frames |-> Nil]
    /\ lnk  = [f \in Frames |-> Nil]
    /\ free = Frames
    /\ pool = [p \in Procs |-> <<>>]
    /\ tlb  = [p \in Procs |-> [a \in Addr |-> Nil]]
    /\ mmuflush = [p \in Procs |-> FALSE]
    /\ state = [p \in Procs |-> IF Src[SegOf[p]] = Nil THEN "run" ELSE "unborn"]
    /\ crash = "none"
    /\ pc   = [p \in Procs |-> "idle"]
    /\ va   = [p \in Procs |-> 0]
    /\ pgv  = [p \in Procs |-> Nil]
    /\ list = [p \in Procs |-> <<>>]
    /\ mf   = [p \in Procs |-> NoMf]
    /\ kid  = [p \in Procs |-> Nil]

-----------------------------------------------------------------------------
(* newpage and putpage, as seen from a segment.                            *)

\* newpage: the head of the caller's pool if it has one, else any free
\* frame; no frame at all is the "no free pages" panic.
Avail(p) == IF pool[p] # <<>> THEN {Head(pool[p])} ELSE free

\* The allocator after newpage(p) returned f: ref 1, unlinked.
TakeFrame(p, f) ==
    /\ free' = free \ {f}
    /\ pool' = IF pool[p] # <<>> THEN [pool EXCEPT ![p] = Tail(@)] ELSE pool
    /\ lnk'  = [lnk EXCEPT ![f] = Nil]

\* putpage(f) by p: decref; on zero, push on p's pool while it has room,
\* else pgfree, which panics when the page is still linked.
PutPage(p, f) ==
    LET r == ref[f] - 1 IN
    /\ ref' = [ref EXCEPT ![f] = r]
    /\ IF r > 0 THEN UNCHANGED <<free, pool, lnk, n, crash>>
       ELSE IF Len(pool[p]) < PoolMax
       THEN /\ lnk' = [lnk EXCEPT ![f] = IF pool[p] = <<>> THEN Nil ELSE Head(pool[p])]
            /\ pool' = [pool EXCEPT ![p] = <<f>> \o @]
            /\ n' = [n EXCEPT ![f] = 0]
            /\ UNCHANGED <<free, crash>>
       ELSE /\ crash' = IF lnk[f] # Nil THEN "linked" ELSE crash
            /\ free' = free \cup {f}
            /\ n' = [n EXCEPT ![f] = 0]
            /\ UNCHANGED <<pool, lnk>>

\* A kernel panic, or a nil dereference: the machine stops.
Panic(why) == /\ crash' = why
              /\ UNCHANGED <<slot, pte, slk, ref, n, plk, lnk, free, pool, tlb,
                             mmuflush, state, pc, va, pgv, list, mf, kid>>

Seg(p)  == SegOf[p]
Root(s) == IF Src[s] = Nil THEN s ELSE Src[s]

\* s->ref when the processes are in states st: the processes using s, and
\* the copies (made by forkseg) whose src is s.
SegRef(st, s) ==
    Cardinality({q \in Procs : SegOf[q] = s /\ st[q] = "run"})
  + Cardinality({c \in Segs : c # s /\ Src[c] = s
                   /\ \E q \in Procs : SegOf[q] = c /\ st[q] \in {"new", "run"}})

\* procflushseg(s): every process using s gets its flush flag.
FlushSeg(s) == mmuflush' = [q \in Procs |-> mmuflush[q] \/ (SegOf[q] = s /\ state[q] = "run")]

\* procflushseg's wait: the flags of all other processors are clear.
OthersFlushed(p) == \A q \in Procs \ {p} : ~mmuflush[q]

Unlock(p) == slk' = [slk EXCEPT ![Seg(p)] = Nil]

\* Return to user mode; the locals of the call are dead.
Return(p) == /\ pc'   = [pc EXCEPT ![p] = "idle"]
             /\ va'   = [va EXCEPT ![p] = 0]
             /\ pgv'  = [pgv EXCEPT ![p] = Nil]
             /\ list' = [list EXCEPT ![p] = <<>>]
             /\ mf'   = [mf EXCEPT ![p] = NoMf]
             /\ kid'  = [kid EXCEPT ![p] = Nil]

Goto(p, l) == pc' = [pc EXCEPT ![p] = l]

-----------------------------------------------------------------------------
(* fault and fixfault for a DATA segment.                                  *)

\* fault: seg(up, addr, 1) qlocks s->lk; fixfault's segwalk allocates the
\* Pte.  A process faults on an address its MMU does not map.
FaultStart(p, a) ==
    LET s == Seg(p) IN
    /\ pc[p] = "idle" /\ state[p] = "run" /\ tlb[p][a] = Nil
    /\ slk[s] = Nil
    /\ slk' = [slk EXCEPT ![s] = p]
    /\ pte' = [pte EXCEPT ![s][PteOf(a)] = TRUE]
    /\ va'  = [va EXCEPT ![p] = a]
    /\ Goto(p, "pagein")
    /\ UNCHANGED <<slot, ref, n, plk, lnk, free, pool, tlb, mmuflush, state,
                   crash, pgv, list, mf, kid>>

\* pagein with *pg set: unlock the segment, then pagedin(*pg).
PageinHit(p) ==
    /\ pc[p] = "pagein" /\ slot[Seg(p)][va[p]] # Nil
    /\ Unlock(p) /\ Goto(p, "pagedin")
    /\ UNCHANGED <<slot, pte, ref, n, plk, lnk, free, pool, tlb, mmuflush, state,
                   crash, va, pgv, list, mf, kid>>

\* newpage with neither a pooled nor a free page panics: pagein without a
\* page to share, or a copy on reference.
NoPages(p) ==
    LET s == Seg(p)  f == slot[s][va[p]] IN
    /\ \/ pc[p] = "pagein" /\ f = Nil
          /\ ~(va[p] < FLen /\ Src[s] # Nil /\ slot[Src[s]][va[p]] # Nil)
       \/ pc[p] = "cow" /\ f # Nil /\ ref[f] > 1
    /\ Avail(p) = {}
    /\ Panic("nofree")

\* pagein past flen: a zero-filled page, paged in at once.
PageinZfod(p) ==
    LET s == Seg(p) IN
    /\ pc[p] = "pagein" /\ slot[s][va[p]] = Nil /\ va[p] >= FLen
    /\ \E f \in Avail(p) :
         /\ TakeFrame(p, f)
         /\ slot' = [slot EXCEPT ![s][va[p]] = f]
         /\ ref'  = [ref EXCEPT ![f] = 1]
         /\ n'    = [n EXCEPT ![f] = 1]
    /\ Unlock(p) /\ Goto(p, "relock")
    /\ UNCHANGED <<pte, plk, tlb, mmuflush, state, crash, va, pgv, list, mf, kid>>


\* Mutant: a src hit shares the page without incref.
PageinSrcNoIncref(p) ==
    LET s == Seg(p)  r == Src[s]  a == va[p] IN
    /\ pc[p] = "pagein" /\ slot[s][a] = Nil /\ a < FLen /\ r # Nil
    /\ slk[r] = Nil /\ slot[r][a] # Nil
    /\ pte' = [pte EXCEPT ![r][PteOf(a)] = TRUE]
    /\ slot' = [slot EXCEPT ![s][a] = slot[r][a]]
    /\ Unlock(p) /\ Goto(p, "pagedin")
    /\ UNCHANGED <<ref, n, plk, lnk, free, pool, pgv, tlb, mmuflush, state,
                   crash, va, list, mf, kid>>

\* pagein of a file page in a copy: qlock src->lk and look in the src.  On
\* a hit, share the src's page; else read a new page into both slots, the
\* page qlocked for the read.
PageinSrc(p) ==
    LET s == Seg(p)  r == Src[s]  a == va[p] IN
    /\ pc[p] = "pagein" /\ slot[s][a] = Nil /\ a < FLen /\ r # Nil
    /\ slk[r] = Nil
    /\ pte' = [pte EXCEPT ![r][PteOf(a)] = TRUE]
    /\ \/ /\ slot[r][a] # Nil
          /\ slot' = [slot EXCEPT ![s][a] = slot[r][a]]
          /\ ref'  = [ref EXCEPT ![slot[r][a]] = @ + 1]
          /\ Goto(p, "pagedin")
          /\ UNCHANGED <<n, plk, lnk, free, pool, pgv>>
       \/ /\ slot[r][a] = Nil
          /\ \E f \in Avail(p) :
               /\ TakeFrame(p, f)
               /\ slot' = [slot EXCEPT ![s][a] = f, ![r][a] = f]
               /\ ref'  = [ref EXCEPT ![f] = 2]
               /\ n'    = [n EXCEPT ![f] = 0]
               /\ plk'  = [plk EXCEPT ![f] = p]
               /\ pgv'  = [pgv EXCEPT ![p] = f]
          /\ Goto(p, "read")
    /\ Unlock(p)
    /\ UNCHANGED <<tlb, mmuflush, state, crash, va, list, mf, kid>>

\* pagein of a file page in a segment without src: read a new page.
PageinNew(p) ==
    LET s == Seg(p) IN
    /\ pc[p] = "pagein" /\ slot[s][va[p]] = Nil /\ va[p] < FLen /\ Src[s] = Nil
    /\ \E f \in Avail(p) :
         /\ TakeFrame(p, f)
         /\ slot' = [slot EXCEPT ![s][va[p]] = f]
         /\ ref'  = [ref EXCEPT ![f] = 1]
         /\ n'    = [n EXCEPT ![f] = 0]
         /\ plk'  = [plk EXCEPT ![f] = p]
         /\ pgv'  = [pgv EXCEPT ![p] = f]
    /\ Unlock(p) /\ Goto(p, "read")
    /\ UNCHANGED <<pte, tlb, mmuflush, state, crash, va, list, mf, kid>>

\* pgread succeeds: n = 1, then qunlock(new).
Read(p) ==
    /\ pc[p] = "read"
    /\ n'   = [n EXCEPT ![pgv[p]] = 1]
    /\ plk' = [plk EXCEPT ![pgv[p]] = Nil]
    /\ pgv' = [pgv EXCEPT ![p] = Nil]
    /\ Goto(p, "relock")
    /\ UNCHANGED <<slot, pte, slk, ref, lnk, free, pool, tlb, mmuflush, state,
                   crash, va, list, mf, kid>>

\* pgread fails: n = 0, pagein's handler qunlocks the page, and the error
\* unwinds to fixfault.
ReadFail(p) ==
    /\ pc[p] = "read" /\ IOFail
    /\ n'   = [n EXCEPT ![pgv[p]] = 0]
    /\ plk' = [plk EXCEPT ![pgv[p]] = Nil]
    /\ pgv' = [pgv EXCEPT ![p] = Nil]
    /\ Goto(p, "faulterr")
    /\ UNCHANGED <<slot, pte, slk, ref, lnk, free, pool, tlb, mmuflush, state,
                   crash, va, list, mf, kid>>

\* pagedin(*pg), *pg read again after the segment was unlocked.
PagedIn(p) ==
    LET f == slot[Seg(p)][va[p]] IN
    /\ pc[p] = "pagedin"
    /\ IF f = Nil THEN Panic("nilderef")
       ELSE /\ pgv' = [pgv EXCEPT ![p] = f]
            /\ Goto(p, IF n[f] # 0 THEN "relock" ELSE "turnstile")
            /\ UNCHANGED <<slot, pte, slk, ref, n, plk, lnk, free, pool, tlb,
                           mmuflush, state, crash, va, list, mf, kid>>

\* The turnstile: qlock(pg); qunlock(pg); then n == 0 is a fault error.
Turnstile(p) ==
    /\ pc[p] = "turnstile" /\ plk[pgv[p]] = Nil
    /\ pgv' = [pgv EXCEPT ![p] = Nil]
    /\ Goto(p, IF n[pgv[p]] = 0 THEN "faulterr" ELSE "relock")
    /\ UNCHANGED <<slot, pte, slk, ref, n, plk, lnk, free, pool, tlb, mmuflush,
                   state, crash, va, list, mf, kid>>

\* fixfault's waserror handler: qunlock(&s->lk), whoever holds it, and
\* return -1; the process gets the fault note.
FaultErr(p) ==
    /\ pc[p] = "faulterr"
    /\ Unlock(p) /\ Return(p)
    /\ UNCHANGED <<slot, pte, ref, n, plk, lnk, free, pool, tlb, mmuflush,
                   state, crash>>


\* fixfault's qlock(&s->lk) after pagein.
Relock(p) ==
    /\ pc[p] = "relock" /\ slk[Seg(p)] = Nil
    /\ slk' = [slk EXCEPT ![Seg(p)] = p]
    /\ Goto(p, "cow")
    /\ UNCHANGED <<slot, pte, ref, n, plk, lnk, free, pool, tlb, mmuflush, state,
                   crash, va, pgv, list, mf, kid>>

\* Copy on reference: a page with ref > 1 is copied into a new page that
\* replaces it in the slot; the old one is put in CowPut.  A page with ref
\* 1 is the process's own: unlock.
Cow(p) ==
    LET s == Seg(p)  f == slot[s][va[p]] IN
    /\ pc[p] = "cow"
    /\ CASE f = Nil -> Panic("nilderef")
         [] ref[f] <= 0 -> Panic("ref")
         [] ref[f] > 1 ->
              /\ \E g \in Avail(p) :
                   /\ TakeFrame(p, g)
                   /\ slot' = [slot EXCEPT ![s][va[p]] = g]
                   /\ ref'  = [ref EXCEPT ![g] = 1]
                   /\ n'    = [n EXCEPT ![g] = n[f]]
              /\ pgv' = [pgv EXCEPT ![p] = f]
              /\ Goto(p, "cowput")
              /\ UNCHANGED <<pte, slk, plk, tlb, mmuflush, state, crash, va,
                             list, mf, kid>>
         [] OTHER ->
              /\ Unlock(p) /\ Goto(p, "mmuput")
              /\ UNCHANGED <<slot, pte, ref, n, plk, lnk, free, pool, tlb,
                             mmuflush, state, crash, va, pgv, list, mf, kid>>


\* putpage(opg) under the segment lock, then qunlock(&s->lk).
CowPut(p) ==
    /\ pc[p] = "cowput"
    /\ PutPage(p, pgv[p])
    /\ pgv' = [pgv EXCEPT ![p] = Nil]
    /\ Unlock(p) /\ Goto(p, "mmuput")
    /\ UNCHANGED <<slot, pte, plk, tlb, mmuflush, state, va, list, mf, kid>>

\* dommuput: (*pg)->va and mmuput(up, *pg, ...) read the slot after the
\* segment was unlocked.  Every page a slot holds was made for that address
\* (newpage, the copy on write and pagein all give it va), so the
\* "fixfault addr" panic of the va test cannot fire and is left out.
MmuRead(p) ==
    LET f == slot[Seg(p)][va[p]] IN
    /\ pc[p] = "mmuput"
    /\ IF f = Nil THEN Panic("nilderef")
       ELSE /\ pgv' = [pgv EXCEPT ![p] = f]
            /\ Goto(p, "mmuinstall")
            /\ UNCHANGED <<slot, pte, slk, ref, n, plk, lnk, free, pool, tlb,
                           mmuflush, state, crash, va, list, mf, kid>>

\* mmuput installs the PTE at splhi, and the fault returns.
MmuInstall(p) ==
    /\ pc[p] = "mmuinstall"
    /\ tlb' = [tlb EXCEPT ![p][va[p]] = pgv[p]]
    /\ Return(p)
    /\ UNCHANGED <<slot, pte, slk, ref, n, plk, lnk, free, pool, mmuflush, state,
                   crash>>

-----------------------------------------------------------------------------
(* forkseg of a DATA segment with share == 0.                              *)

\* qlock(&s->lk) for a child q whose segment newseg makes with src set to
\* s, or to s->src when s is itself a copy.
ForkLock(p, q) ==
    /\ pc[p] = "idle" /\ state[p] = "run"
    /\ state[q] = "unborn" /\ Src[Seg(q)] = Root(Seg(p))
    /\ slk[Seg(p)] = Nil
    /\ slk' = [slk EXCEPT ![Seg(p)] = p]
    /\ kid' = [kid EXCEPT ![p] = q]
    /\ Goto(p, "forkcopy")
    /\ UNCHANGED <<slot, pte, ref, n, plk, lnk, free, pool, tlb, mmuflush, state,
                   crash, va, pgv, list, mf>>


\* Mutants: ptecpy without incref; ptecpy without mmuflushpg.
ForkCopyNoIncref(p) ==
    LET s == Seg(p)  c == Seg(kid[p])  st == [state EXCEPT ![kid[p]] = "new"] IN
    /\ pc[p] = "forkcopy"
    /\ pte'  = [pte EXCEPT ![c] = pte[s]]
    /\ slot' = [slot EXCEPT ![c] = slot[s]]
    /\ tlb'  = [tlb EXCEPT ![p] = [a \in Addr |->
                  IF slot[s][a] # Nil THEN Nil ELSE tlb[p][a]]]
    /\ IF SegRef(st, s) > 1
       THEN state' = st /\ FlushSeg(s) /\ Goto(p, "flushwait") /\ UNCHANGED <<slk, kid>>
       ELSE /\ state' = [st EXCEPT ![kid[p]] = "run"]
            /\ Unlock(p) /\ Return(p) /\ UNCHANGED mmuflush
    /\ UNCHANGED <<ref, n, plk, lnk, free, pool, crash, va, pgv, list, mf>>

ForkCopyNoFlushPg(p) ==
    LET s == Seg(p)  c == Seg(kid[p])  st == [state EXCEPT ![kid[p]] = "new"] IN
    /\ pc[p] = "forkcopy"
    /\ pte'  = [pte EXCEPT ![c] = pte[s]]
    /\ slot' = [slot EXCEPT ![c] = slot[s]]
    /\ ref'  = [f \in Frames |->
                  ref[f] + Cardinality({a \in Addr : slot[s][a] = f})]
    /\ IF SegRef(st, s) > 1
       THEN state' = st /\ FlushSeg(s) /\ Goto(p, "flushwait") /\ UNCHANGED <<slk, kid>>
       ELSE /\ state' = [st EXCEPT ![kid[p]] = "run"]
            /\ Unlock(p) /\ Return(p) /\ UNCHANGED mmuflush
    /\ UNCHANGED <<tlb, n, plk, lnk, free, pool, crash, va, pgv, list, mf>>

\* ptecpy, shallow, of every Pte: mmuflushpg(pg) on this processor, incref,
\* *dst = pg.  Then procflushseg(s) if s->ref > 1, else unlock and return.
ForkCopy(p) ==
    LET s == Seg(p)  c == Seg(kid[p])
        st == [state EXCEPT ![kid[p]] = "new"]
    IN
    /\ pc[p] = "forkcopy"
    /\ pte'  = [pte EXCEPT ![c] = pte[s]]
    /\ slot' = [slot EXCEPT ![c] = slot[s]]
    /\ ref'  = [f \in Frames |->
                  ref[f] + Cardinality({a \in Addr : slot[s][a] = f})]
    /\ tlb'  = [tlb EXCEPT ![p] = [a \in Addr |->
                  IF slot[s][a] # Nil THEN Nil ELSE tlb[p][a]]]
    /\ IF SegRef(st, s) > 1
       THEN /\ state' = st
            /\ FlushSeg(s) /\ Goto(p, "flushwait")
            /\ UNCHANGED <<slk, kid>>
       ELSE /\ state' = [st EXCEPT ![kid[p]] = "run"]
            /\ Unlock(p) /\ Return(p)
            /\ UNCHANGED mmuflush
    /\ UNCHANGED <<n, plk, lnk, free, pool, crash, va, pgv, list, mf>>

\* procflushseg's wait, then qunlock and p->seg[segno] = n: the child runs.
ForkFlushed(p) ==
    /\ pc[p] = "flushwait" /\ OthersFlushed(p)
    /\ state' = [state EXCEPT ![kid[p]] = "run"]
    /\ Unlock(p) /\ Return(p)
    /\ UNCHANGED <<slot, pte, ref, n, plk, lnk, free, pool, tlb, mmuflush, crash>>

-----------------------------------------------------------------------------
(* syssegfree and mfreeseg.  Addresses of a request are in half pages, so  *)
(* that unaligned starts and ends occur.                                   *)

\* pages -= k in usize.
USub(x, k) == IF x >= k THEN x - k ELSE Wrapped

\* syssegfree: seg() qlocks s->lk (to <= s->top holds for every request);
\* mfreeseg rounds start up to a page, pages = (top-start)>>pgszlg2.
SegFree(p, from, to) ==
    LET start == (from + 1) \div 2 IN
    /\ pc[p] = "idle" /\ state[p] = "run"
    /\ slk[Seg(p)] = Nil
    /\ slk' = [slk EXCEPT ![Seg(p)] = p]
    /\ mf'  = [mf EXCEPT ![p] =
                 [i |-> start \div PTEPERTAB, j |-> start % PTEPERTAB,
                  pages |-> IF to >= 2 * start THEN (to - 2 * start) \div 2
                            ELSE Wrapped,
                  lo |-> start, hi |-> to \div 2]]
    /\ Goto(p, "mfree")
    /\ UNCHANGED <<slot, pte, ref, n, plk, lnk, free, pool, tlb, mmuflush, state,
                   crash, va, pgv, list, kid>>

\* The loop's exit: i reached mapsize, or pages is 0 at the top of the loop.
MfreeEnd(p) ==
    /\ pc[p] = "mfree" /\ (mf[p].i >= NPte \/ mf[p].pages = 0)
    /\ Goto(p, "mout")
    /\ UNCHANGED <<slot, pte, slk, ref, n, plk, lnk, free, pool, tlb, mmuflush,
                   state, crash, va, pgv, list, mf, kid>>

\* A missing Pte: pages -= PTEPERTAB-j; j = 0.
MfreeSkip(p) ==
    LET m == mf[p] IN
    /\ pc[p] = "mfree" /\ m.i < NPte /\ m.pages # 0 /\ ~pte[Seg(p)][m.i]
    /\ mf' = [mf EXCEPT ![p] = [m EXCEPT !.pages = USub(m.pages, PTEPERTAB - m.j),
                                         !.j = 0, !.i = m.i + 1]]
    /\ UNCHANGED <<slot, pte, slk, ref, n, plk, lnk, free, pool, tlb, mmuflush,
                   state, crash, pc, va, pgv, list, kid>>


\* One slot: a page being paged in is waited for (qlock; qunlock); a page
\* is linked through pg->next onto the list and its slot cleared; then
\* --pages == 0 leaves the loop.
MfreeSlot(p) ==
    LET m == mf[p]  s == Seg(p)  a == m.i * PTEPERTAB + m.j  pg == slot[s][a] IN
    /\ pc[p] = "mfree" /\ m.i < NPte /\ m.pages # 0 /\ pte[s][m.i]
    /\ (pg # Nil /\ n[pg] = 0) => plk[pg] = Nil
    /\ IF pg # Nil
       THEN /\ lnk'  = [lnk EXCEPT ![pg] = IF list[p] = <<>> THEN Nil ELSE Head(list[p])]
            /\ list' = [list EXCEPT ![p] = <<pg>> \o @]
            /\ slot' = [slot EXCEPT ![s][a] = Nil]
       ELSE UNCHANGED <<lnk, list, slot>>
    /\ mf' = [mf EXCEPT ![p] =
                [m EXCEPT !.pages = m.pages - 1,
                          !.j = IF m.j + 1 < PTEPERTAB THEN m.j + 1 ELSE 0,
                          !.i = IF m.j + 1 < PTEPERTAB THEN m.i ELSE m.i + 1]]
    /\ Goto(p, IF m.pages - 1 = 0 THEN "mout" ELSE "mfree")
    /\ UNCHANGED <<pte, slk, ref, n, plk, free, pool, tlb, mmuflush, state,
                   crash, va, pgv, kid>>

\* out: procflushseg(s) when s->ref > 1.
MfreeOut(p) ==
    /\ pc[p] = "mout"
    /\ IF SegRef(state, Seg(p)) > 1
       THEN FlushSeg(Seg(p)) /\ Goto(p, "mflushwait")
       ELSE UNCHANGED mmuflush /\ Goto(p, "mput")
    /\ UNCHANGED <<slot, pte, slk, ref, n, plk, lnk, free, pool, tlb, state,
                   crash, va, pgv, list, mf, kid>>

\* procflushseg's wait.
MfreeFlushed(p) ==
    /\ pc[p] = "mflushwait" /\ OthersFlushed(p)
    /\ Goto(p, "mput")
    /\ UNCHANGED <<slot, pte, slk, ref, n, plk, lnk, free, pool, tlb, mmuflush,
                   state, crash, va, pgv, list, mf, kid>>

\* list = list->next; putpage(pg).
MfreePut(p) ==
    /\ pc[p] = "mput" /\ list[p] # <<>>
    /\ PutPage(p, Head(list[p]))
    /\ list' = [list EXCEPT ![p] = Tail(@)]
    /\ UNCHANGED <<slot, pte, slk, plk, tlb, mmuflush, state, pc, va, pgv, mf, kid>>

\* syssegfree after mfreeseg: qunlock(&s->lk); mmuflush() flushes this
\* processor's MMU.
SegFreeDone(p) ==
    /\ pc[p] = "mput" /\ list[p] = <<>>
    /\ Unlock(p)
    /\ tlb' = [tlb EXCEPT ![p] = [a \in Addr |-> Nil]]
    /\ Return(p)
    /\ UNCHANGED <<slot, pte, ref, n, plk, lnk, free, pool, mmuflush, state, crash>>

-----------------------------------------------------------------------------
\* The clock interrupt of a processor whose mmuflush flag is set clears the
\* flag and flushes its MMU (architecture code; the flag is set by
\* procflushseg).
Tick(p) ==
    /\ mmuflush[p]
    /\ mmuflush' = [mmuflush EXCEPT ![p] = FALSE]
    /\ tlb' = [tlb EXCEPT ![p] = [a \in Addr |-> Nil]]
    /\ UNCHANGED <<slot, pte, slk, ref, n, plk, lnk, free, pool, state, crash,
                   pc, va, pgv, list, mf, kid>>

\* A panic stops the machine.
Halted == crash # "none" /\ UNCHANGED vars

\* No step follows a panic but Halted.
Live == crash = "none"

Next ==
    \/ Halted
    \/ \E p \in Procs :
          \/ Live /\ \E a \in Addr : FaultStart(p, a)
          \/ Live /\ PageinHit(p)
          \/ Live /\ PageinZfod(p)
          \/ Live /\ PageinSrc(p)
          \/ Live /\ PageinNew(p)
          \/ Live /\ NoPages(p)
          \/ Live /\ Read(p)
          \/ Live /\ ReadFail(p)
          \/ Live /\ PagedIn(p)
          \/ Live /\ Turnstile(p)
          \/ Live /\ FaultErr(p)
          \/ Live /\ Relock(p)
          \/ Live /\ Cow(p)
          \/ Live /\ CowPut(p)
          \/ Live /\ MmuRead(p)
          \/ Live /\ MmuInstall(p)
          \/ Live /\ \E q \in Procs : ForkLock(p, q)
          \/ Live /\ ForkCopy(p)
          \/ Live /\ ForkFlushed(p)
          \/ Live /\ \E r \in FreeReqs : SegFree(p, r[1], r[2])
          \/ Live /\ MfreeEnd(p)
          \/ Live /\ MfreeSkip(p)
          \/ Live /\ MfreeSlot(p)
          \/ Live /\ MfreeOut(p)
          \/ Live /\ MfreeFlushed(p)
          \/ Live /\ MfreePut(p)
          \/ Live /\ SegFreeDone(p)
          \/ Live /\ Tick(p)

Spec == Init /\ [][Next]_vars

-----------------------------------------------------------------------------
(* Properties.                                                             *)

Pooled == UNION {{pool[p][k] : k \in 1..Len(pool[p])} : p \in Procs}

TypeOK ==
    /\ slot \in [Segs -> [Addr -> Frames \cup {Nil}]]
    /\ pte \in [Segs -> [0..NPte-1 -> BOOLEAN]]
    /\ slk \in [Segs -> Procs \cup {Nil}]
    /\ ref \in [Frames -> Nat]
    /\ n \in [Frames -> {0, 1}]
    /\ plk \in [Frames -> Procs \cup {Nil}]
    /\ lnk \in [Frames -> Frames \cup {Nil}]
    /\ free \subseteq Frames
    /\ pool \in [Procs -> Seq(Frames)]
    /\ \A p \in Procs : Len(pool[p]) <= PoolMax
    /\ tlb \in [Procs -> [Addr -> Frames \cup {Nil}]]
    /\ mmuflush \in [Procs -> BOOLEAN]
    /\ state \in [Procs -> {"unborn", "new", "run"}]
    /\ crash \in Crashes
    /\ pc \in [Procs -> PCs]
    /\ pgv \in [Procs -> Frames \cup {Nil}]
    /\ list \in [Procs -> Seq(Frames)]
    /\ kid \in [Procs -> Procs \cup {Nil}]

\* A process at a point of fixfault, forkseg or syssegfree that runs under
\* its segment's qlock really holds it: no error path released it and no
\* one else acquired it meanwhile.
SegLockHeld ==
    \A p \in Procs : pc[p] \in LockedPCs => slk[Seg(p)] = p

\* The holders of a frame: segment slots, a page that fixfault's copy on
\* reference is about to put, and mfreeseg lists.
Holders(f) ==
    Cardinality({sa \in Segs \X Addr : slot[sa[1]][sa[2]] = f})
  + Cardinality({p \in Procs : pc[p] = "cowput" /\ pgv[p] = f})
  + Cardinality({pk \in Procs \X (1..NPte * PTEPERTAB) :
                   pk[2] <= Len(list[pk[1]]) /\ list[pk[1]][pk[2]] = f})

\* Page.ref, maintained by newpage, incref in pagein and ptecpy, and
\* putpage in fixfault and mfreeseg, counts exactly the holders of the
\* page; a page is in the allocator or in one selfish pool exactly when it
\* has none.
PageOwnership ==
    \A f \in Frames :
       /\ ref[f] = Holders(f)
       /\ (ref[f] = 0) = (f \in free \/ f \in Pooled)
       /\ ~(f \in free /\ f \in Pooled)
       /\ \A p, q \in Procs : (\E i \in 1..Len(pool[p]), k \in 1..Len(pool[q]) :
                                 pool[p][i] = f /\ pool[q][k] = f) => (p = q)

\* Segments a running process can see.
Visible(s) == \E q \in Procs : SegOf[q] = s /\ state[q] = "run"

\* A page a process can reach from user mode, through its MMU, is
\* allocated and is only in the slot of that address of its own segment:
\* copy on reference and mfreeseg's clear, flush, put order leave no
\* writable mapping of a shared or freed page.
UserMapsPrivate ==
    \A p \in Procs, a \in Addr :
       (state[p] = "run" /\ pc[p] = "idle" /\ tlb[p][a] # Nil) =>
          /\ ref[tlb[p][a]] > 0
          /\ \A s \in Segs, b \in Addr :
                (Visible(s) /\ slot[s][b] = tlb[p][a]) => (s = Seg(p) /\ b = a)

\* The kernel neither panics, except for the "no free pages" panic newpage
\* documents when memory is exhausted, nor dereferences a nil slot.
NoCrash == crash \in {"none", "nofree"}

\* mfreeseg clears only slots of whole pages inside [from, to) of the
\* segfree that called it.
MfreeInRange ==
    [][\A s \in Segs, a \in Addr :
         (slot[s][a] # Nil /\ slot'[s][a] = Nil) =>
            \E p \in Procs : Seg(p) = s /\ pc[p] = "mfree"
                             /\ mf[p].lo <= a /\ a < mf[p].hi]_vars

==============================================================================
