------------------------------ MODULE QMalloc ------------------------------
(***************************************************************************)
(* The kernel byte allocator of port/qmalloc.c: quick fit lists for small *)
(* sizes in front of a Kernighan & Ritchie first-fit list per arena        *)
(* segment (MSeg), each with an unallocated tail.  malloc, free and        *)
(* realloc run under mainlock (the quick lists have locks of their own);   *)
(* when every segment is exhausted morecore drops mainlock and asks the    *)
(* page allocator for another segment under mclock.                        *)
(*                                                                         *)
(* Data abstraction: memory is counted in Header units (Unitsz bytes).    *)
(* A block is its header address and the size field there; the user      *)
(* bytes, the end tags and the malloc tags are left out.  A request is    *)
(* given as HOWMANY(nbytes+1, Unitsz), the units its bytes need.          *)
(* Segment 0 is mseg0 [0, Arena0); segment k > 0 is the k-th page that    *)
(* morecore obtains, PgUnits units whose first unit holds the MSeg.       *)
(*                                                                         *)
(* Atomicity: the quick path, free's locked body and realloc's locked      *)
(* test are single steps.  tailalloc's read of tailptr and its increment   *)
(* are separate steps, since nothing but mainlock orders them.            *)
(***************************************************************************)
EXTENDS Integers, Sequences, SequencesExt, FiniteSets, FiniteSetsExt

CONSTANTS
    CPU,        \* processors calling malloc, free and realloc
    Mult,       \* Mult: sizes of Mult units or more round up to a multiple
    NQUICK,     \* NQUICK: the largest size kept on a quick list
    Arena0,     \* units of mseg0, from sys->vmunused to sys->vmend
    PgUnits,    \* mallocpgsz/Unitsz: units of a page morecore obtains
    MaxCore,    \* bound: pages newpg can give to morecore
    Req,        \* request sizes, in units of user bytes (0: nbytes = 0)
    MaxHeld,    \* bound: blocks one CPU holds at once
    Aligns,     \* mallocalign alignments, in units (1: align <= Unitsz)
    Nil

NoMax == -1                      \* maxsz = ~0: no known largest fragment
Segs == 0..MaxCore
SegBase(k) == IF k = 0 THEN 0 ELSE Arena0 + (k - 1) * PgUnits + 1
SegEnd(k) == IF k = 0 THEN Arena0 ELSE Arena0 + k * PgUnits
Addr == 0..SegEnd(MaxCore) - 1

\* NUNITS: one header unit, and sizes of Mult or more rounded up to Mult.
NUNITS(nu) == IF nu < Mult THEN nu + 1
              ELSE ((nu + Mult - 1) \div Mult) * Mult + 1

VARIABLES
    segs,      \* the MSeg list from mseg0, as the sequence of segments
    tail,      \* tail[k]: mseg->tailptr
    frag,      \* frag[k]: the circular free list of k, from mseg->rover on
    maxsz,     \* maxsz[k]: mseg->maxsz
    size,      \* size[a]: the size field of the header at a
    quick,     \* quick[n]: quicklist[n].first, as a sequence
    held,      \* held[c]: the blocks CPU c has allocated and not freed
    mainlock,  \* the CPU holding mainlock, or Nil
    mclock,    \* the CPU holding morecore's mclock, or Nil
    pc,        \* where each CPU is
    rq,        \* rq[c]: nunits of the request in progress
    mc,        \* mc[c]: qmalloc's count of morecore calls
    tp,        \* tp[c]: <<segment, tailptr>> read by tailalloc
    old,       \* old[c]: the block realloc frees after its xmalloc
    crash,     \* the kernel has panicked
    al         \* al[c]: the alignment, in units, of c's last request (1: none)

vars == <<segs, tail, frag, maxsz, size, quick, held, mainlock, mclock, pc,
          rq, mc, tp, old, crash, al>>

PCs == {"idle", "lock", "scan", "tailwr", "core", "corewait", "newpg",
        "relock", "rlock", "free"}

Linked == ToSet(segs)
SegOf(a) == CHOOSE k \in Linked : SegBase(k) <= a /\ a < SegEnd(k)

Init ==
    /\ segs = <<0>>
    /\ tail = [k \in Segs |-> SegBase(k)]
    /\ frag = [k \in Segs |-> <<>>]
    /\ maxsz = [k \in Segs |-> NoMax]
    /\ size = [a \in Addr |-> 0]
    /\ quick = [n \in 1..NQUICK |-> <<>>]
    /\ held = [c \in CPU |-> {}]
    /\ mainlock = Nil /\ mclock = Nil
    /\ pc = [c \in CPU |-> "idle"]
    /\ rq = [c \in CPU |-> 0] /\ mc = [c \in CPU |-> 0]
    /\ tp = [c \in CPU |-> <<0, 0>>] /\ old = [c \in CPU |-> Nil]
    /\ crash = FALSE
    /\ al = [c \in CPU |-> 1]

-----------------------------------------------------------------------------
(* malloc/qmalloc                                                          *)

\* A block p is handed to c: qmalloc returns; realloc then frees the old one.
Got(c, p) ==
    /\ held' = [held EXCEPT ![c] = @ \cup {p}]
    /\ pc' = [pc EXCEPT ![c] = IF old[c] # Nil THEN "free" ELSE "idle"]

\* The quick lists qmalloc looks at for n units, in order: quicklist[n+i]
\* for i < nq while n+i < NQUICK.
QuickOrder(n) ==
    LET nq == IF n > Mult THEN Mult ELSE 1
    IN  SelectSeq([i \in 1..nq |-> n + i - 1], LAMBDA k : k < NQUICK)

\* qmalloc's entry: the first non-empty quick list gives its head; else
\* the request goes to mainlock.
QmallocEntry(c, n) ==
    LET ks == SelectSeq(QuickOrder(n), LAMBDA k : quick[k] # <<>>)
    IN  IF n <= NQUICK /\ ks # <<>>
        THEN LET k == ks[1] IN
             /\ quick' = [quick EXCEPT ![k] = Tail(@)]
             /\ Got(c, Head(quick[k]))
             /\ UNCHANGED <<rq, mc>>
             /\ al' = [al EXCEPT ![c] = 1]
        ELSE /\ pc' = [pc EXCEPT ![c] = "lock"]
             /\ rq' = [rq EXCEPT ![c] = n] /\ mc' = [mc EXCEPT ![c] = 0]
             /\ al' = [al EXCEPT ![c] = 1]
             /\ UNCHANGED <<quick, held>>

\* malloc(size): qmalloc(0) returns nil and setmalloctag(nil) panics.
Malloc(c, nu) ==
    /\ pc[c] = "idle" /\ ~crash
    /\ Cardinality(held[c]) < MaxHeld
    /\ IF nu = 0
       THEN crash' = TRUE /\ UNCHANGED <<quick, held, pc, rq, mc, old, al>>
       ELSE QmallocEntry(c, NUNITS(nu)) /\ UNCHANGED <<old, crash>>
    /\ UNCHANGED <<segs, tail, frag, maxsz, size, mainlock, mclock, tp>>

\* ilock(&mainlock).
Lock(c) ==
    /\ pc[c] = "lock" /\ mainlock = Nil /\ ~crash
    /\ mainlock' = c
    /\ pc' = [pc EXCEPT ![c] = "scan"]
    /\ UNCHANGED <<segs, tail, frag, maxsz, size, quick, held, mclock, rq,
                   mc, tp, old, crash, al>>

\* The list L turned to start at index i (the new rover).
Rot(L, i) == SubSeq(L, i, Len(L)) \o SubSeq(L, 1, i - 1)

\* The rover loop in segment k for n units: it looks at rover->next, ...,
\* rover, takes the first block of n units or more, splits a block with
\* Mult units to spare from its end, and otherwise unlinks it with rover
\* set to its predecessor (nil for the last one).  Returns the new list,
\* sizes, the block given and maxsz[k].
RoverTake(k, n, mx) ==
    LET L == frag[k]
        O == [i \in 1..Len(L) |-> IF i < Len(L) THEN i + 1 ELSE 1]
        j == O[SelectInSeq(O, LAMBDA i : size[L[i]] >= n)]
        p == L[j]
        split == size[p] > n /\ size[p] - n >= Mult
        q == IF split THEN p + size[p] - n ELSE p
        sz == IF split THEN [size EXCEPT ![p] = @ - n, ![q] = n] ELSE size
        l2 == IF split THEN L
              ELSE IF Len(L) = 1 THEN <<>>
              ELSE Rot(RemoveAt(L, j), IF j = 1 THEN Len(L) - 1 ELSE j - 1)
    IN [frag |-> l2, size |-> sz, blk |-> q,
        maxsz |-> IF sz[q] = mx THEN NoMax ELSE mx]

\* qmalloc after ilock(&mainlock) (or, from morecore's contended return,
\* without it): the first segment whose tail has n units is given to
\* tailalloc; else the rover loops run segment by segment, skipping one
\* whose maxsz is known to be smaller, and a segment walked in vain has
\* maxsz set to its largest fragment; else morecore, at most 3 times.
Scan(c) ==
    /\ pc[c] = "scan" /\ al[c] = 1 /\ ~crash
    /\ LET n == rq[c]
           ts == SelectSeq(segs, LAMBDA k : n <= SegEnd(k) - tail[k])
           Walked(k) == frag[k] # <<>> /\ ~(maxsz[k] # NoMax /\ n > maxsz[k])
           Fits(k) == \E b \in ToSet(frag[k]) : size[b] >= n
           hi == SelectInSeq(segs, LAMBDA k : Walked(k) /\ Fits(k))
           Vain(k) == \E i \in 1..Len(segs) :
                          segs[i] = k /\ Walked(k) /\ (hi = 0 \/ i < hi)
           mx == [k \in Segs |-> IF Vain(k)
                                 THEN Max({size[b] : b \in ToSet(frag[k])})
                                 ELSE maxsz[k]]
       IN
       IF ts # <<>>
       THEN /\ tp' = [tp EXCEPT ![c] = <<ts[1], tail[ts[1]]>>]
            /\ pc' = [pc EXCEPT ![c] = "tailwr"]
            /\ UNCHANGED <<frag, maxsz, size, held, mainlock, mc, crash>>
       ELSE IF hi # 0
       THEN LET k == segs[hi]
                r == RoverTake(k, n, mx[k])
            IN /\ frag' = [frag EXCEPT ![k] = r.frag]
               /\ size' = r.size
               /\ maxsz' = [mx EXCEPT ![k] = r.maxsz]
               /\ Got(c, r.blk)
               /\ mainlock' = Nil
               /\ UNCHANGED <<tp, mc, crash>>
       ELSE /\ maxsz' = mx
            /\ mainlock' = Nil
            /\ mc' = [mc EXCEPT ![c] = @ + 1]
            /\ IF mc[c] < 3 /\ n <= PgUnits
               THEN pc' = [pc EXCEPT ![c] = "core"] /\ UNCHANGED crash
               ELSE crash' = TRUE /\ UNCHANGED pc
            /\ UNCHANGED <<frag, size, held, tp>>
    /\ UNCHANGED <<segs, tail, quick, mclock, rq, old, al>>

\* tailalloc's "mseg->tailptr += n", the size field, and iunlock.
TailWrite(c) ==
    /\ pc[c] = "tailwr" /\ ~crash
    /\ LET k == tp[c][1]
           p == tp[c][2]
       IN /\ tail' = [tail EXCEPT ![k] = @ + rq[c]]
          /\ size' = [size EXCEPT ![p] = rq[c]]
          /\ Got(c, p)
    /\ mainlock' = Nil
    /\ UNCHANGED <<segs, frag, maxsz, quick, mclock, rq, mc, tp, old, crash, al>>
-----------------------------------------------------------------------------
(* morecore                                                                *)

\* morecore has dropped mainlock; canlock(&mclock), else sched() and wait.
Core(c) ==
    /\ pc[c] = "core" /\ ~crash
    /\ IF mclock = Nil
       THEN mclock' = c /\ pc' = [pc EXCEPT ![c] = "newpg"]
       ELSE UNCHANGED mclock /\ pc' = [pc EXCEPT ![c] = "corewait"]
    /\ UNCHANGED <<segs, tail, frag, maxsz, size, quick, held, mainlock, rq,
                   mc, tp, old, crash, al>>

\* lock(&mclock); unlock(&mclock); return 0: qmalloc goes back to Again,
\* and mainlock, dropped at morecore's entry, is not taken again.
CoreWait(c) ==
    /\ pc[c] = "corewait" /\ mclock = Nil /\ ~crash
    /\ pc' = [pc EXCEPT ![c] = "scan"]
    /\ UNCHANGED <<segs, tail, frag, maxsz, size, quick, held, mainlock,
                   mclock, rq, mc, tp, old, crash, al>>

\* newpg(mallocpgsz): a page, or nil, after which morecore unlocks mclock
\* and returns -1, and qmalloc iunlocks mainlock and panics.
Newpg(c) ==
    /\ pc[c] = "newpg" /\ ~crash
    /\ \/ /\ Len(segs) <= MaxCore
          /\ pc' = [pc EXCEPT ![c] = "relock"]
          /\ UNCHANGED <<mainlock, mclock, crash>>
       \/ /\ mclock' = Nil /\ mainlock' = Nil /\ crash' = TRUE
          /\ UNCHANGED pc
    /\ UNCHANGED <<segs, tail, frag, maxsz, size, quick, held, rq, mc, tp, old, al>>

\* ilock(&mainlock); mallocinitseg of the page, linked after mseg0;
\* unlock(&mclock); return 0, and qmalloc goes back to Again.
Relock(c) ==
    /\ pc[c] = "relock" /\ mainlock = Nil /\ ~crash
    /\ LET k == Len(segs) IN
       /\ segs' = <<0, k>> \o Tail(segs)
       /\ tail' = [tail EXCEPT ![k] = SegBase(k)]
       /\ frag' = [frag EXCEPT ![k] = <<>>]
       /\ maxsz' = [maxsz EXCEPT ![k] = NoMax]
    /\ mainlock' = c /\ mclock' = Nil
    /\ pc' = [pc EXCEPT ![c] = "scan"]
    /\ UNCHANGED <<size, quick, held, rq, mc, tp, old, crash, al>>

-----------------------------------------------------------------------------
(* free/qfreeinternal and realloc                                          *)

\* The allocator state qfreeinternal and qmallocalign change.
St == [tail |-> tail, quick |-> quick, frag |-> frag, maxsz |-> maxsz,
       size |-> size]
SetSt(s) == /\ tail' = s.tail /\ quick' = s.quick /\ frag' = s.frag
            /\ maxsz' = s.maxsz /\ size' = s.size

\* maxsz after a fragment of m units appears, when a largest one is known.
Grow(mx, k, m) == [mx EXCEPT ![k] = IF @ # NoMax /\ m > @ THEN m ELSE @]

\* qfreeinternal of block a in segment k (mseg), under mainlock: a block
\* ending at the tail moves the tail back; a small one goes on its quick
\* list; else it becomes the rover of an empty list, merges into the
\* rover when it follows it, or is linked after the rover.
QFree(s, k, a) ==
    LET n == s.size[a]
        r == s.frag[k][1]
    IN CASE a + n = s.tail[k] -> [s EXCEPT !.tail[k] = a]
         [] n <= NQUICK -> [s EXCEPT !.quick[n] = <<a>> \o @]
         [] s.frag[k] = <<>> -> [s EXCEPT !.frag[k] = <<a>>]
         [] r + s.size[r] = a ->
              [s EXCEPT !.size[r] = @ + n,
                        !.maxsz = Grow(s.maxsz, k, s.size[r] + n)]
         [] OTHER ->
              [s EXCEPT !.frag[k] = <<r, a>> \o Tail(@),
                        !.maxsz = Grow(s.maxsz, k, n)]

\* free and realloc's xfree: c gives a back, in the segment holding it.
FreeBody(c, a) ==
    /\ held' = [held EXCEPT ![c] = @ \ {a}]
    /\ SetSt(QFree(St, SegOf(a), a))

\* free(ap): ilock(&mainlock), qfreeinternal, iunlock.
Free(c, a) ==
    /\ pc[c] = "idle" /\ mainlock = Nil /\ ~crash
    /\ FreeBody(c, a)
    /\ UNCHANGED <<segs, mainlock, mclock, pc, rq, mc, tp, old, crash, al>>

\* realloc's xfree of the old block once xmalloc has returned.
FreeOld(c) ==
    /\ pc[c] = "free" /\ mainlock = Nil /\ ~crash
    /\ FreeBody(c, old[c])
    /\ old' = [old EXCEPT ![c] = Nil]
    /\ pc' = [pc EXCEPT ![c] = "idle"]
    /\ UNCHANGED <<segs, mainlock, mclock, rq, mc, tp, crash, al>>

\* realloc(ap, size): size 0 frees; a block already large enough is
\* returned as it is (no step); else mainlock is taken to grow it in place.
Realloc(c, a, nu) ==
    /\ pc[c] = "idle" /\ ~crash
    /\ \/ /\ nu = 0 /\ mainlock = Nil
          /\ FreeBody(c, a)
          /\ UNCHANGED <<pc, rq, old>>
       \/ /\ nu # 0 /\ NUNITS(nu) > size[a]
          /\ pc' = [pc EXCEPT ![c] = "rlock"]
          /\ rq' = [rq EXCEPT ![c] = NUNITS(nu)]
          /\ old' = [old EXCEPT ![c] = a]
          /\ UNCHANGED <<tail, frag, maxsz, size, quick, held>>
    /\ UNCHANGED <<segs, mainlock, mclock, mc, tp, crash, al>>

\* Under mainlock: a block that abuts its segment's tail grows in place if
\* the segment has room; else iunlock, xmalloc and, after it, xfree.
RLock(c) ==
    /\ pc[c] = "rlock" /\ mainlock = Nil /\ ~crash
    /\ LET a == old[c]
           k == SegOf(a)
           n == rq[c]
       IN IF a + size[a] = tail[k] /\ a + n <= SegEnd(k)
          THEN /\ size' = [size EXCEPT ![a] = n]
               /\ tail' = [tail EXCEPT ![k] = a + n]
               /\ old' = [old EXCEPT ![c] = Nil]
               /\ pc' = [pc EXCEPT ![c] = "idle"]
               /\ UNCHANGED <<quick, held, rq, mc, al>>
          ELSE QmallocEntry(c, n) /\ UNCHANGED <<size, tail, old>>
    /\ UNCHANGED <<segs, frag, maxsz, mainlock, mclock, tp, crash>>

-----------------------------------------------------------------------------
(* mallocalign/qmallocalign, with offset and span 0                        *)

\* ALIGNHDR(h, a) and ALIGNED(h, a), on unit addresses.
AlignUp(h, A) == ((h + A - 1) \div A) * A
IsAligned(h, A) == h % A = 0

\* mallocalign(nbytes, align): nbytes 0 gives nil and setmalloctag(nil)
\* panics; an alignment of at most Unitsz is xmalloc; a small request
\* takes the first block of quicklist[nunits] whose user pointer is
\* aligned, unlinked from the middle of the list; else mainlock.
MallocAlign(c, nu, A) ==
    /\ pc[c] = "idle" /\ ~crash
    /\ Cardinality(held[c]) < MaxHeld
    /\ LET n == NUNITS(nu)
           Q == quick[n]
           j == SelectInSeq(Q, LAMBDA p : IsAligned(p + 1, A))
       IN CASE nu = 0 ->
                 crash' = TRUE /\ UNCHANGED <<quick, held, pc, rq, mc, al>>
            [] A = 1 -> QmallocEntry(c, n) /\ UNCHANGED crash
            [] n <= NQUICK /\ j # 0 ->
                 /\ quick' = [quick EXCEPT ![n] = RemoveAt(@, j)]
                 /\ Got(c, Q[j])
                 /\ al' = [al EXCEPT ![c] = A]
                 /\ UNCHANGED <<rq, mc, crash>>
            [] OTHER ->
                 /\ pc' = [pc EXCEPT ![c] = "lock"]
                 /\ rq' = [rq EXCEPT ![c] = n] /\ mc' = [mc EXCEPT ![c] = 0]
                 /\ al' = [al EXCEPT ![c] = A]
                 /\ UNCHANGED <<quick, held, crash>>
    /\ UNCHANGED <<segs, tail, frag, maxsz, size, mainlock, mclock, tp, old>>

\* The tail path: tailalloc of the runt before the aligned header, then of
\* the n units, then qfreeinternal of the runt.
TailAlign(s, k, n, A) ==
    LET t == s.tail[k]
        p == AlignUp(t + 1, A) - 1
        s1 == [s EXCEPT !.tail[k] = p + n,
                        !.size = [@ EXCEPT ![t] = p - t, ![p] = n]]
    IN [st |-> IF p = t THEN s1 ELSE QFree(s1, k, t), blk |-> p]

\* The hard way in segment k: the first block of the rover walk that holds
\* n units with an aligned user pointer, or n + A units, leaves the list;
\* a runt in front of the alignment and a residue of more than Mult units
\* behind the n units are freed.
RoverAlign(s, k, n, A) ==
    LET L == s.frag[k]
        O == [i \in 1..Len(L) |-> IF i < Len(L) THEN i + 1 ELSE 1]
        Fit(b) == s.size[b] >= n /\ (IsAligned(b + 1, A) \/ s.size[b] >= n + A)
        j == O[SelectInSeq(O, LAMBDA i : Fit(L[i]))]
        r == L[j]
        s1 == [s EXCEPT !.frag[k] =
                          IF Len(L) = 1 THEN <<>>
                          ELSE Rot(RemoveAt(L, j), IF j = 1 THEN Len(L) - 1 ELSE j - 1),
                        !.maxsz[k] = IF s.size[r] = @ THEN NoMax ELSE @]
        p == AlignUp(r + 1, A) - 1
        s2 == IF p = r THEN s1
              ELSE QFree([s1 EXCEPT !.size[p] = s1.size[r] - (p - r),
                                    !.size[r] = p - r], k, r)
        e == p + n
        s3 == IF s2.size[p] > n /\ s2.size[p] - n > Mult
              THEN [QFree([s2 EXCEPT !.size[e] = s2.size[p] - n], k, e)
                      EXCEPT !.size[p] = n]
              ELSE s2
    IN [st |-> s3, blk |-> p]

\* qmallocalign after ilock(&mainlock): the first segment from mseg0 whose
\* tail holds n units, and n + A when the tail is not aligned; else the
\* rover lists of all segments; else morecore(n + A), at most 3 times.
\* Both tailallocs are one step here.
AlignScan(c) ==
    /\ pc[c] = "scan" /\ al[c] > 1 /\ ~crash
    /\ LET n == rq[c]
           A == al[c]
           Room(k) == SegEnd(k) - tail[k]
           ts == SelectSeq(segs, LAMBDA k :
                   n <= Room(k) /\ (IsAligned(tail[k] + 1, A) \/ Room(k) >= n + A))
           Fit(k) == \E b \in ToSet(frag[k]) :
                       size[b] >= n /\ (IsAligned(b + 1, A) \/ size[b] >= n + A)
           hs == SelectSeq(segs, Fit)
           r == IF ts # <<>> THEN TailAlign(St, ts[1], n, A)
                ELSE RoverAlign(St, hs[1], n, A)
       IN
       IF ts # <<>> \/ hs # <<>>
       THEN SetSt(r.st) /\ Got(c, r.blk) /\ UNCHANGED <<mc, crash>>
       ELSE /\ mc' = [mc EXCEPT ![c] = @ + 1]
            /\ IF mc[c] < 3 /\ n + A <= PgUnits
               THEN pc' = [pc EXCEPT ![c] = "core"] /\ UNCHANGED crash
               ELSE crash' = TRUE /\ UNCHANGED pc
            /\ UNCHANGED <<tail, frag, maxsz, size, quick, held>>
    /\ mainlock' = Nil
    /\ UNCHANGED <<segs, mclock, rq, tp, old, al>>

\* After a panic the machine stops.
Halted == crash /\ UNCHANGED vars

Next ==
    \/ \E c \in CPU :
        \/ \E nu \in Req : Malloc(c, nu) \/ \E A \in Aligns : MallocAlign(c, nu, A)
        \/ \E a \in held[c] : Free(c, a) \/ \E nu \in Req : Realloc(c, a, nu)
        \/ Lock(c) \/ Scan(c) \/ AlignScan(c) \/ TailWrite(c) \/ Core(c) \/ CoreWait(c)
        \/ Newpg(c) \/ Relock(c) \/ RLock(c) \/ FreeOld(c)
    \/ Halted

Spec == Init /\ [][Next]_vars

-----------------------------------------------------------------------------
TypeOK ==
    /\ segs \in Seq(Segs) /\ tail \in [Segs -> Nat]
    /\ frag \in [Segs -> Seq(Addr)] /\ maxsz \in [Segs -> Nat \cup {NoMax}]
    /\ size \in [Addr -> Nat] /\ quick \in [1..NQUICK -> Seq(Addr)]
    /\ held \in [CPU -> SUBSET Addr]
    /\ mainlock \in CPU \cup {Nil} /\ mclock \in CPU \cup {Nil}
    /\ pc \in [CPU -> PCs] /\ rq \in [CPU -> Nat] /\ mc \in [CPU -> Nat]
    /\ old \in [CPU -> Addr \cup {Nil}] /\ crash \in BOOLEAN
    /\ al \in [CPU -> Aligns \cup {1}]

\* The units of the block whose header is at p.
Blk(p) == p..(p + size[p] - 1)

\* The ownership claims on memory: blocks CPUs hold, quick list and
\* fragment list entries, and the tails of the linked segments.
SeqLen(l) == MapThenSumSet(LAMBDA i : size[l[i]], DOMAIN l)
SeqUnits(l) == UNION {Blk(l[i]) : i \in DOMAIN l}
TailUnits(k) == tail[k]..(SegEnd(k) - 1)
ClaimedLen ==
    MapThenSumSet(LAMBDA c : MapThenSumSet(LAMBDA p : size[p], held[c]), CPU)
    + MapThenSumSet(LAMBDA n : SeqLen(quick[n]), 1..NQUICK)
    + MapThenSumSet(LAMBDA k : SeqLen(frag[k]) + Cardinality(TailUnits(k)), Linked)
Claimed ==
    UNION {Blk(p) : p \in UNION {held[c] : c \in CPU}}
    \cup UNION {SeqUnits(quick[n]) : n \in 1..NQUICK}
    \cup UNION {SeqUnits(frag[k]) \cup TailUnits(k) : k \in Linked}

\* No unit of memory has two owners: malloc never hands out memory that is
\* allocated, on a free list or in a segment's tail, across quick fit,
\* splits, tail moves, realloc in place and morecore.  (The claims are
\* disjoint iff their lengths add up to the size of their union.)
NoOverlap == ClaimedLen = Cardinality(Claimed)

\* With no CPU inside the allocator, every unit of every segment has an
\* owner: free, the merge into the rover and realloc lose no memory.
NoLeak ==
    (~crash /\ \A c \in CPU : pc[c] = "idle")
        => Claimed = UNION {SegBase(k)..(SegEnd(k) - 1) : k \in Linked}

\* A known maxsz bounds every fragment of its segment, so qmalloc's
\* "nunits > mseg->maxsz" test skips only segments that cannot serve.
MaxszSound ==
    \A k \in Linked : maxsz[k] # NoMax =>
        \A b \in ToSet(frag[k]) : size[b] <= maxsz[k]

\* A request never goes to mainlock while the quick list of its own size
\* holds a block: what free puts on quicklist[n] serves the next malloc
\* of n units.
QuickReuse ==
    [][\A c \in CPU :
         (pc'[c] = "lock" /\ pc[c] # "lock" /\ rq'[c] <= NQUICK)
            => quick[rq'[c]] = <<>>]_vars
\* mallocalign's check "(uintptr)v & (align-1)" never panics: every block
\* qmallocalign gives for an alignment of A units, from a quick list, the
\* tail or a rover list, has its user pointer on a multiple of A.
AlignedResult ==
    [][\A c \in CPU : \A p \in held'[c] \ held[c] : IsAligned(p + 1, al'[c])]_vars
====
