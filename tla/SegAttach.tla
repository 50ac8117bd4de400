------------------------------ MODULE SegAttach -----------------------------
(***************************************************************************)
(* The segment system calls of port/sysseg.c over the per-process segment  *)
(* tables (Proc.seg[NSEG]): brk and segbrk (ibrk), segattach with its     *)
(* hole search (isoverlap), segdetach with putseg, forkseg's copying or    *)
(* sharing of each segment into a child's table, and the putseg loop of   *)
(* pexit.                                                                  *)
(*                                                                         *)
(* Each call is one step: it runs in its own process on that process's    *)
(* table, and ibrk and forkseg hold the segment's qlock for the update of *)
(* s->top and s->ref.  Pages and Ptes are left out (SegFault models them): *)
(* segmapsize only resizes the map, clearseg empties it.  Addresses are    *)
(* small numbers, PGSZ of them to a page.                                  *)
(***************************************************************************)
EXTENDS Naturals, FiniteSets, FiniteSetsExt, Functions

CONSTANTS
    Procs,       \* process slots
    Segs,        \* Segment headers newseg can return
    NSEG,        \* slots of Proc.seg
    PGSZ,        \* addresses to a page
    UTZERO,      \* lowest user address
    UTOP,        \* first address ISKADDR takes for the kernel's
    SEGMAXSIZE,  \* largest segment size, in addresses
    PSSIZE,      \* pages of the one physseg segattach finds
    BrkAddrs,    \* addresses passed to brk and segbrk
    AttachVas,   \* va passed to segattach (0: find a hole)
    AttachLens,  \* len passed to segattach
    Shares,      \* rfork(RFMEM) or not: forkseg's share
    Nil

SSEG == 0
TSEG == 1
DSEG == 2
ESEG == 3
Slots == 0..(NSEG - 1)

\* The hole search starts at the stack's base minus len, unsigned: no wrap.
ASSUME \A l \in AttachLens : l + PGSZ <= UTOP - PGSZ

Types == {"text", "data", "stack", "shared", "free"}

VARIABLES
    seg,       \* p->seg[i]
    sbase,     \* s->base
    stop,      \* s->top
    ref,       \* s->ref
    src,       \* s->src: the data segment a copy demand-loads from
    stype,     \* s->type & SG_TYPE; "free" is the SG_FREE poison of putseg
    live,      \* the process slot holds a process
    res,       \* the result of a process's last system call
    panicked

vars == <<seg, sbase, stop, ref, src, stype, live, res, panicked>>

\* ROUNDUP(x, PGSZ) and x & ~(PGSZ-1).
RoundUp(x)   == ((x + PGSZ - 1) \div PGSZ) * PGSZ
RoundDown(x) == (x \div PGSZ) * PGSZ

Init ==
    \E p0 \in Procs :
      /\ \E st, tx, da \in Segs :
           /\ Cardinality({st, tx, da}) = 3
           /\ seg = [p \in Procs |-> [i \in Slots |->
                      IF p # p0 THEN Nil
                      ELSE CASE i = SSEG -> st [] i = TSEG -> tx
                             [] i = DSEG -> da [] OTHER -> Nil]]
           /\ stype = [s \in Segs |-> CASE s = st -> "stack" [] s = tx -> "text"
                                         [] s = da -> "data" [] OTHER -> "free"]
           /\ sbase = [s \in Segs |-> CASE s = st -> UTOP - PGSZ
                          [] s = tx -> UTZERO [] s = da -> UTZERO + PGSZ [] OTHER -> 0]
           /\ stop = [s \in Segs |-> IF s \in {st, tx, da} THEN sbase[s] + PGSZ ELSE 0]
           /\ ref = [s \in Segs |-> IF s \in {st, tx, da} THEN 1 ELSE 0]
           /\ src = [s \in Segs |-> Nil]
      /\ live = [p \in Procs |-> p = p0]
      /\ res = [p \in Procs |-> "ok"]
      /\ panicked = FALSE

\* The segments in p's table, and the first slot (lowest index) of a set.
Held(p) == {seg[p][i] : i \in {j \in Slots : seg[p][j] # Nil}}
First(is) == Min(is)

Fail(p, e) == /\ res' = [res EXCEPT ![p] = e]
              /\ UNCHANGED <<seg, sbase, stop, ref, src, stype, live, panicked>>

(* ibrk: grow segment i of p to addr.  Shrinking panics; the new top must *)
(* not lie inside another segment of p's table; the map is resized.       *)
Ibrk(p, addr, i) ==
    LET s == seg[p][i] IN
    IF s = Nil THEN Fail(p, "Ebadarg")
    ELSE IF addr = 0 THEN Fail(p, "ok")
    ELSE IF addr < sbase[s] /\ (i # DSEG \/ seg[p][DSEG] = Nil
                                \/ addr < stop[seg[p][DSEG]])
         THEN Fail(p, "Enovmem")
    ELSE
      LET a      == IF addr < sbase[s] THEN sbase[s] ELSE addr
          newtop == RoundUp(a)
      IN
      IF newtop < stop[s]
      THEN /\ panicked' = TRUE
           /\ UNCHANGED <<seg, sbase, stop, ref, src, stype, live, res>>
      ELSE IF \E ns \in Held(p) \ {s} : newtop >= sbase[ns] /\ newtop < stop[ns]
           THEN Fail(p, "Esoverlap")
      ELSE IF newtop - sbase[s] > SEGMAXSIZE THEN Fail(p, "Enovmem")
      ELSE /\ stop' = [stop EXCEPT ![s] = newtop]
           /\ res' = [res EXCEPT ![p] = "ok"]
           /\ UNCHANGED <<seg, sbase, ref, src, stype, live, panicked>>

\* sysbrk_: ibrk of the data segment.
SysBrk(p, addr) == Ibrk(p, addr, DSEG)

(* syssegbrk: the first segment of p holding saddr is grown, unless it is *)
(* text, data or stack.                                                    *)
SysSegBrk(p, saddr, addr) ==
    LET hit == {i \in Slots : seg[p][i] # Nil /\ sbase[seg[p][i]] <= saddr
                                             /\ saddr < stop[seg[p][i]]}
    IN IF hit = {} THEN Fail(p, "Ebadarg")
       ELSE IF stype[seg[p][First(hit)]] \in {"text", "data", "stack"}
            THEN Fail(p, "Ebadarg")
       ELSE Ibrk(p, addr, First(hit))

\* isoverlap: the first segment of p whose range holds va or va+len.
IsOverlap(p, va, len) ==
    LET newtop == va + len
        hit == {i \in Slots : seg[p][i] # Nil /\
                  LET ns == seg[p][i] IN
                    \/ newtop > sbase[ns] /\ newtop <= stop[ns]
                    \/ va >= sbase[ns] /\ va < stop[ns]}
    IN IF hit = {} THEN Nil ELSE seg[p][First(hit)]

NoFit == -1

(* segattach's hole search: from va down, below each segment in the way, *)
(* until nothing overlaps, or NoFit ("cannot fit segment") once len      *)
(* exceeds the base of the segment in the way.                            *)
RECURSIVE Hole(_, _, _)
Hole(p, va, len) ==
    LET os == IsOverlap(p, va, len) IN
    IF os = Nil THEN va
    ELSE IF len > sbase[os] THEN NoFit
    ELSE Hole(p, sbase[os] - len, len)

(* segattach(p, attr, "shared", va, len): a new SG_SHARED segment from    *)
(* newseg in the first free slot other than ESEG.  No global segments    *)
(* (_globalsegattach is nil) and one physseg.                             *)
SegAttach(p, va, len) ==
    LET free == {i \in Slots : seg[p][i] = Nil /\ i # ESEG}
        l    == RoundUp(len)
        hole == IF va = 0 THEN Hole(p, sbase[seg[p][SSEG]] - l, l) ELSE va
        v    == RoundDown(hole)
    IN
    IF (va # 0 /\ va < UTZERO) \/ va >= UTOP THEN Fail(p, "Ebadarg")
    ELSE IF free = {} THEN Fail(p, "Enoseg")
    ELSE IF l = 0 THEN Fail(p, "Ebadarg")
    ELSE IF hole = NoFit THEN Fail(p, "Enovmem")
    ELSE IF IsOverlap(p, v, l) # Nil THEN Fail(p, "Esoverlap")
    ELSE IF l \div PGSZ > PSSIZE THEN Fail(p, "Ebadarg")
    ELSE IF l > SEGMAXSIZE THEN Fail(p, "Enovmem")
    ELSE \E n \in {s \in Segs : stype[s] = "free"} :
           /\ seg' = [seg EXCEPT ![p][First(free)] = n]
           /\ stype' = [stype EXCEPT ![n] = "shared"]
           /\ sbase' = [sbase EXCEPT ![n] = v]
           /\ stop' = [stop EXCEPT ![n] = v + l]
           /\ ref' = [ref EXCEPT ![n] = 1]
           /\ res' = [res EXCEPT ![p] = "ok"]
           /\ UNCHANGED <<src, live, panicked>>

(* putseg of every segment in a set, each held once: decref, and a       *)
(* segment whose count reaches 0 puts its src in turn (a src has no src), *)
(* clears s->src and goes to the free list (SG_FREE).                     *)
PutSegs(S) ==
    LET gone == {s \in S : ref[s] = 1}
        dec(s) == (IF s \in S THEN 1 ELSE 0) + Cardinality({t \in gone : src[t] = s})
    IN /\ ref' = [s \in Segs |-> ref[s] - dec(s)]
       /\ stype' = [s \in Segs |-> IF dec(s) > 0 /\ ref[s] = dec(s) THEN "free" ELSE stype[s]]
       /\ src' = [s \in Segs |-> IF s \in gone THEN Nil ELSE src[s]]

(* syssegdetach: the first segment of p holding addr (or empty and based *)
(* at addr) leaves p's table and is put; the stack cannot be detached.   *)
SegDetach(p, addr) ==
    LET hit == {i \in Slots : seg[p][i] # Nil /\
                  LET s == seg[p][i] IN
                    \/ sbase[s] <= addr /\ addr < stop[s]
                    \/ stop[s] = sbase[s] /\ addr = sbase[s]}
    IN IF hit = {} THEN Fail(p, "Ebadarg")
       ELSE IF seg[p][First(hit)] = seg[p][SSEG] THEN Fail(p, "Ebadarg")
       ELSE /\ seg' = [seg EXCEPT ![p][First(hit)] = Nil]
            /\ PutSegs({seg[p][First(hit)]})
            /\ res' = [res EXCEPT ![p] = "ok"]
            /\ UNCHANGED <<sbase, stop, live, panicked>>

(* rfork: forkseg of every segment of p into the child q.  Text, shared *)
(* and, with share (RFMEM), data segments are the same Segment with one   *)
(* more reference; a stack, and data without share, is a newseg with the  *)
(* same base and top (ptecpy of its pages left out).  A copied data      *)
(* segment demand-loads from s->src, or from s when s has none, and takes *)
(* a reference to it.  data2txt (a DATA segment in TSEG) cannot happen    *)
(* here: TSEG holds the text segment, and segattach's are SG_SHARED.     *)
Copied(p, share) ==
    {i \in Slots : seg[p][i] # Nil /\
       \/ stype[seg[p][i]] = "stack"
       \/ stype[seg[p][i]] = "data" /\ ~share}

Fork(p, q, share) ==
    /\ ~live[q]
    /\ \E n \in Injection(Copied(p, share), {s \in Segs : stype[s] = "free"}) :
         LET old(s) == \E i \in Slots : seg[p][i] = s /\ i \notin Copied(p, share)
             orig(m) == seg[p][CHOOSE i \in DOMAIN n : n[i] = m]
             new    == {n[i] : i \in DOMAIN n}
             from(m) == IF stype[orig(m)] = "data"
                        THEN IF src[orig(m)] # Nil THEN src[orig(m)] ELSE orig(m)
                        ELSE Nil
             incs(s) == Cardinality({m \in new : from(m) = s})
         IN
         /\ seg' = [seg EXCEPT ![q] = [i \in Slots |->
                                         IF i \in DOMAIN n THEN n[i] ELSE seg[p][i]]]
         /\ ref' = [s \in Segs |-> IF s \in new THEN 1
                                   ELSE ref[s] + (IF old(s) THEN 1 ELSE 0) + incs(s)]
         /\ src' = [s \in Segs |-> IF s \in new THEN from(s) ELSE src[s]]
         /\ stype' = [s \in Segs |-> IF s \in new THEN stype[orig(s)] ELSE stype[s]]
         /\ sbase' = [s \in Segs |-> IF s \in new THEN sbase[orig(s)] ELSE sbase[s]]
         /\ stop' = [s \in Segs |-> IF s \in new THEN stop[orig(s)] ELSE stop[s]]
         /\ live' = [live EXCEPT ![q] = TRUE]
         /\ res' = [res EXCEPT ![p] = "ok", ![q] = "ok"]
         /\ UNCHANGED panicked

\* pexit: putseg of every segment under p->seglock, and the table emptied.
Exit(p) ==
    /\ seg' = [seg EXCEPT ![p] = [i \in Slots |-> Nil]]
    /\ PutSegs(Held(p))
    /\ live' = [live EXCEPT ![p] = FALSE]
    /\ UNCHANGED <<sbase, stop, res, panicked>>

Next ==
    /\ ~panicked
    /\ \E p \in Procs :
         /\ live[p]
         /\ \/ \E a \in BrkAddrs : SysBrk(p, a)
            \/ \E sa, a \in BrkAddrs : SysSegBrk(p, sa, a)
            \/ \E va \in AttachVas, len \in AttachLens : SegAttach(p, va, len)
            \/ \E a \in BrkAddrs : SegDetach(p, a)
            \/ \E q \in Procs, sh \in Shares : Fork(p, q, sh)
            \/ Exit(p)

Spec == Init /\ [][Next]_vars

-----------------------------------------------------------------------------

TypeOK ==
    /\ seg \in [Procs -> [Slots -> Segs \cup {Nil}]]
    /\ sbase \in [Segs -> Nat] /\ stop \in [Segs -> Nat]
    /\ ref \in [Segs -> Nat] /\ stype \in [Segs -> Types]
    /\ src \in [Segs -> Segs \cup {Nil}]
    /\ live \in [Procs -> BOOLEAN] /\ panicked \in BOOLEAN

(* The ranges of the segments in one process's table are disjoint: what   *)
(* segattach's isoverlap test and ibrk's Esoverlap test exist to keep, so *)
(* that seg() and fault find the one segment of an address.              *)
NoOverlap ==
    \A p \in Procs : \A i, j \in Slots :
        (i # j /\ seg[p][i] # Nil /\ seg[p][j] # Nil) =>
            \/ stop[seg[p][i]] <= sbase[seg[p][j]]
            \/ stop[seg[p][j]] <= sbase[seg[p][i]]

(* s->ref counts the table slots that hold s and the live copies whose    *)
(* src is s, and putseg frees s exactly when the last one lets go:        *)
(* forkseg's increfs, segdetach's and pexit's putsegs, and putseg's put  *)
(* of s->src balance across processes.                                    *)
RefExact ==
    \A s \in Segs :
        /\ ref[s] = Cardinality({<<p, i>> \in Procs \X Slots : seg[p][i] = s})
                    + Cardinality({t \in Segs : stype[t] # "free" /\ src[t] = s})
        /\ (stype[s] = "free") <=> (ref[s] = 0)

(* No system call panics the kernel: ibrk's "ibrk doesn't shrink".        *)
NoPanic == ~panicked

====
