------------------------------ MODULE SegCache ------------------------------
(***************************************************************************)
(* The text segment cache of port/segment.c: attachseg finds the cached    *)
(* segment of an executable file or builds one with newseg, segreclaim    *)
(* evicts one the second-chance LRU (segvictim) finds unused, and putseg   *)
(* returns a segment whose last reference is dropped to the segalloc free  *)
(* list, from which newseg reuses it.  Processes exec files (attachseg)    *)
(* and exit (putseg of their text segment, proc.c).                        *)
(*                                                                         *)
(* Pages are left out: clearseg only empties the map.  Every file hashes   *)
(* to a bucket of its own, so a hash chain holds the segments of one file *)
(* and s->hash is nil for a chain of one.                                  *)
(***************************************************************************)
EXTENDS Naturals, Sequences, FiniteSets, SequencesExt

CONSTANTS
    Procs,       \* processes that exec and exit
    Files,       \* executable files (their Chans)
    Segs,        \* Segment headers smalloc can return
    SCACHESIZE,  \* cached segments before attachseg reclaims
    MaxOps,      \* bound: execs started, all together
    Nil

VARIABLES
    hash,       \* segments on the segcache hash chains
    lru,        \* the segcache LRU queue, head first
    nseg,       \* segcache.nseg
    reclaimlk,  \* holder of segcache.reclaimlk
    sfile,      \* s->c
    ref,        \* s->ref
    used,       \* s->used, the second chance
    stype,      \* "text" or "free" (SG_FREE, the poison putseg sets)
    segs,       \* segalloc.segs: every header smalloc returned
    sfree,      \* segalloc.free, head first
    nused,      \* segalloc.nused
    nfree,      \* segalloc.nfree
    pc,         \* where each process is
    file,       \* the file a process execs
    ns,         \* attachseg's ns
    sv,         \* the segment attachseg found, or segreclaim's victim
    txt,        \* the text segment a process runs, holding a reference
    ops, crash

segV  == <<sfile, ref, used, stype>>
allocV == <<segs, sfree, nused, nfree>>
procV == <<pc, file, ns, sv, txt>>
vars == <<hash, lru, nseg, reclaimlk, segV, allocV, procV, ops, crash>>

Init ==
    /\ hash = {} /\ lru = <<>> /\ nseg = 0 /\ reclaimlk = Nil
    /\ sfile = [s \in Segs |-> Nil] /\ ref = [s \in Segs |-> 0]
    /\ used = [s \in Segs |-> FALSE] /\ stype = [s \in Segs |-> "free"]
    /\ segs = {} /\ sfree = <<>> /\ nused = 0 /\ nfree = 0
    /\ pc = [p \in Procs |-> "idle"] /\ file = [p \in Procs |-> Nil]
    /\ ns = [p \in Procs |-> Nil] /\ sv = [p \in Procs |-> Nil]
    /\ txt = [p \in Procs |-> Nil]
    /\ ops = 0 /\ crash = "none"

Live == crash = "none"

Panic(why) == crash' = why /\ UNCHANGED <<hash, lru, nseg, reclaimlk, segV, allocV, procV, ops>>

-----------------------------------------------------------------------------
(* segvictim: starting at the head, a used segment loses its second       *)
(* chance and goes to the tail; an unused one with ref 1 (only the cache   *)
(* holds it) is unlinked and returned; the loop stops the second time the *)
(* first segment comes back to the head.  The result is the victim (or     *)
(* Nil), the queue and the used flags it leaves.                           *)
RECURSIVE Scan(_, _, _, _)
Scan(q, u, s0, loops) ==
    LET s == Head(q) IN
    IF ~u[s] /\ ref[s] = 1
    THEN [v |-> s, q |-> Tail(q), u |-> u]
    ELSE LET nq == Append(Tail(q), s)
             nu == [u EXCEPT ![s] = FALSE]
         IN IF Head(nq) # s0 THEN Scan(nq, nu, s0, loops)
            ELSE IF loops = 0 THEN Scan(nq, nu, s0, 1)
            ELSE [v |-> Nil, q |-> nq, u |-> nu]

segvictim(q, u) ==
    IF q = <<>> THEN [v |-> Nil, q |-> q, u |-> u] ELSE Scan(q, u, Head(q), 0)

\* unlinkseg then linkseg: move s to the tail of the LRU queue.
usedseg(s) == Append(SelectSeq(lru, LAMBDA x : x # s), s)

\* putseg's "linked" test sees s->lnext, s->lprev, s->hash and s->fnext,
\* which are nil for the last or only element of a list.  s->hash is
\* always nil here: a chain holds the segments of one file, and Again
\* hashes a segment only when none of that file is hashed, so a chain
\* never holds two.
Linked(s) ==
    \/ s \in ToSet(lru) /\ Len(lru) > 1
    \/ s \in ToSet(sfree) /\ s # Last(sfree)

\* putseg: decref; the last reference panics if s is still linked, else
\* clearseg and push s on segalloc.free with the SG_FREE poison.
PutSeg(s) ==
    LET r == ref[s] - 1 IN
    IF r > 0
    THEN /\ ref' = [ref EXCEPT ![s] = r]
         /\ UNCHANGED <<sfile, used, stype, allocV, crash>>
    ELSE IF Linked(s) THEN /\ crash' = "putseg: linked"
                           /\ ref' = [ref EXCEPT ![s] = r]
                           /\ UNCHANGED <<sfile, used, stype, allocV>>
    ELSE /\ ref'   = [ref EXCEPT ![s] = r]
         /\ sfile' = [sfile EXCEPT ![s] = Nil]
         /\ used'  = [used EXCEPT ![s] = FALSE]
         /\ stype' = [stype EXCEPT ![s] = "free"]
         /\ sfree' = <<s>> \o sfree
         /\ nfree' = nfree + 1 /\ nused' = nused - 1
         /\ UNCHANGED <<segs, crash>>

-----------------------------------------------------------------------------
(* A process.                                                              *)

\* sysexec of a file: attachseg begins.
Exec(p, f) ==
    /\ Live /\ pc[p] = "idle" /\ txt[p] = Nil /\ ops < MaxOps
    /\ pc' = [pc EXCEPT ![p] = "reclaim"]
    /\ file' = [file EXCEPT ![p] = f]
    /\ ops' = ops + 1
    /\ UNCHANGED <<hash, lru, nseg, reclaimlk, segV, allocV, ns, sv, txt, crash>>

\* while(segcache.nseg >= SCACHESIZE) if(segreclaim() < 0) break;
\* segreclaim's canqlock of reclaimlk failing is a -1.
Reclaim(p) ==
    /\ Live /\ pc[p] = "reclaim"
    /\ IF nseg >= SCACHESIZE /\ reclaimlk = Nil
       THEN reclaimlk' = p /\ pc' = [pc EXCEPT ![p] = "victim"]
       ELSE UNCHANGED reclaimlk /\ pc' = [pc EXCEPT ![p] = "again"]
    /\ UNCHANGED <<hash, lru, nseg, segV, allocV, file, ns, sv, txt, ops, crash>>

\* segreclaim under lock(&segcache): segvictim, then take the victim off
\* its hash chain; none found is a -1.
Victim(p) ==
    /\ Live /\ pc[p] = "victim"
    /\ LET r == segvictim(lru, used) IN
       IF r.v = Nil
       THEN /\ lru' = r.q /\ used' = r.u
            /\ reclaimlk' = Nil
            /\ pc' = [pc EXCEPT ![p] = "again"]
            /\ UNCHANGED <<hash, nseg, sv, crash>>
       ELSE IF r.v \notin hash THEN Panic("segreclaim: not found")
       ELSE /\ lru' = r.q /\ used' = r.u
            /\ hash' = hash \ {r.v}
            /\ nseg' = nseg - 1
            /\ sv' = [sv EXCEPT ![p] = r.v]
            /\ pc' = [pc EXCEPT ![p] = "putvictim"]
            /\ UNCHANGED <<reclaimlk, crash>>
    /\ UNCHANGED <<sfile, ref, stype, allocV, file, ns, txt, ops>>

\* segreclaim, unlocked: the victim must still have ref 1; putseg it and
\* qunlock reclaimlk.  attachseg's loop tries again.
PutVictim(p) ==
    /\ Live /\ pc[p] = "putvictim"
    /\ IF ref[sv[p]] # 1 THEN Panic("segreclaim: ref")
       ELSE /\ PutSeg(sv[p])
            /\ reclaimlk' = Nil
            /\ sv' = [sv EXCEPT ![p] = Nil]
            /\ pc' = [pc EXCEPT ![p] = "reclaim"]
            /\ UNCHANGED <<hash, lru, nseg, file, ns, txt, ops>>

\* attachseg's Again, under lock(&segcache): a cached segment of the file
\* goes to the LRU tail and is taken after the unlock; without one, newseg
\* is called unlocked the first time, and the second time ns is linked on
\* the LRU queue and the hash chain with a reference for the caller;
\* linkseg panics on a segment whose lnext or lprev is set.
Again(p) ==
    /\ Live /\ pc[p] = "again"
    /\ LET hit == {s \in hash : sfile[s] = file[p]} IN
       IF hit # {}
       THEN LET s == CHOOSE s \in hit : TRUE IN
            /\ lru' = usedseg(s)
            /\ sv' = [sv EXCEPT ![p] = s]
            /\ pc' = [pc EXCEPT ![p] = "found"]
            /\ UNCHANGED <<hash, nseg, reclaimlk, segV, allocV, file, ns, txt, ops, crash>>
       ELSE IF ns[p] = Nil
       THEN /\ pc' = [pc EXCEPT ![p] = "newseg"]
            /\ UNCHANGED <<hash, lru, nseg, reclaimlk, segV, allocV, file, ns, sv, txt, ops, crash>>
       ELSE IF ns[p] \in ToSet(lru) /\ Len(lru) > 1 THEN Panic("linkseg")
       ELSE /\ lru' = Append(lru, ns[p])
            /\ hash' = hash \cup {ns[p]}
            /\ nseg' = nseg + 1
            /\ ref' = [ref EXCEPT ![ns[p]] = @ + 1]
            /\ txt' = [txt EXCEPT ![p] = ns[p]]
            /\ ns' = [ns EXCEPT ![p] = Nil]
            /\ pc' = [pc EXCEPT ![p] = "idle"]
            /\ UNCHANGED <<reclaimlk, sfile, used, stype, allocV, file, sv, ops, crash>>

\* newseg(SG_TEXT|SG_CACHE, ..., nil): a header from segalloc.free, or a
\* new one smalloc'ed and linked on segalloc.segs; ref = 1, used = 0.
\* Then attachseg sets ns->c and goes back to Again.
NewSeg(p) ==
    /\ Live /\ pc[p] = "newseg"
    /\ \/ /\ sfree # <<>>
          /\ LET s == Head(sfree) IN
             /\ sfree' = Tail(sfree) /\ nfree' = nfree - 1
             /\ ns' = [ns EXCEPT ![p] = s]
             /\ UNCHANGED segs
       \/ /\ sfree = <<>> /\ Segs \ segs # {}
          /\ LET s == CHOOSE s \in Segs \ segs : TRUE IN
             /\ segs' = segs \cup {s}
             /\ ns' = [ns EXCEPT ![p] = s]
             /\ UNCHANGED <<sfree, nfree>>
    /\ nused' = nused + 1
    /\ ref'   = [ref EXCEPT ![ns'[p]] = 1]
    /\ used'  = [used EXCEPT ![ns'[p]] = FALSE]
    /\ stype' = [stype EXCEPT ![ns'[p]] = "text"]
    /\ sfile' = [sfile EXCEPT ![ns'[p]] = file[p]]
    /\ pc' = [pc EXCEPT ![p] = "again"]
    /\ UNCHANGED <<hash, lru, nseg, reclaimlk, file, sv, txt, ops, crash>>

\* attachseg after the unlock: putseg(ns) of the copy nobody else saw.
Found(p) ==
    /\ Live /\ pc[p] = "found"
    /\ IF ns[p] # Nil THEN PutSeg(ns[p]) ELSE UNCHANGED <<segV, allocV, crash>>
    /\ ns' = [ns EXCEPT ![p] = Nil]
    /\ pc' = [pc EXCEPT ![p] = "incref"]
    /\ UNCHANGED <<hash, lru, nseg, reclaimlk, file, sv, txt, ops>>

\* incref(s); s->used = 1; return s.
Incref(p) ==
    /\ Live /\ pc[p] = "incref"
    /\ ref'  = [ref EXCEPT ![sv[p]] = @ + 1]
    /\ used' = [used EXCEPT ![sv[p]] = TRUE]
    /\ txt'  = [txt EXCEPT ![p] = sv[p]]
    /\ sv'   = [sv EXCEPT ![p] = Nil]
    /\ pc'   = [pc EXCEPT ![p] = "idle"]
    /\ UNCHANGED <<hash, lru, nseg, reclaimlk, sfile, stype, allocV, file, ns, ops, crash>>

\* The process exits: putseg of its text segment.
Exit(p) ==
    /\ Live /\ pc[p] = "idle" /\ txt[p] # Nil
    /\ PutSeg(txt[p])
    /\ txt' = [txt EXCEPT ![p] = Nil]
    /\ UNCHANGED <<hash, lru, nseg, reclaimlk, pc, file, ns, sv, ops>>

\* forkseg of a text segment (sameseg): the child q shares it, incref(s).
Fork(p, q) ==
    /\ Live /\ p # q /\ pc[p] = "idle" /\ txt[p] # Nil
    /\ pc[q] = "idle" /\ txt[q] = Nil /\ ops < MaxOps
    /\ ref' = [ref EXCEPT ![txt[p]] = @ + 1]
    /\ txt' = [txt EXCEPT ![q] = txt[p]]
    /\ ops' = ops + 1
    /\ UNCHANGED <<hash, lru, nseg, reclaimlk, sfile, used, stype, allocV,
                   pc, file, ns, sv, crash>>

\* Every exec was made and every process has exited, or a panic.
Done == /\ \/ ~Live
           \/ ops = MaxOps /\ \A p \in Procs : pc[p] = "idle" /\ txt[p] = Nil
        /\ UNCHANGED vars

Next ==
    \/ \E p \in Procs :
          \/ \E f \in Files : Exec(p, f)
          \/ \E q \in Procs : Fork(p, q)
          \/ Reclaim(p) \/ Victim(p) \/ PutVictim(p) \/ Again(p)
          \/ NewSeg(p) \/ Found(p) \/ Incref(p) \/ Exit(p)
    \/ Done

Spec == Init /\ [][Next]_vars

-----------------------------------------------------------------------------
(* Properties.                                                             *)

TypeOK ==
    /\ hash \subseteq Segs /\ IsInjective(lru) /\ ToSet(lru) \subseteq Segs
    /\ nseg \in Nat /\ reclaimlk \in Procs \cup {Nil}
    /\ ref \in [Segs -> Int] /\ used \in [Segs -> BOOLEAN]
    /\ stype \in [Segs -> {"text", "free"}]
    /\ segs \subseteq Segs /\ nused \in Int /\ nfree \in Int
    /\ txt \in [Procs -> Segs \cup {Nil}]

\* A process runs only a live text segment: the segment it holds is not on
\* the segalloc free list and not poisoned, so newseg cannot hand it to
\* another exec.  attachseg increfs a segment it found in the cache only
\* after unlock(&segcache), while segreclaim may take it as a victim.
NoUseAfterFree ==
    \A p \in Procs : txt[p] # Nil =>
        stype[txt[p]] = "text" /\ txt[p] \notin ToSet(sfree)

\* s->ref counts exactly the cache (a hashed segment, or the victim a
\* reclaimer holds), the processes running it and an attachseg's ns.
RefExact ==
    \A s \in segs :
        ref[s] = (IF s \in hash THEN 1 ELSE 0)
                 + Cardinality({p \in Procs : txt[p] = s \/ ns[p] = s
                                              \/ (pc[p] = "putvictim" /\ sv[p] = s)})

\* The hash chains, the LRU queue and nseg agree, at most one segment of a
\* file is cached, and segalloc's counts add up to the headers it made.
CacheConsistent ==
    /\ ToSet(lru) = hash /\ nseg = Cardinality(hash)
    /\ \A s, t \in hash : sfile[s] = sfile[t] => s = t
    /\ nused + nfree = Cardinality(segs) /\ nfree = Len(sfree)
    /\ ToSet(sfree) \cap hash = {}

\* No panic: "putseg: linked", "linkseg", "segreclaim: ref" or
\* "segreclaim: not found".
NoPanic == crash = "none"

\* The reference segvictim is checked against: the first segment in LRU
\* order with ref 1 and no second chance left, else the first with ref 1
\* (its second chance was taken on the first pass), else Nil.
VictimRef(q, u) ==
    LET c1 == {i \in 1..Len(q) : ~u[q[i]] /\ ref[q[i]] = 1}
        c2 == {i \in 1..Len(q) : ref[q[i]] = 1}
    IN IF c1 # {} THEN q[Min(c1)] ELSE IF c2 # {} THEN q[Min(c2)] ELSE Nil

\* segvictim picks the reference victim, keeps every other segment queued
\* and leaves no second chance to a segment it passed over twice.
VictimCorrect ==
    LET r == segvictim(lru, used) IN
    /\ r.v = VictimRef(lru, used)
    /\ ToSet(r.q) = ToSet(lru) \ {r.v}
    /\ r.v = Nil => \A s \in ToSet(r.q) : ~r.u[s]
==============================================================================
