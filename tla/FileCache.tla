------------------------------ MODULE FileCache ------------------------------
(***************************************************************************)
(* The file cache of port/cache.c for one cacheable file of a mount: its   *)
(* DATA|CACHE segments, the pages of each, the cache-wide byte count and   *)
(* the read-ahead queue with its creadproc workers.  User processes open a *)
(* channel on the file (copen), read it (cread, mcread), write it          *)
(* (cwrite), remove it (cremove) and close the channel.  The file server   *)
(* answers each read and write RPC at a moment of its own choosing.        *)
(*                                                                         *)
(* Offsets and lengths are in units of bytes scaled so that a page is PGSZ *)
(* units; a segment's nbytes and cache.nbytes count pages.  File contents  *)
(* are abstracted to a version number: the server's sver grows by one with *)
(* every write it performs, and a page holds the version it was read at.   *)
(***************************************************************************)
EXTENDS Naturals, Integers, Sequences, FiniteSets, FiniteSetsExt

CONSTANTS
    Procs,       \* user processes, each with one channel on the file
    Workers,     \* the creadproc kernel processes (NRPROCS of them)
    Segs,        \* segments newseg can give the cache for this file
    Frames,      \* physical pages
    PGSZ,        \* CPGSZ, in units
    IOUNIT,      \* the channel's iounit, in units
    FSIZE,       \* the file's length at the server, in units
    NBYTES,      \* copen reclaims while cache.nbytes >= NBYTES (pages)
    MaxOps,      \* bound: operations the processes start, all together
    MaxVer,      \* bound: writes the server performs
    RpcFail,     \* whether a read or write RPC may fail
    ReadReqs,    \* <<offset, length>> of the reads processes issue
    Nil

Actors == Procs \cup Workers
NRPROCS == Cardinality(Workers)
\* NREAD is 2*CPGSZ: a read window of two pages.
NREADPG == 2
\* creadproc exits when idle and more than 2 exist (cache.c:372).
KEEPPROCS == 2
NREAD == NREADPG * PGSZ
\* Page indices a read window can touch: the file and one window past it.
Pages == 0..(FSIZE \div PGSZ + NREADPG - 1)
PageOf(o) == o \div PGSZ

VARIABLES
    sver,      \* the file's version at the server (also its qid.vers)
    hashed,    \* s is in cache.hash
    sref,      \* s->ref
    slot,      \* slot[s][i]: the page at page index i of s
    slk,       \* holder of s->lk
    clength,   \* s->clength, -1 when unknown
    nbytes,    \* s->nbytes
    cvers,     \* s->cqid.vers
    pref,      \* pg->ref
    pn,        \* pg->n: the page has been read
    plk,       \* holder of the page's qlock
    pdata,     \* the file version a page's contents come from
    free,      \* pages on the free lists
    cnbytes,   \* cache.nbytes; a uvlong, so a negative value is a wrapped one
    nseg,      \* cache.nseg
    rq,        \* cache.rhead..rtail: queued read-ahead requests (Frd)
    nprocs,    \* cache.nprocs
    rlk,       \* holder of cache.rlk
    cmc,       \* cmc[p]: c->mc of p's channel
    cref,      \* cref[p]: references to p's channel
    copened,   \* p holds its channel open
    chvers,    \* c->qid.vers of p's channel
    removed,   \* the file has been removed
    pc, rd, m, pgs, pgv, cnt, wr, lastw, ops, crash

segD   == <<hashed, sref, slot, clength, nbytes, cvers>>
segV   == <<segD, slk>>
pageD  == <<pn, plk, pdata>>
pageV  == <<pageD, pref, free>>
cacheV == <<cnbytes, nseg, rq, nprocs, rlk>>
chanV  == <<cmc, cref, copened, chvers, removed>>
pgsV   == <<rd, pgs, pgv, cnt, wr, lastw>>
locV   == <<pgsV, m>>
ctl    == <<ops, crash>>
vars == <<sver, segV, pageV, cacheV, chanV, pc, locV, ctl>>

NoM == [s |-> Nil, c |-> Nil, off |-> 0, wait |-> FALSE, count |-> 0,
        tot |-> 0, eof |-> -1, ret |-> "idle"]

Init ==
    /\ sver = 0
    /\ hashed = [s \in Segs |-> FALSE]
    /\ sref = [s \in Segs |-> 0]
    /\ slot = [s \in Segs |-> [i \in Pages |-> Nil]]
    /\ slk = [s \in Segs |-> Nil]
    /\ clength = [s \in Segs |-> -1]
    /\ nbytes = [s \in Segs |-> 0]
    /\ cvers = [s \in Segs |-> 0]
    /\ pref = [f \in Frames |-> 0]
    /\ pn = [f \in Frames |-> 0]
    /\ plk = [f \in Frames |-> Nil]
    /\ pdata = [f \in Frames |-> 0]
    /\ free = Frames
    /\ cnbytes = 0 /\ nseg = 0 /\ rq = <<>> /\ nprocs = 0 /\ rlk = Nil
    /\ cmc = [p \in Procs |-> Nil]
    /\ cref = [p \in Procs |-> 0]
    /\ copened = [p \in Procs |-> FALSE]
    /\ chvers = [p \in Procs |-> 0]
    /\ removed = FALSE
    /\ pc = [a \in Actors |-> IF a \in Procs THEN "idle" ELSE "dead"]
    /\ rd = [p \in Procs |-> [off |-> 0, len |-> 0, tot |-> 0]]
    /\ m = [a \in Actors |-> NoM]
    /\ pgs = [a \in Actors |-> <<>>]
    /\ pgv = [a \in Actors |-> Nil]
    /\ cnt = [a \in Actors |-> 0]
    /\ wr = [p \in Procs |-> [st |-> "none", ver |-> 0]]
    /\ lastw = [p \in Procs |-> 0]
    /\ ops = 0
    /\ crash = "none"

-----------------------------------------------------------------------------
(* Helpers shared by the operations.                                       *)

\* clen: the part of [off, off+len) before the known end of the file.
clen(s, len, off) ==
    IF clength[s] < 0 THEN len
    ELSE IF off >= clength[s] THEN 0
    ELSE IF off + len > clength[s] THEN clength[s] - off
    ELSE len

\* A uvlong compared with >=: a wrapped (negative) value is huge.
UGe(x, k) == x < 0 \/ x >= k

\* putpage of a set of references, one per page of fs: a page whose last
\* reference goes returns to the free lists.
PutPages(fs) ==
    /\ pref' = [f \in Frames |-> IF f \in fs THEN pref[f] - 1 ELSE pref[f]]
    /\ free' = free \cup {f \in fs : pref[f] = 1}

\* The pages in the slots of s.
SegPages(s) == {slot[s][i] : i \in Pages} \ {Nil}

\* cclear that drops the slots without putpage on their pages.
CClearNoPut(s) ==
    /\ slot' = [slot EXCEPT ![s] = [i \in Pages |-> Nil]]
    /\ clength' = [clength EXCEPT ![s] = -1]
    /\ nbytes' = [nbytes EXCEPT ![s] = 0]
    /\ UNCHANGED <<pref, free>>

\* cclear (clearseg, clength = -1, nbytes = 0) of s, s->lk held.
CClear(s) ==
    /\ slot' = [slot EXCEPT ![s] = [i \in Pages |-> Nil]]
    /\ clength' = [clength EXCEPT ![s] = -1]
    /\ nbytes' = [nbytes EXCEPT ![s] = 0]
    /\ PutPages(SegPages(s))

\* putseg's "linked" test: s->lnext, s->lprev or s->hash is set.  Every
\* hashed segment is also on the cache's LRU list, so s has a neighbour
\* there exactly when another segment is hashed; a chain's s->hash then
\* also needs another.  A lone hashed segment passes the test.
Linked(s) == hashed[s] /\ \E t \in Segs \ {s} : hashed[t]

\* putseg of k references to s: the last one clears the segment, and a
\* segment still linked panics ("putseg: linked").
PutSegN(s, k) ==
    /\ sref' = [sref EXCEPT ![s] = @ - k]
    /\ IF sref[s] = k
         THEN /\ slot' = [slot EXCEPT ![s] = [i \in Pages |-> Nil]]
              /\ PutPages(SegPages(s))
              /\ crash' = IF Linked(s) THEN "linked" ELSE crash
         ELSE UNCHANGED <<slot, pref, free, crash>>

PutSeg(s) == PutSegN(s, 1)

Goto(a, l) == pc' = [pc EXCEPT ![a] = l]
Lock(a, s) == /\ slk[s] = Nil /\ slk' = [slk EXCEPT ![s] = a]
Unlock(s) == slk' = [slk EXCEPT ![s] = Nil]
\* A process's operation ends, successfully or with an error.
Finish(a) == pc' = [pc EXCEPT ![a] = IF a \in Procs THEN "idle" ELSE "wdone"]
Started(p) == /\ pc[p] = "idle" /\ ops < MaxOps /\ ops' = ops + 1

-----------------------------------------------------------------------------
(* copen, creclaim, clookup, ccheckvers and the closing of a channel.      *)

\* The open of p's channel: the Topen reply carries the file's qid.vers.
\* A channel still referenced by a queued or running read-ahead stays
\* allocated, and p opens anew only once it is gone.
OpenStart(p) ==
    /\ Started(p) /\ ~removed /\ cref[p] = 0
    /\ chvers' = [chvers EXCEPT ![p] = sver]
    /\ Goto(p, "open")
    /\ UNCHANGED <<sver, segV, pageV, cacheV, locV, cmc, cref, copened,
                   removed, crash>>

\* segvictim over the file cache's LRU: an unused (ref 1) hashed segment.
Victims == {s \in Segs : hashed[s] /\ sref[s] = 1}

\* copen: while cache.nbytes >= NBYTES, creclaim unhashes the victim,
\* takes its pages off cache.nbytes and putsegs it.
Creclaim(p) ==
    /\ pc[p] = "open" /\ UGe(cnbytes, NBYTES)
    /\ \E s \in Victims :
         /\ hashed' = [hashed EXCEPT ![s] = FALSE]
         /\ nseg' = nseg - 1
         /\ cnbytes' = cnbytes - nbytes[s]
         /\ sref' = [sref EXCEPT ![s] = 0]
         /\ slot' = [slot EXCEPT ![s] = [i \in Pages |-> Nil]]
         /\ PutPages(SegPages(s))
    /\ UNCHANGED <<sver, pageD, chanV, locV, ctl, slk, clength, nbytes, cvers,
                   rq, nprocs, rlk, pc>>

\* clookup(c, 1) once creclaim has nothing (left) to do: share the hashed
\* segment of the file, or make one with the channel's qid.
Clookup(p) ==
    /\ pc[p] = "open" /\ ~(UGe(cnbytes, NBYTES) /\ Victims # {})
    /\ \/ \E s \in Segs :
            /\ hashed[s]
            /\ sref' = [sref EXCEPT ![s] = @ + 1]
            /\ cmc' = [cmc EXCEPT ![p] = s]
            /\ UNCHANGED <<hashed, clength, nbytes, cvers, nseg>>
       \/ /\ \A s \in Segs : ~hashed[s]
          /\ \E s \in Segs :
               /\ sref[s] = 0
               /\ hashed' = [hashed EXCEPT ![s] = TRUE]
               /\ sref' = [sref EXCEPT ![s] = 2]
               /\ clength' = [clength EXCEPT ![s] = -1]
               /\ nbytes' = [nbytes EXCEPT ![s] = 0]
               /\ cvers' = [cvers EXCEPT ![s] = chvers[p]]
               /\ nseg' = nseg + 1
               /\ cmc' = [cmc EXCEPT ![p] = s]
    /\ cref' = [cref EXCEPT ![p] = 1]
    /\ copened' = [copened EXCEPT ![p] = TRUE]
    /\ Goto(p, "checkvers")
    /\ UNCHANGED <<sver, pageV, locV, ctl, slot, slk, cnbytes, rq, nprocs, rlk,
                   chvers, removed>>

\* ccheckvers: a segment cached at another qid.vers is cleared under its
\* lock and takes the channel's version.  cache.nbytes is left alone.
CheckVers(p) ==
    LET s == cmc[p] IN
    /\ pc[p] = "checkvers"
    /\ IF chvers[p] # cvers[s]
         THEN /\ slk[s] = Nil
              /\ CClear(s)
              /\ cvers' = [cvers EXCEPT ![s] = chvers[p]]
         ELSE UNCHANGED <<slot, clength, nbytes, cvers, pref, free>>
    /\ Goto(p, "idle")
    /\ UNCHANGED <<sver, pageD, cacheV, chanV, locV, ctl, hashed, sref, slk>>

\* cclose of one reference to p's channel: the last one frees the channel,
\* whose chanfree putsegs c->mc.
ChanPut(p) ==
    /\ cref' = [cref EXCEPT ![p] = @ - 1]
    /\ IF cref[p] = 1
         THEN /\ PutSeg(cmc[p])
              /\ cmc' = [cmc EXCEPT ![p] = Nil]
         ELSE UNCHANGED <<sref, slot, pref, free, crash, cmc>>

\* p closes its channel.
Close(p) ==
    /\ Started(p) /\ copened[p]
    /\ copened' = [copened EXCEPT ![p] = FALSE]
    /\ ChanPut(p)
    /\ UNCHANGED <<sver, pageD, cacheV, locV, hashed, slk, clength, nbytes,
                   cvers, chvers, removed, pc>>

-----------------------------------------------------------------------------
(* cread and creadq.                                                       *)

\* mcread(c, s, off, wait) is entered by actor a: its locals start afresh.
McStart(a, c, s, off, wait, ret) ==
    /\ m' = [m EXCEPT ![a] = [s |-> s, c |-> c, off |-> off, wait |-> wait,
                              count |-> 0, tot |-> 0, eof |-> -1, ret |-> ret]]
    /\ Goto(a, "mc0")

\* creadq(c, off): queue a read-ahead holding a reference to the channel
\* and to its segment; wake a sleeping creadproc, else start one unless
\* NRPROCS run.
Creadq(p, off) ==
    LET sleepers == {w \in Workers : pc[w] = "wsleep"} IN
    /\ rq' = Append(rq, [c |-> p, s |-> cmc[p], off |-> off])
    /\ cref' = [cref EXCEPT ![p] = @ + 1]
    /\ sref' = [sref EXCEPT ![cmc[p]] = @ + 1]
    /\ \/ /\ sleepers # {}
          /\ \E w \in sleepers : pc' = [pc EXCEPT ![p] = "idle", ![w] = "wwoken"]
          /\ UNCHANGED nprocs
       \/ /\ sleepers = {} /\ nprocs < NRPROCS
          /\ nprocs' = nprocs + 1
          /\ \E w \in Workers : pc[w] = "dead" /\ pc' = [pc EXCEPT ![p] = "idle", ![w] = "start"]
       \/ /\ sleepers = {} /\ nprocs >= NRPROCS
          /\ UNCHANGED nprocs /\ Goto(p, "idle")

\* cread(c, buf, len, off) by p on its open channel.
ReadStart(p) ==
    /\ Started(p) /\ copened[p]
    /\ \E q \in ReadReqs : rd' = [rd EXCEPT ![p] = [off |-> q[1], len |-> q[2], tot |-> 0]]
    /\ Goto(p, "again")
    /\ UNCHANGED <<sver, segV, pageV, cacheV, chanV, m, pgs, pgv, cnt, wr,
                   lastw, crash>>

\* again: cseg locks c->mc and len is cut at the known end of file.
ReadAgain(p) ==
    LET s == cmc[p] IN
    /\ pc[p] = "again" /\ Lock(p, s)
    /\ rd' = [rd EXCEPT ![p].len = clen(s, @, rd[p].off), ![p].tot = 0]
    /\ Goto(p, "rloop")
    /\ UNCHANGED <<sver, segD, pageV, cacheV, chanV, ctl, m, pgs, pgv, cnt, wr,
                   lastw>>

\* One turn of cread's loop, s->lk held: done; or no page, so queue a
\* read-ahead if something was read, else mcread and start again; or take
\* a reference to the page and wait for its read if it is still going on.
ReadLoop(p) ==
    LET s == cmc[p]  r == rd[p]  i == PageOf(r.off + r.tot)  f == slot[s][i] IN
    /\ pc[p] = "rloop"
    /\ \/ /\ r.tot >= r.len
          /\ Unlock(s) /\ Goto(p, "idle")
          /\ UNCHANGED <<sref, pref, pgv, rq, cref, nprocs, m>>
       \/ /\ r.tot < r.len /\ f = Nil /\ r.tot > 0
          /\ Unlock(s) /\ Creadq(p, i * PGSZ)
          /\ UNCHANGED <<pref, pgv, m>>
       \/ /\ r.tot < r.len /\ f = Nil /\ r.tot = 0
          /\ Unlock(s) /\ McStart(p, p, s, i * PGSZ, TRUE, "again")
          /\ UNCHANGED <<sref, pref, pgv, rq, cref, nprocs>>
       \/ /\ r.tot < r.len /\ f # Nil
          /\ pref' = [pref EXCEPT ![f] = @ + 1]
          /\ pgv' = [pgv EXCEPT ![p] = f]
          /\ IF pn[f] = 0 THEN Unlock(s) /\ Goto(p, "rpagedin")
                          ELSE UNCHANGED slk /\ Goto(p, "rcopy")
          /\ UNCHANGED <<sref, rq, cref, nprocs, m>>
    /\ UNCHANGED <<sver, pageD, ctl, hashed, slot, clength, nbytes, cvers,
                   free, cnbytes, nseg, rlk, cmc, copened, chvers, removed, rd,
                   pgs, cnt, wr, lastw>>

\* pagedin: pass the page's qlock; a page still unread is an Eioload
\* error, whose handler putpages it.
ReadPagedin(p) ==
    LET f == pgv[p] IN
    /\ pc[p] = "rpagedin" /\ plk[f] = Nil
    /\ IF pn[f] = 0
         THEN PutPages({f}) /\ pgv' = [pgv EXCEPT ![p] = Nil] /\ Goto(p, "idle")
         ELSE UNCHANGED <<pref, free, pgv>> /\ Goto(p, "rrelock")
    /\ UNCHANGED <<sver, segV, pageD, cacheV, chanV, ctl, rd, m, pgs, cnt, wr,
                   lastw>>

ReadRelock(p) ==
    /\ pc[p] = "rrelock" /\ Lock(p, cmc[p])
    /\ Goto(p, "rcopy")
    /\ UNCHANGED <<sver, segD, pageV, cacheV, chanV, locV, ctl>>
\* Mutant: the copy loop forgets putpage(pg).
ReadCopyNoPut(p) ==
    LET r == rd[p]  o == (r.off + r.tot) % PGSZ
        nr == IF r.tot + (PGSZ - o) > r.len THEN r.len - r.tot ELSE PGSZ - o IN
    /\ pc[p] = "rcopy"
    /\ rd' = [rd EXCEPT ![p].tot = @ + nr]
    /\ pgv' = [pgv EXCEPT ![p] = Nil]
    /\ Goto(p, "rloop")
    /\ UNCHANGED <<sver, segV, pageV, cacheV, chanV, m, pgs, cnt, wr, lastw, ctl>>


\* Copy from the page up to its end or to len, and putpage it.
ReadCopy(p) ==
    LET r == rd[p]  o == (r.off + r.tot) % PGSZ
        nr == IF r.tot + (PGSZ - o) > r.len THEN r.len - r.tot ELSE PGSZ - o IN
    /\ pc[p] = "rcopy"
    /\ rd' = [rd EXCEPT ![p].tot = @ + nr]
    /\ PutPages({pgv[p]}) /\ pgv' = [pgv EXCEPT ![p] = Nil]
    /\ Goto(p, "rloop")
    /\ UNCHANGED <<sver, segV, pageD, cacheV, chanV, ctl, m, pgs, cnt, wr,
                   lastw>>

-----------------------------------------------------------------------------
(* mcread: read a window of pages into the segment with pipelined RPCs.   *)

\* The count of the first read RPC of a window (r0->request.count):
\* mntrdwring cuts every request at the iounit.
R0 == IF PGSZ < IOUNIT THEN PGSZ ELSE IOUNIT

\* The smaller end of file, -1 standing for none.
MinEof(x, y) == IF x < 0 THEN y ELSE IF y < 0 \/ x < y THEN x ELSE y

\* mcread's eof over the RPCs reading page i from byte ptot of the page:
\* each asks for the rest of the page up to the iounit, the server returns
\* what the file has there, and a reply shorter than r0's count ends the
\* file at the reply's end.
RECURSIVE ChunkEof(_, _)
ChunkEof(i, ptot) ==
    IF ptot >= PGSZ THEN -1
    ELSE LET o  == i * PGSZ + ptot
             c  == IF PGSZ - ptot > IOUNIT THEN IOUNIT ELSE PGSZ - ptot
             rl == IF FSIZE - o >= c THEN c ELSE IF FSIZE > o THEN FSIZE - o ELSE 0
         IN MinEof(IF rl < R0 THEN o + rl ELSE -1, ChunkEof(i, ptot + c))

Return(a) == Goto(a, m[a].ret)

\* count = clen(s, NREAD, off) under s->lk; nothing to read returns 0.
McCount(a) ==
    LET s == m[a].s  k == clen(s, NREAD, m[a].off) IN
    /\ pc[a] = "mc0" /\ slk[s] = Nil
    /\ m' = [m EXCEPT ![a].count = k]
    /\ IF k = 0 THEN Return(a) ELSE Goto(a, "mc1")
    /\ UNCHANGED <<sver, segV, pageV, cacheV, chanV, pgsV, ctl>>

McLock(a) ==
    /\ pc[a] = "mc1" /\ Lock(a, m[a].s)
    /\ Goto(a, "mloop")
    /\ UNCHANGED <<sver, segD, pageV, cacheV, chanV, locV, ctl>>

\* newpage: the frame it returns.  Frames are interchangeable, so a fixed
\* free one stands for any (in place of symmetry, which liveness forbids).
NewFrame == CHOOSE g \in free : TRUE

\* One turn of mcread's loop, s->lk held.  A page already there is waited
\* for (wait) or skipped; a missing one is a new page, put in the slot,
\* counted in s->nbytes, kept in pgs[] and qlocked while it is read.
McLoop(a) ==
    LET s == m[a].s  i == PageOf(m[a].off + m[a].tot)  f == slot[s][i] IN
    /\ pc[a] = "mloop"
    /\ \/ /\ m[a].tot >= m[a].count
          /\ Unlock(s) /\ Goto(a, "mcollect")
          /\ UNCHANGED <<crash, slot, nbytes, pref, plk, pn, free, m, pgs, pgv>>
       \/ /\ m[a].tot < m[a].count /\ f # Nil /\ m[a].wait
          /\ pref' = [pref EXCEPT ![f] = @ + 1]
          /\ pgv' = [pgv EXCEPT ![a] = f]
          /\ Unlock(s) /\ Goto(a, "mwait")
          /\ UNCHANGED <<crash, slot, nbytes, plk, pn, free, m, pgs>>
       \/ /\ m[a].tot < m[a].count /\ f # Nil /\ ~m[a].wait
          /\ m' = [m EXCEPT ![a].tot = @ + PGSZ]
          /\ UNCHANGED <<crash, slk, slot, nbytes, pref, plk, pn, free, pgs, pgv, pc>>
       \/ /\ m[a].tot < m[a].count /\ f = Nil /\ free = {}
          /\ crash' = "nopages"
          /\ UNCHANGED <<slk, slot, nbytes, pref, plk, pn, free, m, pgs, pgv, pc>>
       \/ /\ m[a].tot < m[a].count /\ f = Nil
          /\ free # {}
          /\ LET g == NewFrame IN
               /\ free' = free \ {g}
               /\ pref' = [pref EXCEPT ![g] = 2]
               /\ pn' = [pn EXCEPT ![g] = 0]
               /\ plk' = [plk EXCEPT ![g] = a]
               /\ slot' = [slot EXCEPT ![s][i] = g]
               /\ pgs' = [pgs EXCEPT ![a] = Append(@, [pg |-> g, i |-> i, st |-> "new", data |-> 0])]
          /\ nbytes' = [nbytes EXCEPT ![s] = @ + 1]
          /\ Unlock(s) /\ Goto(a, "mcache")
          /\ UNCHANGED <<m, pgv, crash>>
    /\ UNCHANGED <<sver, cacheV, chanV, ops, hashed, sref, clength, cvers,
                   pdata, rd, cnt, wr, lastw>>

\* pagedin of a page another mcread is reading; an unread one is an error.
McWait(a) ==
    LET f == pgv[a] IN
    /\ pc[a] = "mwait" /\ plk[f] = Nil
    /\ PutPages({f}) /\ pgv' = [pgv EXCEPT ![a] = Nil]
    /\ Goto(a, IF pn[f] = 0 THEN "mabort" ELSE "mrelock")
    /\ UNCHANGED <<sver, segV, pageD, cacheV, chanV, ctl, rd, m, pgs, cnt, wr,
                   lastw>>

McRelock(a) ==
    /\ pc[a] = "mrelock" /\ Lock(a, m[a].s)
    /\ m' = [m EXCEPT ![a].tot = @ + PGSZ]
    /\ Goto(a, "mloop")
    /\ UNCHANGED <<sver, segD, pageV, cacheV, chanV, pgsV, ctl>>

\* cache.nbytes += pgsz under the cache lock, then the page's read RPCs go
\* out (mntrdwring) and s->lk is taken for the next turn.
McCache(a) ==
    /\ pc[a] = "mcache"
    /\ cnbytes' = cnbytes + 1
    /\ pgs' = [pgs EXCEPT ![a][Len(pgs[a])].st = "sent"]
    /\ m' = [m EXCEPT ![a].tot = @ + PGSZ]
    /\ Goto(a, "mc1")
    /\ UNCHANGED <<sver, segV, pageV, chanV, ctl, nseg, rq, nprocs, rlk, rd,
                   pgv, cnt, wr, lastw>>

\* The file server answers the read RPCs of one page of a's window with
\* the file as it is now, or with an error.
Serve(a) ==
    /\ \E k \in 1..Len(pgs[a]) :
         /\ pgs[a][k].st = "sent"
         /\ \/ pgs' = [pgs EXCEPT ![a][k].st = "ok", ![a][k].data = sver]
            \/ RpcFail /\ pgs' = [pgs EXCEPT ![a][k].st = "err"]
    /\ UNCHANGED <<sver, segV, pageV, cacheV, chanV, ctl, pc, rd, m, pgv, cnt,
                   wr, lastw>>

\* Mutant: the page is put without qunlock(*pg).
McCollectKeepLock(a) ==
    LET h == Head(pgs[a]) IN
    /\ pc[a] = "mcollect" /\ pgs[a] # <<>> /\ h.st \in {"ok", "err"}
    /\ IF h.st = "ok"
         THEN /\ m' = [m EXCEPT ![a].eof = MinEof(@, ChunkEof(h.i, 0))]
              /\ pn' = [pn EXCEPT ![h.pg] = 1]
              /\ pdata' = [pdata EXCEPT ![h.pg] = h.data]
              /\ PutPages({h.pg})
              /\ pgs' = [pgs EXCEPT ![a] = Tail(@)]
              /\ UNCHANGED <<pc, plk>>
         ELSE /\ Goto(a, "mabort")
              /\ UNCHANGED <<m, pageV, pgs>>
    /\ UNCHANGED <<sver, segV, cacheV, chanV, rd, pgv, cnt, wr, lastw, ctl>>

\* mntrdwred of the replies of the next page in order: note a short reply
\* as the end of file, mark the page read, qunlock and putpage it.  An
\* error reply unwinds to mcread's error handler.
McCollect(a) ==
    LET h == Head(pgs[a]) IN
    /\ pc[a] = "mcollect" /\ pgs[a] # <<>> /\ h.st \in {"ok", "err"}
    /\ IF h.st = "ok"
         THEN /\ m' = [m EXCEPT ![a].eof = MinEof(@, ChunkEof(h.i, 0))]
              /\ pn' = [pn EXCEPT ![h.pg] = 1]
              /\ pdata' = [pdata EXCEPT ![h.pg] = h.data]
              /\ plk' = [plk EXCEPT ![h.pg] = Nil]
              /\ PutPages({h.pg})
              /\ pgs' = [pgs EXCEPT ![a] = Tail(@)]
              /\ UNCHANGED pc
         ELSE /\ Goto(a, "mabort")
              /\ UNCHANGED <<pageV, m, pgs>>
    /\ UNCHANGED <<sver, segV, cacheV, chanV, ctl, rd, pgv, cnt, wr, lastw>>

\* All replies are in: ceof(c, eof) if a reply was short, else return 1.
McDone(a) ==
    /\ pc[a] = "mcollect" /\ pgs[a] = <<>>
    /\ IF m[a].eof >= 0 THEN Goto(a, "mceof") ELSE Return(a)
    /\ UNCHANGED <<sver, segV, pageV, cacheV, chanV, locV, ctl>>

\* ceof: under c->mc's lock, clength becomes the smaller of it and eof.
McEof(a) ==
    LET s == cmc[m[a].c]  e == m[a].eof IN
    /\ pc[a] = "mceof" /\ slk[s] = Nil
    /\ IF clength[s] < 0 \/ clength[s] > e
         THEN clength' = [clength EXCEPT ![s] = e]
         ELSE UNCHANGED clength
    /\ Return(a)
    /\ UNCHANGED <<sver, pageV, cacheV, chanV, locV, ctl, hashed, sref, slot,
                   slk, nbytes, cvers>>

\* The error handler: mntabort, then qunlock and putpage the pages of pgs[].
McAbort(a) ==
    LET fs == {pgs[a][k].pg : k \in 1..Len(pgs[a])} IN
    /\ pc[a] = "mabort"
    /\ plk' = [f \in Frames |-> IF f \in fs THEN Nil ELSE plk[f]]
    /\ PutPages(fs)
    /\ pgs' = [pgs EXCEPT ![a] = <<>>]
    /\ Goto(a, "merr")
    /\ UNCHANGED <<sver, segV, cacheV, chanV, ctl, pn, pdata, rd, m, pgv, cnt,
                   wr, lastw>>

\* ... then count = s->nbytes and cclear(s) under s->lk ...
McErr(a) ==
    LET s == m[a].s IN
    /\ pc[a] = "merr" /\ slk[s] = Nil
    /\ cnt' = [cnt EXCEPT ![a] = nbytes[s]]
    /\ CClear(s)
    /\ Goto(a, "merr2")
    /\ UNCHANGED <<sver, pageD, cacheV, chanV, ctl, hashed, sref, slk, cvers,
                   rd, m, pgs, pgv, wr, lastw>>

\* ... then cache.nbytes -= count, and the error goes on to the caller.
McErr2(a) ==
    /\ pc[a] = "merr2"
    /\ cnbytes' = cnbytes - cnt[a]
    /\ Finish(a)
    /\ UNCHANGED <<sver, segV, pageV, chanV, locV, ctl, nseg, rq, nprocs, rlk>>

-----------------------------------------------------------------------------
(* cwrite and cremove.                                                     *)

\* Writes started and not yet performed by the server.
WritesPending == Cardinality({q \in Procs : pc[q] \in {"w0", "w1"}
                                            \/ wr[q].st = "sent"})

\* cwrite(c, buf, len, off) by p on its open channel.
WriteStart(p) ==
    /\ Started(p) /\ copened[p] /\ sver + WritesPending < MaxVer
    /\ Goto(p, "w0")
    /\ UNCHANGED <<sver, segV, pageV, cacheV, chanV, locV, crash>>

\* cseg, count = mc->nbytes, cclear(mc), qunlock.
WriteClear(p) ==
    LET s == cmc[p] IN
    /\ pc[p] = "w0" /\ slk[s] = Nil
    /\ cnt' = [cnt EXCEPT ![p] = nbytes[s]]
    /\ CClear(s)
    /\ Goto(p, "w1")
    /\ UNCHANGED <<sver, pageD, cacheV, chanV, ctl, hashed, sref, slk, cvers,
                   rd, m, pgs, pgv, wr, lastw>>

\* cache.nbytes -= count, then the write RPCs go out.
WriteSend(p) ==
    /\ pc[p] = "w1"
    /\ cnbytes' = cnbytes - cnt[p]
    /\ wr' = [wr EXCEPT ![p].st = "sent"]
    /\ Goto(p, "w2")
    /\ UNCHANGED <<sver, segV, pageV, chanV, ctl, nseg, rq, nprocs, rlk, rd, m,
                   pgs, pgv, cnt, lastw>>

\* The file server performs p's write, making a new version, or fails it.
ServeWrite(p) ==
    /\ wr[p].st = "sent"
    /\ \/ /\ sver' = sver + 1
          /\ wr' = [wr EXCEPT ![p] = [st |-> "ok", ver |-> sver + 1]]
       \/ RpcFail /\ wr' = [wr EXCEPT ![p].st = "err"] /\ UNCHANGED sver
    /\ UNCHANGED <<segV, pageV, cacheV, chanV, ctl, pc, rd, m, pgs, pgv, cnt,
                   lastw>>

\* mntrdwred of the replies; cwrite returns (or raises the error).
WriteDone(p) ==
    /\ pc[p] = "w2" /\ wr[p].st \in {"ok", "err"}
    /\ lastw' = [lastw EXCEPT ![p] = IF wr[p].st = "ok" THEN wr[p].ver ELSE @]
    /\ wr' = [wr EXCEPT ![p].st = "none"]
    /\ Goto(p, "idle")
    /\ UNCHANGED <<sver, segV, pageV, cacheV, chanV, ctl, rd, m, pgs, pgv,
                   cnt>>

\* Tremove of the file by p: mntclunking calls cremove on the channel
\* namec made for it, whose clookup(c, 0) finds the hashed segment.
RemoveStart(p) ==
    /\ Started(p) /\ ~removed
    /\ removed' = TRUE
    /\ \/ \E s \in Segs :
            /\ hashed[s]
            /\ sref' = [sref EXCEPT ![s] = @ + 1]
            /\ m' = [m EXCEPT ![p].s = s]
            /\ Goto(p, "rm1")
       \/ /\ \A s \in Segs : ~hashed[s]
          /\ UNCHANGED <<sref, m, pc>>
    /\ UNCHANGED <<sver, pageV, cacheV, pgsV, hashed, slot, slk, clength,
                   nbytes, cvers, cmc, cref, copened, chvers, crash>>

\* count = mc->nbytes; cclear(mc) under mc->lk.
RemoveClear(p) ==
    LET s == m[p].s IN
    /\ pc[p] = "rm1" /\ slk[s] = Nil
    /\ cnt' = [cnt EXCEPT ![p] = nbytes[s]]
    /\ CClear(s)
    /\ Goto(p, "rm2")
    /\ UNCHANGED <<sver, pageD, cacheV, chanV, ctl, hashed, sref, slk, cvers,
                   rd, m, pgs, pgv, wr, lastw>>

\* Under the cache lock: cache.nbytes -= count, and a segment used only by
\* the hash and this channel is unlinked, unhashed (unhashseg takes its
\* nbytes off too) and loses the hash's reference.
RemoveUnhash(p) ==
    LET s == m[p].s IN
    /\ pc[p] = "rm2"
    /\ IF sref[s] = 2
         THEN /\ hashed' = [hashed EXCEPT ![s] = FALSE]
              /\ nseg' = nseg - 1
              /\ cnbytes' = cnbytes - cnt[p] - nbytes[s]
              /\ sref' = [sref EXCEPT ![s] = 1]
              /\ crash' = IF hashed[s] THEN crash ELSE "unhash"
         ELSE /\ cnbytes' = cnbytes - cnt[p]
              /\ UNCHANGED <<hashed, nseg, sref, crash>>
    /\ Goto(p, "rm3")
    /\ UNCHANGED <<sver, pageV, chanV, locV, slot, slk, clength, nbytes, cvers,
                   rq, nprocs, rlk, ops>>

\* The remove's channel is clunked and freed: putseg(c->mc).
RemoveClunk(p) ==
    /\ pc[p] = "rm3"
    /\ PutSeg(m[p].s)
    /\ Goto(p, "idle")
    /\ UNCHANGED <<sver, pageD, cacheV, chanV, locV, hashed, slk, clength,
                   nbytes, cvers, ops>>

-----------------------------------------------------------------------------
(* creadproc: the read-ahead workers.                                      *)

\* Top of the loop: qlock(&cache.rlk).
WStart(w) ==
    /\ pc[w] = "start" /\ rlk = Nil
    /\ rlk' = w
    /\ Goto(w, "wchk")
    /\ UNCHANGED <<sver, segV, pageV, chanV, locV, ctl, cnbytes, nseg, rq,
                   nprocs>>

\* With work queued, crunlink the head, qunlock rlk and mcread it without
\* waiting; else tsleep on cache.rr, rlk held.
WCheck(w) ==
    /\ pc[w] = "wchk"
    /\ IF rq # <<>>
         THEN /\ rq' = Tail(rq) /\ rlk' = Nil
              /\ McStart(w, Head(rq).c, Head(rq).s, Head(rq).off, FALSE, "wdone")
         ELSE /\ Goto(w, "wsleep") /\ UNCHANGED <<rq, rlk, m>>
    /\ UNCHANGED <<sver, segV, pageV, chanV, pgsV, ctl, cnbytes, nseg, nprocs>>

\* tsleep returns, woken or after its 5 second timeout: with work queued
\* look again; else qunlock rlk and consider exiting.
WWake(w) ==
    /\ pc[w] \in {"wsleep", "wwoken"}
    /\ IF rq # <<>> THEN Goto(w, "wchk") /\ UNCHANGED rlk
                    ELSE Goto(w, "wexit") /\ rlk' = Nil
    /\ UNCHANGED <<sver, segV, pageV, chanV, locV, ctl, cnbytes, nseg, rq,
                   nprocs>>

\* Mutant: cache.nprocs-- is done whether or not the process exits.
WExitNoGuard(w) ==
    /\ pc[w] = "wexit"
    /\ nprocs' = nprocs - 1
    /\ Goto(w, IF nprocs > KEEPPROCS THEN "dead" ELSE "start")
    /\ UNCHANGED <<sver, segV, pageV, cnbytes, nseg, rq, rlk, chanV, locV, ctl>>

\* Idle: exit ("no work") if more than KEEPPROCS exist, else loop.
WExit(w) ==
    /\ pc[w] = "wexit"
    /\ IF nprocs > KEEPPROCS
         THEN nprocs' = nprocs - 1 /\ Goto(w, "dead")
         ELSE UNCHANGED nprocs /\ Goto(w, "start")
    /\ UNCHANGED <<sver, segV, pageV, chanV, locV, ctl, cnbytes, nseg, rq,
                   rlk>>

\* After the mcread: cclose(fr->c), putseg(fr->s), the Frd to rfree.  The
\* channel's c->mc is fr->s, so a last cclose puts a second reference.
WDone(w) ==
    LET c == m[w].c  s == m[w].s IN
    /\ pc[w] = "wdone"
    /\ cref' = [cref EXCEPT ![c] = @ - 1]
    /\ cmc' = IF cref[c] = 1 THEN [cmc EXCEPT ![c] = Nil] ELSE cmc
    /\ PutSegN(s, IF cref[c] = 1 THEN 2 ELSE 1)
    /\ m' = [m EXCEPT ![w] = NoM]
    /\ Goto(w, "start")
    /\ UNCHANGED <<sver, pageD, cacheV, pgsV, hashed, slk, clength, nbytes,
                   cvers, copened, chvers, removed, ops>>

-----------------------------------------------------------------------------
Live == crash = "none"

\* Every process is idle and every creadproc between reads (the file may
\* be removed and all channels closed), or the kernel has panicked: the
\* system stays so.
Halted ==
    /\ \/ ~Live
       \/ /\ \A p \in Procs : pc[p] = "idle"
          /\ \A w \in Workers : pc[w] \in {"dead", "start", "wchk", "wsleep", "wwoken", "wexit"}
    /\ UNCHANGED vars

Next ==
    \/ Halted
    \/ \E p \in Procs :
          \/ Live /\ OpenStart(p)
          \/ Live /\ Creclaim(p)
          \/ Live /\ Clookup(p)
          \/ Live /\ CheckVers(p)
          \/ Live /\ Close(p)
          \/ Live /\ ReadStart(p)
          \/ Live /\ ReadAgain(p)
          \/ Live /\ ReadLoop(p)
          \/ Live /\ ReadPagedin(p)
          \/ Live /\ ReadRelock(p)
          \/ Live /\ ReadCopy(p)
          \/ Live /\ WriteStart(p)
          \/ Live /\ WriteClear(p)
          \/ Live /\ WriteSend(p)
          \/ Live /\ ServeWrite(p)
          \/ Live /\ WriteDone(p)
          \/ Live /\ RemoveStart(p)
          \/ Live /\ RemoveClear(p)
          \/ Live /\ RemoveUnhash(p)
          \/ Live /\ RemoveClunk(p)
    \/ \E w \in Workers :
          \/ Live /\ WStart(w)
          \/ Live /\ WCheck(w)
          \/ Live /\ WWake(w)
          \/ Live /\ WExit(w)
          \/ Live /\ WDone(w)
    \/ \E a \in Actors :
          \/ Live /\ McCount(a)
          \/ Live /\ McLock(a)
          \/ Live /\ McLoop(a)
          \/ Live /\ McWait(a)
          \/ Live /\ McRelock(a)
          \/ Live /\ McCache(a)
          \/ Live /\ Serve(a)
          \/ Live /\ McCollect(a)
          \/ Live /\ McDone(a)
          \/ Live /\ McEof(a)
          \/ Live /\ McAbort(a)
          \/ Live /\ McErr(a)
          \/ Live /\ McErr2(a)

Spec == Init /\ [][Next]_vars

\* The steps an actor takes on its own once an operation has started; the
\* starts (open, read, write, remove, close) are the user's choice.
ProcSteps(p) ==
    \/ Creclaim(p) \/ Clookup(p) \/ CheckVers(p)
    \/ ReadAgain(p) \/ ReadLoop(p) \/ ReadPagedin(p) \/ ReadRelock(p) \/ ReadCopy(p)
    \/ WriteClear(p) \/ WriteSend(p) \/ WriteDone(p)
    \/ RemoveClear(p) \/ RemoveUnhash(p) \/ RemoveClunk(p)
WorkerSteps(w) == WStart(w) \/ WCheck(w) \/ WWake(w) \/ WExit(w) \/ WDone(w)
McSteps(a) ==
    \/ McCount(a) \/ McLock(a) \/ McLoop(a) \/ McWait(a) \/ McRelock(a)
    \/ McCache(a) \/ McCollect(a) \/ McDone(a) \/ McEof(a) \/ McAbort(a)
    \/ McErr(a) \/ McErr2(a)

\* The scheduler runs every ready process, and a qlock (s->lk, the page
\* lock, cache.rlk) queues its waiters in order, so a process that waits
\* on a lock released again and again gets it: strong fairness for each
\* actor's own steps.  The file server eventually answers every RPC.
Fairness ==
    /\ \A p \in Procs : SF_vars(Live /\ (ProcSteps(p) \/ McSteps(p)))
    /\ \A w \in Workers : SF_vars(Live /\ (WorkerSteps(w) \/ McSteps(w)))
    /\ \A a \in Actors : WF_vars(Live /\ Serve(a))
    /\ \A p \in Procs : WF_vars(Live /\ ServeWrite(p))

FairSpec == Spec /\ Fairness

-----------------------------------------------------------------------------
(* Properties.                                                             *)

PCs == {"idle", "open", "checkvers", "again", "rloop", "rpagedin", "rrelock",
        "rcopy", "mc0", "mc1", "mloop", "mwait", "mrelock", "mcache",
        "mcollect", "mceof", "mabort", "merr", "merr2", "w0", "w1", "w2",
        "rm1", "rm2", "rm3", "dead", "start", "wchk", "wsleep", "wwoken",
        "wexit", "wdone"}

TypeOK ==
    /\ sver \in 0..MaxVer
    /\ hashed \in [Segs -> BOOLEAN] /\ sref \in [Segs -> Nat]
    /\ slot \in [Segs -> [Pages -> Frames \cup {Nil}]]
    /\ slk \in [Segs -> Actors \cup {Nil}]
    /\ clength \in [Segs -> -1..Cardinality(Pages) * PGSZ] /\ nbytes \in [Segs -> Nat]
    /\ pref \in [Frames -> Nat] /\ pn \in [Frames -> {0, 1}]
    /\ plk \in [Frames -> Actors \cup {Nil}] /\ free \subseteq Frames
    /\ cnbytes \in Int /\ nseg \in 0..Cardinality(Segs)
    /\ nprocs \in 0..NRPROCS /\ rlk \in Workers \cup {Nil}
    /\ cmc \in [Procs -> Segs \cup {Nil}] /\ cref \in [Procs -> Nat]
    /\ pc \in [Actors -> PCs]
    /\ crash \in {"none", "linked", "unhash", "nopages"}

\* Page references are exact: a page's ref counts the segment slots that
\* hold it, the page a process waits on or copies from, and the pages an
\* mcread keeps in pgs[] while their RPCs are out; a page is on the free
\* lists exactly when nothing refers to it.  Breaking it takes a putpage
\* missed or doubled on one of cclear, pagedin's error path, mcread's
\* collect or abort, or a putseg.
Holders(f) ==
    Cardinality({<<s, i>> \in Segs \X Pages : slot[s][i] = f})
    + Cardinality({a \in Actors : pgv[a] = f})
    + Cardinality({<<a, k>> \in Actors \X (1..NREADPG) : k <= Len(pgs[a]) /\ pgs[a][k].pg = f})
PageRefsExact ==
    \A f \in Frames : /\ pref[f] = Holders(f)
                      /\ (f \in free) = (pref[f] = 0)

\* cache.nbytes is the sum of the hashed segments' nbytes, once the
\* processes between updating s->nbytes and cache.nbytes (mcread after a
\* new page; cwrite, cremove and mcread's error path after a cclear) have
\* applied what they owe.  copen's reclaim trusts it.
Owed(a) ==
    CASE pc[a] = "mcache" -> 1
      [] pc[a] \in {"w1", "rm2", "merr2"} -> 0 - cnt[a]
      [] OTHER -> 0
NBytesBalanced ==
    MapThenSumSet(LAMBDA s : nbytes[s], {s \in Segs : hashed[s]})
        = cnbytes + MapThenSumSet(Owed, Actors)

\* A read sees its process's writes: a page cread copies from, in a cread
\* started after p's cwrite returned, holds that write or a later one.
ReadYourWrites ==
    \A p \in Procs : pc[p] = "rcopy" => pdata[pgv[p]] >= lastw[p]

\* cread copies only bytes of the file: what it copies from a page ends at
\* or before the file's end, where the read RPC's reply stopped filling it.
CopyEnd(p) ==
    LET r == rd[p]  o == (r.off + r.tot) % PGSZ IN
    r.off + r.tot + (IF r.tot + (PGSZ - o) > r.len THEN r.len - r.tot ELSE PGSZ - o)
ReadInsideFile ==
    \A p \in Procs : pc[p] = "rcopy" => CopyEnd(p) <= FSIZE

\* The cache never takes the file to be shorter than it is: a known
\* clength of a segment in use is at least the file's length, so cread
\* never cuts a read short of data the file has.
EofSound ==
    \A s \in Segs : sref[s] > 0 /\ clength[s] >= 0 => clength[s] >= FSIZE

\* Every read-ahead creadq queues is taken off the queue by a creadproc:
\* creadq starts no worker when NRPROCS run, and an idle worker exits
\* when more than KEEPPROCS run, so one that has just decided to exit
\* must leave another to find the request.
QueueDrains == rq # <<>> ~> rq = <<>>

\* Every cache operation a process starts returns: a process waiting on
\* s->lk, or in pagedin on the qlock of a page another mcread is filling,
\* is not left waiting for good, and mcread's replies all come in.
OpsComplete == \A p \in Procs : pc[p] # "idle" ~> pc[p] = "idle"

\* None of the cache's panics (putseg: linked, unhashseg: not found, newpage) is
\* reached.
NoPanic == crash = "none"

====
