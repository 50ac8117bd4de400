------------------------------ MODULE PageAlloc ------------------------------
(***************************************************************************)
(* The page-frame allocator of port/page.c: newpg, newpage, putpage,       *)
(* pgfree, splitbundle, joinbundle, newepga/initbundle and the free-list   *)
(* and class-list primitives they use.                                     *)
(*                                                                         *)
(* The pgasz[] table is reduced to three classes, with the types of the    *)
(* 2M, 16K and 4K entries of the source:                                   *)
(*   class 0  large pages   PGprealloc  one top-level allocator Top        *)
(*   class 1  bundle pages  PGbundle    U(b), built on E(b)                *)
(*   class 2  small pages   PGembed     E(b), embedded in large page b     *)
(* Splitting large page b creates E(b) (NHead unbundled small pages then   *)
(* NBun bundles of BSZ small pages) and U(b), whose pages are the first    *)
(* Page of each bundle, as initbundle does.  Page <<b, 0>> is large page   *)
(* b; <<b, k>> is the k-th small page inside it.                           *)
(*                                                                         *)
(* Every ilock(&pgalk) section is one atomic step.  Free lists are kept as *)
(* the code keeps them: next/prev links per page and a head per allocator, *)
(* so that unlinking a page that is not on the list has the effect it has  *)
(* in the code.  Colors, the nuser/nbundled statistics, va and the page    *)
(* contents are left out: no control decision depends on them.             *)
(***************************************************************************)
EXTENDS Naturals, Sequences, SequencesExt, FiniteSets

CONSTANTS
    CPU,         \* processors; each runs one process with its selfish pool
    NBig,        \* large pages in the top-level allocator
    NHead,       \* unbundled small pages at the head of an embedded allocator
    NBun,        \* bundles initbundle carves from an embedded allocator
    BSZ,         \* small pages per bundle page (pgsz/cpgsz)
    JoinPages,   \* the *joinpages boot flag
    PoolMax,     \* NPROCPOOLSZ: pages kept in a process's selfish pool
    MaxHeld,     \* bound: pages one CPU holds references to at once
    ReqClasses,  \* the page classes the model requests
    Nil

ASSUME /\ NBig \in Nat \ {0} /\ NHead \in Nat /\ NBun \in Nat \ {0}
       /\ BSZ \in Nat \ {0, 1} /\ JoinPages \in BOOLEAN
       /\ PoolMax \in Nat /\ MaxHeld \in Nat \ {0}
       /\ ReqClasses \subseteq 0..2

Bigs       == 1..NBig
NInner     == NHead + NBun * BSZ
Pages      == {<<b, k>> : b \in Bigs, k \in 0..NInner}
Frames     == {<<b, k>> : b \in Bigs, k \in 1..NInner}
Sib(p, i)  == <<p[1], p[2] + i>>
NOTBUNDLED == 255
Bundlei(p) == IF p[2] <= NHead THEN NOTBUNDLED ELSE (p[2] - NHead - 1) % BSZ

Top        == <<"top", 0>>
E(b)       == <<"embed", b>>
U(b)       == <<"bundle", b>>
Allocs     == {Top} \cup {E(b) : b \in Bigs} \cup {U(b) : b \in Bigs}
Classes    == 0..2
UPGCLASS   == 1       \* UPGSHFT: user pages are bundle pages (CPGSZ, 16K)
Class(a)   == CASE a[1] = "top" -> 0 [] a[1] = "bundle" -> 1 [] a[1] = "embed" -> 2
Npg(a)     == CASE Class(a) = 0 -> NBig [] Class(a) = 1 -> NBun [] Class(a) = 2 -> NInner
Bpga(a)    == IF Class(a) = 2 THEN U(a[2]) ELSE Nil   \* set by initbundle

\* newpage() is the entry for user pages and panics when newpg fails;
\* the kernel callers of newpg (morecore, pdmap) accept nil.
ViaNewpage(r) == r = UPGCLASS

PCs == {"idle", "scan", "split", "linku", "take", "put", "pgfree",
        "joinchk", "join"}

VARIABLES
    fl,         \* free lists: [next, prev, head, nfree]
    ref,        \* Page.ref
    pga,        \* Page.pga back-link
    parent,     \* Pgalloc.parent
    classlist,  \* pgasz[i].pga list, as a sequence
    nsplit,     \* Top's nsplit
    pool,       \* up->pgfree, linked through Page.next
    npool,      \* up->npgfree
    panicked,   \* the kernel has panicked
    pc, req, ci, pg, fp, fa, held

vars == <<fl, ref, pga, parent, classlist, nsplit, pool, npool, panicked,
          pc, req, ci, pg, fp, fa, held>>

-----------------------------------------------------------------------------
(* Free-list primitives; each maps a free-list store to the next one.      *)

\* pganewpg: take the head page (the caller sets its ref).
PgaNewpg(s, a) ==
    LET p  == s.head[a]
        nx == s.next[p]
    IN IF p = Nil THEN s
       ELSE [s EXCEPT !.head[a]  = nx,
                      !.prev     = IF nx # Nil THEN [@ EXCEPT ![nx] = Nil] ELSE @,
                      !.next[p]  = Nil,
                      !.nfree[a] = @ - 1]

\* Mutant: nfree is not decremented.
PgaUnfreeNoCount(s, a, p) ==
    LET pv == s.prev[p]
        nx == s.next[p]
        s1 == IF pv # Nil THEN [s EXCEPT !.next[pv] = nx]
                          ELSE [s EXCEPT !.head[a] = nx]
        s2 == IF nx # Nil THEN [s1 EXCEPT !.prev[nx] = pv] ELSE s1
    IN [s2 EXCEPT !.next[p] = Nil, !.prev[p] = Nil]

\* pgaunfree: unlink p through its own links, whatever list they are in.
PgaUnfree(s, a, p) ==
    LET pv == s.prev[p]
        nx == s.next[p]
        s1 == IF pv # Nil THEN [s EXCEPT !.next[pv] = nx]
                          ELSE [s EXCEPT !.head[a] = nx]
        s2 == IF nx # Nil THEN [s1 EXCEPT !.prev[nx] = pv] ELSE s1
    IN [s2 EXCEPT !.next[p] = Nil, !.prev[p] = Nil, !.nfree[a] = @ - 1]

\* pgafreepg: push p at the head; p's prev link is left as it is.
PgaFreepg(s, a, p) ==
    LET h  == s.head[a]
        s1 == [s EXCEPT !.next[p] = h, !.head[a] = p, !.nfree[a] = @ + 1]
    IN IF h # Nil THEN [s1 EXCEPT !.prev[h] = p] ELSE s1

\* linkpga / unlinkpga on a class list.  An allocator whose links are nil
\* and is not on the list is unlinked by making the list its (nil) next.
\* linkpga panics ("already linked") on an allocator with a link set: one
\* on the list with a neighbour there (PgaLinked), tested by its callers.
PgaLinked(cl, a) == a \in ToSet(cl) /\ Len(cl) > 1
LinkPga(cl, a)   == <<a>> \o cl
UnlinkPga(cl, a) == IF a \in ToSet(cl) THEN RemoveFirst(cl, a) ELSE <<>>

\* The embedded allocator E(b) and bundle allocator U(b) as newepga and
\* initbundle leave them: E keeps the unbundled head pages, U the first
\* page of each bundle, both in address order; bundled pages are unlinked.
EList(b) == [i \in 1..NHead |-> <<b, i>>]
UList(b) == [j \in 1..NBun  |-> <<b, NHead + 1 + (j - 1) * BSZ>>]
InnerOf(b) == {<<b, k>> : k \in 1..NInner}
NextIn(l, p) == LET i == CHOOSE i \in 1..Len(l) : l[i] = p
                IN IF i < Len(l) THEN l[i + 1] ELSE Nil
PrevIn(l, p) == LET i == CHOOSE i \in 1..Len(l) : l[i] = p
                IN IF i > 1 THEN l[i - 1] ELSE Nil
HeadOf(l)    == IF l = <<>> THEN Nil ELSE l[1]

NewEpga(s, b) ==
    LET el == EList(b)
        ul == UList(b)
        InL(p) == p \in ToSet(el) \/ p \in ToSet(ul)
        L(p)   == IF p \in ToSet(el) THEN el ELSE ul
    IN [s EXCEPT
          !.next = [p \in Pages |-> IF p \in InnerOf(b)
                                    THEN IF InL(p) THEN NextIn(L(p), p) ELSE Nil
                                    ELSE @[p]],
          !.prev = [p \in Pages |-> IF p \in InnerOf(b)
                                    THEN IF InL(p) THEN PrevIn(L(p), p) ELSE Nil
                                    ELSE @[p]],
          !.head[E(b)]  = HeadOf(el),
          !.head[U(b)]  = HeadOf(ul),
          !.nfree[E(b)] = NHead,
          !.nfree[U(b)] = NBun]

-----------------------------------------------------------------------------
Init ==
    LET tl == [i \in 1..NBig |-> <<i, 0>>]   \* allocpga appends in order
    IN
    /\ fl = [next  |-> [p \in Pages |-> IF p[2] = 0 THEN NextIn(tl, p) ELSE Nil],
             prev  |-> [p \in Pages |-> IF p[2] = 0 THEN PrevIn(tl, p) ELSE Nil],
             head  |-> [a \in Allocs |-> IF a = Top THEN tl[1] ELSE Nil],
             nfree |-> [a \in Allocs |-> IF a = Top THEN NBig ELSE 0]]
    /\ ref       = [p \in Pages |-> 0]
    /\ pga       = [p \in Pages |-> IF p[2] = 0 THEN Top ELSE E(p[1])]
    /\ parent    = [a \in Allocs |-> Nil]
    /\ classlist = [i \in Classes |-> IF i = 0 THEN <<Top>> ELSE <<>>]
    /\ nsplit    = 0
    /\ pool      = [c \in CPU |-> Nil]
    /\ npool     = [c \in CPU |-> 0]
    /\ panicked  = FALSE
    /\ pc   = [c \in CPU |-> "idle"]
    /\ req  = [c \in CPU |-> 0]
    /\ ci   = [c \in CPU |-> 0]
    /\ pg   = [c \in CPU |-> Nil]
    /\ fp   = [c \in CPU |-> Nil]
    /\ fa   = [c \in CPU |-> Top]
    /\ held = [c \in CPU |-> {}]

\* Return to the caller: the call's locals are gone.
Return(c) == /\ pc'  = [pc  EXCEPT ![c] = "idle"]
             /\ req' = [req EXCEPT ![c] = 0]
             /\ ci'  = [ci  EXCEPT ![c] = 0]
             /\ pg'  = [pg  EXCEPT ![c] = Nil]
             /\ fp'  = [fp  EXCEPT ![c] = Nil]
             /\ fa'  = [fa  EXCEPT ![c] = Top]

Panic == /\ panicked' = TRUE
         /\ UNCHANGED <<fl, ref, pga, parent, classlist, nsplit, pool, npool,
                        pc, req, ci, pg, fp, fa, held>>
-----------------------------------------------------------------------------
(* newpage: a user page is taken from the selfish pool when there is one;  *)
(* the pool lock is per process and only its own CPU takes it.             *)
NewpagePool(c) ==
    /\ ~panicked /\ pc[c] = "idle"
    /\ UPGCLASS \in ReqClasses /\ Cardinality(held[c]) < MaxHeld
    /\ pool[c] # Nil
    /\ LET p == pool[c] IN
       /\ pool'  = [pool EXCEPT ![c] = fl.next[p]]
       /\ fl'    = [fl EXCEPT !.next[p] = Nil]
       /\ ref'   = [ref EXCEPT ![p] = 1]
       /\ npool' = [npool EXCEPT ![c] = @ - 1]
       /\ held'  = [held EXCEPT ![c] = @ \cup {p}]
    /\ UNCHANGED <<pga, parent, classlist, nsplit, panicked, pc, req, ci, pg, fp, fa>>

\* newpg(sz): start scanning at the smallest class not smaller than sz.
NewpgStart(c, r) ==
    /\ ~panicked /\ pc[c] = "idle" /\ Cardinality(held[c]) < MaxHeld
    /\ ~(ViaNewpage(r) /\ pool[c] # Nil)
    /\ pc' = [pc EXCEPT ![c] = "scan"]
    /\ req' = [req EXCEPT ![c] = r]
    /\ ci' = [ci EXCEPT ![c] = r]
    /\ pg' = [pg EXCEPT ![c] = Nil]
    /\ UNCHANGED <<fl, ref, pga, parent, classlist, nsplit, pool, npool, panicked, fp, fa, held>>

\* The allocators of class i in list order whose free list is not empty.
FirstFree(i) == SelectInSeq(classlist[i], LAMBDA a : fl.head[a] # Nil)

\* One ilock section of the scan: take a page from the first allocator of
\* class ci with a free page and move that allocator to the list head.
ScanHit(c) ==
    /\ ~panicked /\ pc[c] = "scan"
    /\ FirstFree(ci[c]) # 0
    /\ LET i == ci[c]
           a == classlist[i][FirstFree(i)]
           p == fl.head[a]
       IN /\ fl' = PgaNewpg(fl, a)
          /\ ref' = [ref EXCEPT ![p] = 1]
          /\ classlist' = [classlist EXCEPT ![i] =
                              IF a = Head(@) THEN @ ELSE LinkPga(UnlinkPga(@, a), a)]
          /\ pg' = [pg EXCEPT ![c] = p]
          /\ pc' = [pc EXCEPT ![c] = "split"]
    /\ UNCHANGED <<pga, parent, nsplit, pool, npool, panicked, req, ci, fp, fa, held>>

\* newpg returned nil: the kernel callers take it; newpage, after the
\* colour retry and pgreclaim (which always fails), panics.
NewpgNil(c) ==
    IF ViaNewpage(req[c]) THEN Panic
    ELSE /\ Return(c)
         /\ UNCHANGED <<fl, ref, pga, parent, classlist, nsplit, pool, npool,
                        panicked, held>>

ScanMiss(c) ==
    /\ ~panicked /\ pc[c] = "scan"
    /\ FirstFree(ci[c]) = 0
    /\ IF ci[c] > 0
       THEN /\ ci' = [ci EXCEPT ![c] = @ - 1]
            /\ UNCHANGED <<fl, ref, pga, parent, classlist, nsplit, pool, npool,
                           panicked, pc, req, pg, fp, fa, held>>
       ELSE NewpgNil(c)

\* splitbundle: give back the other pages of the bundle to the embedded
\* allocator and make pg a small page.  A nil pg is dereferenced.
SplitBundle(c) ==
    /\ ~panicked /\ pc[c] = "split"
    /\ ci[c] < req[c] /\ ci[c] = 1
    /\ LET p    == pg[c]
           cpga == pga[Sib(p, 1)]
           ok   == /\ Bundlei(p) = 0 /\ Class(cpga) = 2
                   /\ \A i \in 1..BSZ-1 :
                        LET q == Sib(p, i) IN
                        /\ Bundlei(q) = i /\ pga[q] = cpga
                        /\ fl.next[q] = Nil /\ fl.prev[q] = Nil /\ ref[q] = 0
       IN IF p = Nil \/ ~ok THEN Panic
          ELSE /\ fl' = FoldLeft(LAMBDA s, q : PgaFreepg(s, cpga, q), fl,
                                 [i \in 1..BSZ-1 |-> Sib(p, i)])
               /\ pga' = [pga EXCEPT ![p] = cpga]
               /\ ci' = [ci EXCEPT ![c] = @ + 1]
               /\ UNCHANGED <<ref, parent, classlist, nsplit, pool, npool,
                              panicked, pc, req, pg, fp, fa, held>>

\* Split of a large page, first ilock section of newepga(bundle): build
\* E(b), link it first in its class, and run initbundle to build U(b).
SplitLarge(c) ==
    /\ ~panicked /\ pc[c] = "split"
    /\ ci[c] < req[c] /\ ci[c] = 0
    /\ LET p == pg[c]
           b == p[1]
       IN IF PgaLinked(classlist[2], E(b)) THEN Panic
          ELSE
          /\ fl' = NewEpga(fl, b)
          /\ pga' = [q \in Pages |->
                       IF q \in InnerOf(b)
                       THEN IF Bundlei(q) = 0 THEN U(b) ELSE E(b)
                       ELSE pga[q]]
          /\ ref' = [q \in Pages |-> IF q \in InnerOf(b) THEN 0 ELSE ref[q]]
          /\ parent' = [parent EXCEPT ![E(b)] = p, ![U(b)] = p]
          /\ classlist' = [classlist EXCEPT ![2] = LinkPga(@, E(b))]
          /\ pc' = [pc EXCEPT ![c] = "linku"]
          /\ UNCHANGED <<nsplit, pool, npool, panicked, req, ci, pg, fp, fa, held>>

\* Second ilock section of newepga: link U(b) first in its class.
LinkU(c) ==
    /\ ~panicked /\ pc[c] = "linku"
    /\ IF PgaLinked(classlist[1], U(pg[c][1])) THEN Panic
       ELSE /\ classlist' = [classlist EXCEPT ![1] = LinkPga(@, U(pg[c][1]))]
            /\ pc' = [pc EXCEPT ![c] = "take"]
            /\ UNCHANGED <<fl, ref, pga, parent, nsplit, pool, npool, panicked,
                           req, ci, pg, fp, fa, held>>

\* Third ilock section of the split step: charge the split to the parent
\* allocator and take a page from the new bundle allocator (nil if empty).
Take(c) ==
    /\ ~panicked /\ pc[c] = "take"
    /\ LET u == U(pg[c][1])
           p == fl.head[u]
       IN /\ fl' = PgaNewpg(fl, u)
          /\ ref' = IF p # Nil THEN [ref EXCEPT ![p] = 1] ELSE ref
          /\ pg' = [pg EXCEPT ![c] = p]
    /\ nsplit' = nsplit + 1
    /\ ci' = [ci EXCEPT ![c] = 1]
    /\ pc' = [pc EXCEPT ![c] = "split"]
    /\ UNCHANGED <<pga, parent, classlist, pool, npool, panicked, req, fp, fa, held>>

\* newpg's checks of the page it returns: its allocator is of the class
\* asked for ("sizes"), the page lies within that allocator ("off
\* limits") and has one reference ("ref").  pg->n is not modelled.
InPga(p, a) == IF Class(a) = 0 THEN p[2] = 0 ELSE p[1] = a[2] /\ p[2] >= 1
NewpgOk(p, r) == Class(pga[p]) = r /\ InPga(p, pga[p]) /\ ref[p] = 1

\* End of the split loop: newpg returns pg, or nil.
NewpgDone(c) ==
    /\ ~panicked /\ pc[c] = "split"
    /\ ~(ci[c] < req[c])
    /\ IF pg[c] = Nil THEN NewpgNil(c)
       ELSE IF ~NewpgOk(pg[c], req[c]) THEN Panic
       ELSE /\ held' = [held EXCEPT ![c] = @ \cup {pg[c]}]
            /\ Return(c)
            /\ UNCHANGED <<fl, ref, pga, parent, classlist, nsplit, pool, npool,
                           panicked>>

-----------------------------------------------------------------------------
(* putpage: decref, then the selfish pool or pgfree.                       *)
Free(c, p) ==
    /\ ~panicked /\ pc[c] = "idle" /\ p \in held[c]
    /\ ref' = [ref EXCEPT ![p] = @ - 1]
    /\ held' = [held EXCEPT ![c] = @ \ {p}]
    /\ IF ref[p] - 1 > 0 THEN UNCHANGED <<pc, fp>>
       ELSE /\ pc' = [pc EXCEPT ![c] = "put"]
            /\ fp' = [fp EXCEPT ![c] = p]
    /\ UNCHANGED <<fl, pga, parent, classlist, nsplit, pool, npool, panicked,
                   req, ci, pg, fa>>

\* A second reference to a page another CPU holds (a second mapping).
Share(c, p) ==
    /\ ~panicked /\ pc[c] = "idle" /\ Cardinality(held[c]) < MaxHeld
    /\ p \in UNION {held[d] : d \in CPU \ {c}} /\ p \notin held[c]
    /\ ref' = [ref EXCEPT ![p] = @ + 1]
    /\ held' = [held EXCEPT ![c] = @ \cup {p}]
    /\ UNCHANGED <<fl, pga, parent, classlist, nsplit, pool, npool, panicked,
                   pc, req, ci, pg, fp, fa>>

\* Mutant: joinbundle does not look at the references of the bundle.
JoinTargetNoRef(p, a) ==
    IF Class(a) = 0 \/ Bpga(a) = Nil \/ Bundlei(p) = NOTBUNDLED THEN Nil
    ELSE Sib(p, 0 - Bundlei(p))

\* joinbundle, with pgalk held: the first page of p's bundle, if p is in
\* one (nil otherwise).  It lies in the allocator by construction, so the
\* "out of range" panic cannot fire.
BundleHead(p, a) ==
    IF Class(a) = 0 \/ Bpga(a) = Nil \/ Bundlei(p) = NOTBUNDLED THEN Nil
    ELSE Sib(p, 0 - Bundlei(p))

\* The "bad bundle" panic, tested before the references are looked at.
JoinBad(p, a) == BundleHead(p, a) # Nil /\ pga[BundleHead(p, a)] # a

\* The first page of p's bundle if every page of the bundle has ref 0,
\* else Nil.
JoinTarget(p, a) ==
    LET bpg == BundleHead(p, a)
    IN IF bpg # Nil /\ \A i \in 0..BSZ-1 : ref[Sib(bpg, i)] = 0 THEN bpg ELSE Nil

\* The ilock section of pgfree: put p on its allocator's free list and,
\* with joinpages, join its bundle.  The page's pgfree panics if p is
\* still linked or referenced.
PgfreeSection(c, p) ==
    LET a  == pga[p]
        s1 == PgaFreepg(fl, a, p)
        bpg == JoinTarget(p, a)
    IN
    IF fl.next[p] # Nil \/ fl.prev[p] # Nil \/ ref[p] # 0 THEN Panic
    ELSE IF (parent[a] = Nil /\ Bpga(a) = Nil) \/ ~JoinPages
    THEN /\ fl' = s1
         /\ Return(c)
         /\ UNCHANGED <<ref, pga, parent, classlist, nsplit, pool, npool,
                        panicked, held>>
    ELSE IF JoinBad(p, a) THEN Panic    \* "canjoinbundle: bad bundle"
    ELSE IF bpg # Nil
    THEN /\ fl' = FoldLeft(LAMBDA s, q : PgaUnfree(s, a, q), s1,
                           [i \in 1..BSZ |-> Sib(bpg, i - 1)])
         /\ pga' = [pga EXCEPT ![bpg] = Bpga(a)]
         /\ fp' = [fp EXCEPT ![c] = bpg]
         /\ pc' = [pc EXCEPT ![c] = "pgfree"]
         /\ UNCHANGED <<ref, parent, classlist, nsplit, pool, npool, panicked,
                        req, ci, pg, fa, held>>
    ELSE /\ fl' = s1
         /\ fa' = [fa EXCEPT ![c] = a]
         /\ pc' = [pc EXCEPT ![c] = "joinchk"]
         /\ UNCHANGED <<ref, pga, parent, classlist, nsplit, pool, npool,
                        panicked, req, ci, pg, fp, held>>

\* Mutant: putpage keeps pages in the pool past NPROCPOOLSZ.
PutNoLimit(c) ==
    /\ ~panicked /\ pc[c] = "put"
    /\ LET p == fp[c] IN
       IF Class(pga[p]) = UPGCLASS
       THEN /\ fl' = [fl EXCEPT !.next[p] = pool[c]]
            /\ pool' = [pool EXCEPT ![c] = p]
            /\ npool' = [npool EXCEPT ![c] = @ + 1]
            /\ Return(c)
            /\ UNCHANGED <<ref, pga, parent, classlist, nsplit, panicked, held>>
       ELSE PgfreeSection(c, p)

\* putpage after the decref reached 0: user-size pages go to the pool
\* while it has room; everything else goes to pgfree.
Put(c) ==
    /\ ~panicked /\ pc[c] = "put"
    /\ LET p == fp[c] IN
       IF Class(pga[p]) = UPGCLASS /\ npool[c] < PoolMax
       THEN /\ fl' = [fl EXCEPT !.next[p] = pool[c]]
            /\ pool' = [pool EXCEPT ![c] = p]
            /\ npool' = [npool EXCEPT ![c] = @ + 1]
            /\ Return(c)
            /\ UNCHANGED <<ref, pga, parent, classlist, nsplit, panicked,
                           held>>
       ELSE PgfreeSection(c, p)

\* Mutant: the joined page is dropped instead of freed.
PgfreeDropped(c) ==
    /\ ~panicked /\ pc[c] = "pgfree"
    /\ Return(c)
    /\ UNCHANGED <<fl, ref, pga, parent, classlist, nsplit, pool, npool,
                   panicked, held>>

\* pgfree of a page joined from a bundle or of a parent page.
Pgfree(c) ==
    /\ ~panicked /\ pc[c] = "pgfree"
    /\ PgfreeSection(c, fp[c])

\* pgfree, unlocked: is every page of the allocator free?
JoinChk(c) ==
    /\ ~panicked /\ pc[c] = "joinchk"
    /\ IF fl.nfree[fa[c]] < Npg(fa[c]) \/ ~JoinPages
       THEN Return(c)
       ELSE /\ pc' = [pc EXCEPT ![c] = "join"]
            /\ UNCHANGED <<req, ci, pg, fp, fa>>
    /\ UNCHANGED <<fl, ref, pga, parent, classlist, nsplit, pool, npool,
                   panicked, held>>

\* pgfree, second ilock section: dismantle a drained child allocator and
\* free the parent page it lives in.
Join(c) ==
    /\ ~panicked /\ pc[c] = "join"
    /\ LET a   == fa[c]
           b   == a[2]
           ppg == parent[a]
           busy == IF Class(a) = 1
                   THEN fl.nfree[a] * BSZ + fl.nfree[E(b)] < NInner
                   ELSE fl.nfree[a] < Npg(a)
       IN IF busy
          THEN /\ Return(c)
               /\ UNCHANGED <<fl, ref, pga, parent, classlist, nsplit, pool,
                              npool, panicked, held>>
          ELSE IF ppg = Nil THEN Panic
          ELSE /\ parent' = [parent EXCEPT ![a] = Nil]
               /\ nsplit' = nsplit - 1
               /\ classlist' =
                    IF Class(a) = 1
                    THEN [classlist EXCEPT ![1] = UnlinkPga(@, a),
                                           ![2] = UnlinkPga(@, E(b))]
                    ELSE [classlist EXCEPT ![Class(a)] = UnlinkPga(@, a)]
               /\ ref' = [ref EXCEPT ![ppg] = 0]
               /\ fp' = [fp EXCEPT ![c] = ppg]
               /\ pc' = [pc EXCEPT ![c] = "pgfree"]
               /\ UNCHANGED <<fl, pga, pool, npool, panicked, req, ci, pg, fa, held>>

\* After a panic the machine stops.
Halted == panicked /\ UNCHANGED vars

Next ==
    \/ \E c \in CPU :
        \/ NewpagePool(c)
        \/ \E r \in ReqClasses : NewpgStart(c, r)
        \/ ScanHit(c) \/ ScanMiss(c)
        \/ SplitBundle(c) \/ SplitLarge(c) \/ LinkU(c) \/ Take(c) \/ NewpgDone(c)
        \/ \E p \in Pages : Free(c, p) \/ Share(c, p)
        \/ Put(c) \/ Pgfree(c) \/ JoinChk(c) \/ Join(c)
    \/ Halted

Spec == Init /\ [][Next]_vars

-----------------------------------------------------------------------------
TypeOK ==
    /\ fl.next \in [Pages -> Pages \cup {Nil}]
    /\ fl.prev \in [Pages -> Pages \cup {Nil}]
    /\ fl.head \in [Allocs -> Pages \cup {Nil}]
    /\ fl.nfree \in [Allocs -> Int]
    /\ ref \in [Pages -> Int]
    /\ pga \in [Pages -> Allocs]
    /\ parent \in [Allocs -> Pages \cup {Nil}]
    /\ classlist \in [Classes -> Seq(Allocs)]
    /\ pool \in [CPU -> Pages \cup {Nil}] /\ npool \in [CPU -> 0..PoolMax]
    /\ pc \in [CPU -> PCs] /\ req \in [CPU -> Classes] /\ ci \in [CPU -> Classes]
    /\ pg \in [CPU -> Pages \cup {Nil}] /\ fp \in [CPU -> Pages \cup {Nil}]
    /\ fa \in [CPU -> Allocs] /\ held \in [CPU -> SUBSET Pages]

\* The list reached from a head through next links, cut after one lap.
RECURSIVE Walk(_, _, _)
Walk(nx, p, fuel) == IF p = Nil \/ fuel = 0 THEN <<>>
                     ELSE <<p>> \o Walk(nx, nx[p], fuel - 1)
FreeList(a) == Walk(fl.next, fl.head[a], Cardinality(Pages) + 1)
PoolList(c) == Walk(fl.next, pool[c], Cardinality(Pages) + 1)
Linked == {a \in Allocs : \E i \in Classes : a \in ToSet(classlist[i])}

\* The frames a claim on page p at class k stands for.
Cover(p, k) == CASE k = 0 -> {<<p[1], j>> : j \in 1..NInner}
                 [] k = 1 -> {<<p[1], j>> : j \in p[2]..p[2] + BSZ - 1}
                 [] k = 2 -> {p}

\* Every way memory is owned, one set of <<page, class>> claims per kind of
\* owner: referenced by CPUs, in a CPU's hands inside newpg or pgfree, in a
\* selfish pool, or on the free list of a linked allocator.
HeldClaims == {<<p, Class(pga[p])>> : p \in UNION {held[c] : c \in CPU}}
CpuClaims(c) ==
    IF pc[c] = "split" /\ pg[c] # Nil THEN {<<pg[c], Class(pga[pg[c]])>>}
    ELSE IF pc[c] \in {"put", "pgfree"} THEN {<<fp[c], Class(pga[fp[c]])>>}
    ELSE {}
PoolClaims(c) == {<<p, 1>> : p \in ToSet(PoolList(c))}
FreeClaims(a) == {<<p, Class(a)>> : p \in ToSet(FreeList(a))}
NOwners(f) ==
    LET n(S) == Cardinality({cl \in S : f \in Cover(cl[1], cl[2])})
    IN  n(HeldClaims)
        + MapThenSumSet(LAMBDA c : n(CpuClaims(c)) + n(PoolClaims(c)), CPU)
        + MapThenSumSet(LAMBDA a : n(FreeClaims(a)), Linked)
Quiescent == \A c \in CPU : pc[c] = "idle"

\* Spec 8.1: every linked allocator's nfree is the length of its free list,
\* and every page on it is unreferenced, back-links to that allocator and
\* has a consistent prev link.  Concurrent newpg/pgfree/joinbundle steps on
\* the same lists are what could break it.
FreeListsConsistent ==
    \A a \in Linked :
        LET l == FreeList(a) IN
        /\ Len(l) = fl.nfree[a]
        /\ \A i \in 1..Len(l) :
              /\ pga[l[i]] = a /\ ref[l[i]] = 0
              /\ fl.prev[l[i]] = IF i = 1 THEN Nil ELSE l[i - 1]

\* No frame of memory is owned twice: a page handed out by newpg/newpage
\* never overlaps a page that is free or handed out to someone else, across
\* splits of large pages, splitbundle/joinbundle and joins of parent pages.
NoDoubleAlloc == \A f \in Frames : NOwners(f) <= 1

\* When no CPU is inside the allocator, every frame is owned by something:
\* a free, split or joined page never gets lost.
NoLeak == Quiescent => \A f \in Frames : NOwners(f) > 0

\* Spec 8 round trip: with joinpages, once every page handed out has been
\* put back (and the pools are empty) the allocator is in its initial
\* state: every large page is free again and no split remains.
RoundTrip ==
    (Quiescent /\ \A c \in CPU : held[c] = {} /\ pool[c] = Nil)
        => /\ fl.nfree[Top] = NBig
           /\ classlist[1] = <<>> /\ classlist[2] = <<>>
====
