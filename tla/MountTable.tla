----------------------------- MODULE MountTable -----------------------------
(***************************************************************************)
(* The name space of port/mnt.c: a prefix tree of Mount entries from      *)
(* pgrp->mnt ("/"), each with a union list um of Mounted entries that     *)
(* hold either a Chan mounted there (to) or the Mount of a longer prefix  *)
(* (child).  cmount and cunmount (chan.c) change it holding the pgrp->ns  *)
(* write lock and take each Mount's write lock around the list updates;   *)
(* mntlookup walks it holding the ns read lock.  A union Chan keeps a     *)
(* reference to its Mount (c->mnt) and createdir reads that Mount's list  *)
(* later, under the Mount's read lock only.                               *)
(*                                                                         *)
(* Data abstraction: a Chan is the device it was attached from and the    *)
(* names walked from there; every mounted Chan is a directory and a walk  *)
(* of a Chan may find the names or not.  Mount and Mounted structures are *)
(* numbered from pools so that freed ones can be told apart and reused.   *)
(***************************************************************************)
EXTENDS Integers, Sequences, SequencesExt, FiniteSets

CONSTANTS
    Procs,      \* processes sharing one Pgrp
    Names,      \* path elements
    Devs,       \* devices whose roots are bound into the name space
    Slash,      \* the device of up->slash, the initial "/"
    NMount,     \* bound: Mount structures (Mount 1 is pgrp->mnt)
    NEl,        \* bound: Mounted structures
    MaxLen,     \* bound: elements of a path
    Orders,     \* the MORDER values cmount is called with
    UnTo,       \* the Chans cunmount is called with (Nil: unmount all)
    Nil

Root == 1
MountIds == 1..NMount
ElIds == 1..NEl
Paths == UNION {[1..n -> Names] : n \in 0..MaxLen}
Chan(d, w) == [dev |-> d, rel |-> w]
Binds == {Chan(d, <<>>) : d \in Devs}

VARIABLES
    mnt,      \* the allocated Mounts
    mref,     \* mref[m]: m->ref
    mparent,  \* mparent[m]: m->parent
    melem,    \* melem[m]: m->elem
    ismount,  \* ismount[m]: m->ismount
    um,       \* um[m]: the union list m->um
    el,       \* the allocated Mounteds
    eto,      \* eto[e]: e->to, a Chan, or Nil
    echild,   \* echild[e]: e->child, or Nil
    ecreate,  \* ecreate[e]: MCREATE in e->flags
    rd,       \* rd[m]: the processes holding rlock(m)
    nsw,      \* the process holding wlock(&pgrp->ns), or Nil
    synced,   \* the table is as it was when pgrp->vers was last bumped
    pc,       \* where each process is
    arg,      \* arg[p]: the path, Chan, order and MCREATE of cmount/cunmount
    cur,      \* cur[p]: the Mount p's operation is at
    idx,      \* idx[p]: path elements walked so far
    hd,       \* hd[p]: createdir's union Mount (nc->mnt)
    at,       \* at[p]: the Mounted createdir looks at
    panicked  \* mntlookup found no mount table

vars == <<mnt, mref, mparent, melem, ismount, um, el, eto, echild, ecreate,
          rd, nsw, synced, pc, arg, cur, idx, hd, at, panicked>>

\* The tree, as one value, for the operators that change it.
T == [mnt |-> mnt, mref |-> mref, ismount |-> ismount, um |-> um, el |-> el]
SetT(t) == /\ mnt' = t.mnt /\ mref' = t.mref /\ ismount' = t.ismount
           /\ um' = t.um /\ el' = t.el

Kids(t, m) == {echild[e] : e \in ToSet(t.um[m])} \ {Nil}
ChanEls(m) == {e \in ToSet(um[m]) : eto[e] # Nil}

\* The Mounts that putum of the Mounts in M frees: children whose last
\* reference it drops, and theirs.
RECURSIVE Doomed(_, _)
Doomed(t, M) ==
    LET d == {k \in UNION {Kids(t, m) : m \in M} : t.mref[k] = 1}
    IN  IF d = {} THEN {} ELSE d \cup Doomed(t, d)

\* putum of every Mount in M: each list is emptied, its Chans closed and
\* its children mntclosed, recursively.
RelUm(t, M) ==
    LET fr == Doomed(t, M)
        all == M \cup fr
        dec == UNION {Kids(t, x) : x \in all} \ fr
    IN [t EXCEPT
          !.mnt = @ \ fr,
          !.el = @ \ UNION {ToSet(t.um[x]) : x \in all},
          !.mref = [x \in MountIds |-> IF x \in fr THEN 0
                                       ELSE IF x \in dec THEN t.mref[x] - 1
                                       ELSE t.mref[x]],
          !.um = [x \in MountIds |-> IF x \in all THEN <<>> ELSE t.um[x]],
          !.ismount = [x \in MountIds |-> IF x \in all THEN 0 ELSE t.ismount[x]]]

Putum(t, m) == RelUm(t, {m})

\* Mutant: decref's result is tested against 1, so a Mount is freed while
\* another reference to it is still held.
MntCloseOff(t, m) ==
    IF t.mref[m] <= 2
    THEN [Putum(t, m) EXCEPT !.mnt = @ \ {m}, !.mref[m] = 0]
    ELSE [t EXCEPT !.mref[m] = @ - 1]

\* mntclose: drop a reference; the last one frees the Mount and its list.
MntClose(t, m) ==
    IF t.mref[m] = 1
    THEN [Putum(t, m) EXCEPT !.mnt = @ \ {m}, !.mref[m] = 0]
    ELSE [t EXCEPT !.mref[m] = @ - 1]

\* Mutant: the unmount's unlink decrements ismount for a child entry too.
UnlinkAnyDec(t, pa, k) ==
    [t EXCEPT !.um[pa] = RemoveAt(@, k), !.el = @ \ {t.um[pa][k]},
              !.ismount[pa] = @ - 1]

\* The collecting unmount's unlink of entry k of pa's list: ismount counts
\* it only if it holds a Chan.
Unlink(t, pa, k) ==
    [t EXCEPT !.um[pa] = RemoveAt(@, k), !.el = @ \ {t.um[pa][k]},
              !.ismount[pa] = @ - (IF eto[t.um[pa][k]] # Nil THEN 1 ELSE 0)]

\* eqchan(a, b, 1): the same file (qid.path) of the same driver (a->dev;
\* a Chan's dev is its driver, and the model has one attach per driver).
EqChan(a, b) == a.rel = b.rel /\ a.dev = b.dev


\* The position in m's list of the child Mount named x, or 0.
ChildIdx(m, x) ==
    SelectInSeq(um[m], LAMBDA e : echild[e] # Nil /\ melem[echild[e]] = x)

\* mntwalk with ismount set and no Chan: follow the children named by the
\* path from m; <<the last Mount reached, the elements matched>>.
RECURSIVE MntWalk(_, _, _)
MntWalk(m, p, i) ==
    LET k == IF i < Len(p) THEN ChildIdx(m, p[i + 1]) ELSE 0
    IN  IF k = 0 THEN <<m, i>> ELSE MntWalk(echild[um[m][k]], p, i + 1)

\* The names from Mount pm down to its descendant m (initunion's w).
RECURSIVE RelPath(_, _)
RelPath(m, pm) ==
    IF m = pm THEN <<>> ELSE RelPath(mparent[m], pm) \o <<melem[m]>>

\* initunion's search: the nearest ancestor of m with a Chan mounted.
RECURSIVE MountedAbove(_)
MountedAbove(m) ==
    IF m = Nil THEN Nil ELSE IF ismount[m] > 0 THEN m ELSE MountedAbove(mparent[m])

\* The first n free Mounted structures.
FreeEls(n) == SubSeq(SetToSortSeq(ElIds \ el, <), 1, n)

Init ==
    /\ mnt = {Root}
    /\ mref = [m \in MountIds |-> IF m = Root THEN 1 ELSE 0]
    /\ mparent = [m \in MountIds |-> Nil]
    /\ melem = [m \in MountIds |-> IF m = Root THEN "/" ELSE Nil]
    /\ ismount = [m \in MountIds |-> IF m = Root THEN 1 ELSE 0]
    /\ um = [m \in MountIds |-> IF m = Root THEN <<1>> ELSE <<>>]
    /\ el = {1}
    /\ eto = [e \in ElIds |-> IF e = 1 THEN Chan(Slash, <<>>) ELSE Nil]
    /\ echild = [e \in ElIds |-> Nil]
    /\ ecreate = [e \in ElIds |-> FALSE]
    /\ rd = [m \in MountIds |-> {}]
    /\ nsw = Nil /\ synced = TRUE
    /\ pc = [p \in Procs |-> "idle"]
    /\ arg = [p \in Procs |-> [path |-> <<>>, to |-> Nil, ord |-> "before",
                                crt |-> FALSE]]
    /\ cur = [p \in Procs |-> Root] /\ idx = [p \in Procs |-> 0]
    /\ hd = [p \in Procs |-> Nil] /\ at = [p \in Procs |-> Nil]
    /\ panicked = FALSE

-----------------------------------------------------------------------------
(* cmount/mntmount                                                         *)

\* The process's operation is over: pc back to idle.
Done(p) == pc' = [pc EXCEPT ![p] = "idle"]

\* Bound: the pools hold what a cmount at the end of walk w may allocate
\* (the missing Mounts with their entries, the new entry and initunion's
\* copies); smalloc itself never fails.
Room(w, path) ==
    LET pm == MountedAbove(w[1])
        n == Len(path) - w[2]
    IN /\ Cardinality(MountIds \ mnt) >= n
       /\ Cardinality(ElIds \ el) >= n + 1 + (IF pm = Nil THEN 0 ELSE Cardinality(ChanEls(pm)))

\* cmount(new, old, flag): wlock(&pgrp->ns) and mntwalk to the longest
\* prefix of old's path that has a Mount.
Cmount(p, path, to, ord, crt) ==
    /\ pc[p] = "idle" /\ nsw = Nil
    /\ Room(MntWalk(Root, path, 0), path)
    /\ LET w == MntWalk(Root, path, 0) IN
       /\ cur' = [cur EXCEPT ![p] = w[1]]
       /\ idx' = [idx EXCEPT ![p] = w[2]]
       /\ pc' = [pc EXCEPT ![p] = IF w[2] < Len(path) THEN "cm_child" ELSE "cm_new"]
    /\ nsw' = p
    /\ arg' = [arg EXCEPT ![p] = [path |-> path, to |-> to, ord |-> ord, crt |-> crt]]
    /\ UNCHANGED <<mnt, mref, mparent, melem, ismount, um, el, eto, echild,
                   ecreate, rd, synced, hd, at, panicked>>

\* One element of the path not yet in the table: newmnt, newmntel with
\* the cmount flags, and addmntel at the head of the list under wlock.
CmChild(p) ==
    /\ pc[p] = "cm_child" /\ rd[cur[p]] = {}
    /\ MountIds \ mnt # {} /\ ElIds \ el # {}
    /\ LET m == cur[p]
           nm == Min(MountIds \ mnt)
           ne == Min(ElIds \ el)
           i == idx[p] + 1
       IN /\ mnt' = mnt \cup {nm} /\ el' = el \cup {ne}
          /\ mref' = [mref EXCEPT ![nm] = 1]
          /\ melem' = [melem EXCEPT ![nm] = arg[p].path[i]]
          /\ mparent' = [mparent EXCEPT ![nm] = m]
          /\ um' = [um EXCEPT ![nm] = <<>>, ![m] = <<ne>> \o @]
          /\ ismount' = [ismount EXCEPT ![nm] = 0]
          /\ eto' = [eto EXCEPT ![ne] = Nil]
          /\ echild' = [echild EXCEPT ![ne] = nm]
          /\ ecreate' = [ecreate EXCEPT ![ne] = arg[p].crt]
          /\ cur' = [cur EXCEPT ![p] = nm]
          /\ idx' = [idx EXCEPT ![p] = i]
          /\ pc' = [pc EXCEPT ![p] = IF i < Len(arg[p].path) THEN "cm_child" ELSE "cm_new"]
    /\ synced' = FALSE
    /\ UNCHANGED <<rd, nsw, arg, hd, at, panicked>>

\* The new entry: MREPL empties the list with putum, which takes no wlock
\* of the Mount; before or after at a Mount with no Chan, initunion.
CmNew(p) ==
    /\ pc[p] = "cm_new"
    /\ IF arg[p].ord = "repl"
       THEN /\ SetT(Putum(T, cur[p]))
            /\ synced' = FALSE
            /\ pc' = [pc EXCEPT ![p] = "cm_add"]
       ELSE /\ pc' = [pc EXCEPT ![p] = IF ismount[cur[p]] = 0 THEN "cm_init" ELSE "cm_add"]
            /\ UNCHANGED <<mnt, mref, ismount, um, el, synced>>
    /\ UNCHANGED <<mparent, melem, eto, echild, ecreate, rd, nsw, arg, cur, idx,
                   hd, at, panicked>>

\* Mutant: initunion counts every Chan it duplicated, dropped ones too.
CmInitCountAll(p) ==
    /\ pc[p] = "cm_init"
    /\ LET m == cur[p]
           pm == MountedAbove(m)
           w == RelPath(m, pm)
       IN IF pm = Nil
          THEN UNCHANGED <<mnt, mref, ismount, um, el, eto, echild, ecreate, synced>>
          ELSE \E ok \in SUBSET ChanEls(pm) :
               LET src == SelectSeq(um[pm], LAMBDA e : e \in ok)
                   new == FreeEls(Len(src))
               IN /\ rd[m] = {} /\ Cardinality(ElIds \ el) >= Len(src)
                  /\ el' = el \cup ToSet(new)
                  /\ um' = [um EXCEPT ![m] = @ \o new]
                  /\ ismount' = [ismount EXCEPT ![m] = @ + Cardinality(ChanEls(pm))]
                  /\ eto' = [e \in ElIds |->
                               IF \E j \in DOMAIN new : new[j] = e
                               THEN LET j == CHOOSE j \in DOMAIN new : new[j] = e
                                    IN Chan(eto[src[j]].dev, eto[src[j]].rel \o w)
                               ELSE eto[e]]
                  /\ echild' = [e \in ElIds |-> IF e \in ToSet(new) THEN Nil ELSE echild[e]]
                  /\ ecreate' = [e \in ElIds |->
                                   IF \E j \in DOMAIN new : new[j] = e
                                   THEN ecreate[src[CHOOSE j \in DOMAIN new : new[j] = e]]
                                   ELSE ecreate[e]]
                  /\ synced' = FALSE
                  /\ UNCHANGED <<mnt, mref>>
    /\ pc' = [pc EXCEPT ![p] = "cm_add"]
    /\ UNCHANGED <<mparent, melem, rd, nsw, arg, cur, idx, hd, at, panicked>>

\* initunion: the Chans of the nearest ancestor with Chans mounted, each
\* walked to this Mount's path, are appended under wlock; a Chan whose
\* walk fails is dropped.
CmInit(p) ==
    /\ pc[p] = "cm_init"
    /\ LET m == cur[p]
           pm == MountedAbove(m)
           w == RelPath(m, pm)
       IN IF pm = Nil
          THEN UNCHANGED <<mnt, mref, ismount, um, el, eto, echild, ecreate, synced>>
          ELSE \E ok \in SUBSET ChanEls(pm) :
               LET src == SelectSeq(um[pm], LAMBDA e : e \in ok)
                   new == FreeEls(Len(src))
               IN /\ rd[m] = {} /\ Cardinality(ElIds \ el) >= Len(src)
                  /\ el' = el \cup ToSet(new)
                  /\ um' = [um EXCEPT ![m] = @ \o new]
                  /\ ismount' = [ismount EXCEPT ![m] = @ + Len(src)]
                  /\ eto' = [e \in ElIds |->
                               IF \E j \in DOMAIN new : new[j] = e
                               THEN LET j == CHOOSE j \in DOMAIN new : new[j] = e
                                    IN Chan(eto[src[j]].dev, eto[src[j]].rel \o w)
                               ELSE eto[e]]
                  /\ echild' = [e \in ElIds |-> IF e \in ToSet(new) THEN Nil ELSE echild[e]]
                  /\ ecreate' = [e \in ElIds |->
                                   IF \E j \in DOMAIN new : new[j] = e
                                   THEN ecreate[src[CHOOSE j \in DOMAIN new : new[j] = e]]
                                   ELSE ecreate[e]]
                  /\ synced' = FALSE
                  /\ UNCHANGED <<mnt, mref>>
    /\ pc' = [pc EXCEPT ![p] = "cm_add"]
    /\ UNCHANGED <<mparent, melem, rd, nsw, arg, cur, idx, hd, at, panicked>>

\* addmntel of the new Chan under wlock, at the head (MBEFORE, MREPL) or
\* the tail (MAFTER); then pgrp->vers++ and wunlock(&pgrp->ns).
CmAdd(p) ==
    /\ pc[p] = "cm_add" /\ rd[cur[p]] = {} /\ ElIds \ el # {}
    /\ LET m == cur[p]
           ne == Min(ElIds \ el)
       IN /\ el' = el \cup {ne}
          /\ eto' = [eto EXCEPT ![ne] = arg[p].to]
          /\ echild' = [echild EXCEPT ![ne] = Nil]
          /\ ecreate' = [ecreate EXCEPT ![ne] = arg[p].crt]
          /\ um' = [um EXCEPT ![m] = IF arg[p].ord = "after" THEN @ \o <<ne>>
                                     ELSE <<ne>> \o @]
          /\ ismount' = [ismount EXCEPT ![m] = @ + 1]
    /\ nsw' = Nil /\ synced' = TRUE /\ Done(p)
    /\ UNCHANGED <<mnt, mref, mparent, melem, rd, arg, cur, idx, hd, at, panicked>>

-----------------------------------------------------------------------------
(* cunmount/mntunmount                                                     *)

\* cunmount(mnt, mounted): wlock(&pgrp->ns) and mntwalk; a path that is
\* not all in the table (Eunmountslash), a Mount with no Chan (Eunmount)
\* or a Chan not mounted there (Eunmount) is an error before any change.
Cunmount(p, path, to) ==
    /\ pc[p] = "idle" /\ nsw = Nil
    /\ LET w == MntWalk(Root, path, 0)
           m == w[1]
       IN /\ w[2] = Len(path) /\ ismount[m] > 0
          /\ to # Nil => \E e \in ChanEls(m) : EqChan(eto[e], to)
          /\ cur' = [cur EXCEPT ![p] = m]
          /\ pc' = [pc EXCEPT ![p] = IF to # Nil THEN "cu_rm" ELSE "cu_up"]
    /\ nsw' = p
    /\ arg' = [arg EXCEPT ![p] = [path |-> path, to |-> to, ord |-> "before", crt |-> FALSE]]
    /\ UNCHANGED <<mnt, mref, mparent, melem, ismount, um, el, eto, echild,
                   ecreate, rd, synced, idx, hd, at, panicked>>

\* Under wlock, the first entry holding the Chan (eqchan) is unlinked and
\* closed; a Mount with entries left ends the unmount (vers++), an empty
\* one is collected.
CuRm(p) ==
    /\ pc[p] = "cu_rm" /\ rd[cur[p]] = {}
    /\ LET m == cur[p]
           k == SelectInSeq(um[m], LAMBDA e : eto[e] # Nil /\ EqChan(eto[e], arg[p].to))
       IN /\ um' = [um EXCEPT ![m] = RemoveAt(@, k)]
          /\ el' = el \ {um[m][k]}
          /\ ismount' = [ismount EXCEPT ![m] = @ - 1]
          /\ IF Len(um[m]) > 1
             THEN nsw' = Nil /\ synced' = TRUE /\ Done(p)
             ELSE synced' = FALSE /\ pc' = [pc EXCEPT ![p] = "cu_up"] /\ UNCHANGED nsw
    /\ UNCHANGED <<mnt, mref, mparent, melem, eto, echild, ecreate, rd, arg,
                   cur, idx, hd, at, panicked>>

\* The collecting loop: the Mount is unlinked from its parent's list under
\* the parent's wlock and mntclosed; an empty parent that is not "/" is
\* collected next.  At "/" (no parent) the unmount fails with
\* Eunmountslash, after whatever was already removed.
CuUp(p) ==
    /\ pc[p] = "cu_up"
    /\ LET m == cur[p]
           pa == mparent[m]
       IN IF pa = Nil
          THEN /\ nsw' = Nil /\ Done(p)
               /\ UNCHANGED <<mnt, mref, mparent, ismount, um, el, synced, cur>>
          ELSE LET k == SelectInSeq(um[pa], LAMBDA e : echild[e] = m)
                   t1 == Unlink(T, pa, k)
                   t2 == MntClose(t1, m)
                   last == t2.um[pa] # <<>> \/ mparent[pa] = Nil
               IN /\ rd[pa] = {}
                  /\ SetT(t2)
                  /\ mparent' = [mparent EXCEPT ![m] = Nil]
                  /\ IF last
                     THEN nsw' = Nil /\ synced' = TRUE /\ Done(p) /\ UNCHANGED cur
                     ELSE /\ synced' = FALSE /\ cur' = [cur EXCEPT ![p] = pa]
                          /\ UNCHANGED <<nsw, pc>>
    /\ UNCHANGED <<melem, eto, echild, ecreate, rd, arg, idx, hd, at, panicked>>

-----------------------------------------------------------------------------
(* mntlookup and createdir                                                 *)

\* mntwalk with a Chan to resolve into (mntlookup): at each Mount the list
\* is scanned for the child named by the next element.  A Chan met before
\* a child in a union is walked by its device for the rest of the path:
\* found in full it resolves the path (no union Mount); found in part it
\* ends the walk; not found the scan goes on.  The outcomes are the set
\* of <<Mount the rest is walked from (mp), elements resolved (nres)>>,
\* with <<Nil, n>> for a path the Chan resolved.
RECURSIVE LookWalk(_, _, _, _, _, _)
LookWalk(m, path, i, mp, r, k) ==
    IF i >= Len(path) \/ k > Len(um[m]) THEN {<<mp, r>>}
    ELSE LET e == um[m][k]
             c == echild[e]
         IN IF c # Nil
            THEN IF melem[c] = path[i + 1]
                 THEN IF ismount[c] > 0 THEN LookWalk(c, path, i + 1, c, i + 1, 1)
                      ELSE LookWalk(c, path, i + 1, mp, r, 1)
                 ELSE LookWalk(m, path, i, mp, r, k + 1)
            ELSE IF \E j \in k + 1..Len(um[m]) : echild[um[m][j]] # Nil
                 THEN {<<Nil, Len(path)>>}
                      \cup (IF Len(path) - i >= 2 THEN {<<mp, r>>} ELSE {})
                      \cup LookWalk(m, path, i, mp, r, k + 1)
                 ELSE LookWalk(m, path, i, mp, r, k + 1)

\* namec(Acreate) of a file in the directory path: mntlookup under
\* rlock(&pgrp->ns) panics with no root union; a directory resolved in
\* full at a union Mount mp gives a Chan with c->mnt = mp (incref) from
\* mp's first Chan.  Other outcomes give a Chan with no union Mount, on
\* which createdir does nothing, or an error: those steps change nothing.
Lookup(p, path) ==
    /\ pc[p] = "idle" /\ nsw = Nil /\ ~panicked
    /\ IF um[Root] = <<>>
       THEN panicked' = TRUE /\ UNCHANGED <<mref, pc, hd>>
       ELSE \E o \in LookWalk(Root, path, 0, Root, 0, 1) :
               LET mp == o[1] IN
               /\ mp # Nil /\ o[2] = Len(path)
               /\ Len(um[mp]) >= 2 /\ ChanEls(mp) # {}
               /\ mref' = [mref EXCEPT ![mp] = @ + 1]
               /\ hd' = [hd EXCEPT ![p] = mp]
               /\ pc' = [pc EXCEPT ![p] = "cd_lock"]
               /\ UNCHANGED panicked
    /\ UNCHANGED <<mnt, mparent, melem, ismount, um, el, eto, echild, ecreate,
                   rd, nsw, synced, arg, cur, idx, at>>

\* createdir: rlock(mnt) and m = mnt->um.
CdLock(p) ==
    /\ pc[p] = "cd_lock"
    /\ LET m == hd[p] IN
       /\ rd' = [rd EXCEPT ![m] = @ \cup {p}]
       /\ at' = [at EXCEPT ![p] = IF um[m] = <<>> THEN Nil ELSE Head(um[m])]
    /\ pc' = [pc EXCEPT ![p] = "cd_scan"]
    /\ UNCHANGED <<mnt, mref, mparent, melem, ismount, um, el, eto, echild,
                   ecreate, nsw, synced, arg, cur, idx, hd, panicked>>

\* One entry of the scan: a Chan mounted with MCREATE is where the file is
\* created; else m = m->next.  At the end of the list, Enocreate.  Either
\* way runlock(mnt), and the Chan is closed after the create, with a
\* mntclose of mnt.  (An entry freed under the reader is read as the end.)
CdScan(p) ==
    /\ pc[p] = "cd_scan"
    /\ LET m == hd[p]
           e == at[p]
           k == IF e = Nil THEN 0 ELSE SelectInSeq(um[m], LAMBDA x : x = e)
       IN IF e # Nil /\ e \in el /\ ~(eto[e] # Nil /\ ecreate[e]) /\ k > 0
          THEN /\ at' = [at EXCEPT ![p] = IF k < Len(um[m]) THEN um[m][k + 1] ELSE Nil]
               /\ UNCHANGED <<mnt, mref, ismount, um, el, rd, pc, hd>>
          ELSE /\ rd' = [rd EXCEPT ![m] = @ \ {p}]
               /\ SetT(MntClose(T, m))
               /\ hd' = [hd EXCEPT ![p] = Nil] /\ at' = [at EXCEPT ![p] = Nil]
               /\ Done(p)
    /\ UNCHANGED <<mparent, melem, eto, echild, ecreate, nsw, synced, arg, cur,
                   idx, panicked>>

Next ==
    \E p \in Procs :
        \/ \E path \in Paths :
              \/ \E to \in Binds, ord \in Orders, crt \in BOOLEAN :
                    Cmount(p, path, to, ord, crt)
              \/ \E to \in UnTo : Cunmount(p, path, to)
              \/ Lookup(p, path)
        \/ CmChild(p) \/ CmNew(p) \/ CmInit(p) \/ CmAdd(p)
        \/ CuRm(p) \/ CuUp(p) \/ CdLock(p) \/ CdScan(p)

Spec == Init /\ [][Next]_vars

-----------------------------------------------------------------------------
TypeOK ==
    /\ mnt \subseteq MountIds /\ el \subseteq ElIds
    /\ mref \in [MountIds -> Nat] /\ ismount \in [MountIds -> Nat]
    /\ um \in [MountIds -> Seq(ElIds)]
    /\ eto \in [ElIds -> {Chan(d, w) : d \in Devs \cup {Slash}, w \in Paths} \cup {Nil}]
    /\ echild \in [ElIds -> MountIds \cup {Nil}]
    /\ rd \in [MountIds -> SUBSET Procs] /\ nsw \in Procs \cup {Nil}
    /\ hd \in [Procs -> MountIds \cup {Nil}] /\ at \in [Procs -> ElIds \cup {Nil}]

\* The Mounteds in the lists of allocated Mounts.
Linked == UNION {ToSet(um[m]) : m \in mnt}

\* The tree stays a tree through mntmount, initunion, putum and the
\* collecting unmount: every allocated Mounted is in exactly one list,
\* once; a child's parent is the Mount whose list holds it; the children
\* of a Mount have distinct names; and ismount counts the Chans.
TreeConsistent ==
    /\ el = Linked
    /\ \A m \in mnt : Len(um[m]) = Cardinality(ToSet(um[m]))
    /\ \A m, n \in mnt : m # n => ToSet(um[m]) \cap ToSet(um[n]) = {}
    /\ \A m \in mnt : ismount[m] = Cardinality(ChanEls(m))
    /\ \A m \in mnt : \A e \in ToSet(um[m]) :
          echild[e] # Nil => echild[e] \in mnt /\ mparent[echild[e]] = m
    /\ \A m \in mnt : \A e, f \in ToSet(um[m]) :
          e # f /\ echild[e] # Nil /\ echild[f] # Nil
             => melem[echild[e]] # melem[echild[f]]

\* A Mount's ref counts its holders: pgrp->mnt for "/", the entry of its
\* parent's list, and each union Chan (c->mnt) of a createdir; a Mount no
\* one holds has been freed, so unmount, putum and the close of a union
\* Chan neither leak a Mount nor free one in use.
MountRefs ==
    \A m \in MountIds :
        (m \in mnt) <=>
           (mref[m] > 0
            /\ mref[m] = (IF m = Root THEN 1 ELSE 0)
                         + Cardinality({e \in Linked : echild[e] = m})
                         + Cardinality({p \in Procs : hd[p] = m}))

\* createdir holds rlock on its union Mount, so no step of another process
\* frees the entry of mnt->um it is looking at.
NoUseAfterFree ==
    [][\A p \in Procs :
         (pc[p] = "cd_scan" /\ pc'[p] = "cd_scan" /\ at[p] # Nil) => at[p] \in el']_vars

\* Whenever no cmount or cunmount is in progress, the table is the one
\* pgrp->vers was last bumped for, so a Chan whose nsvers equals vers
\* (updatedot) was resolved in the current name space.
VersSynced == nsw = Nil => synced

\* mntlookup never finds "/" without entries ("namec: no mnt or um").
NoPanic == ~panicked

\* The state as far as any action reads it: the fields of freed Mounts and
\* Mounteds, and the locals of an idle process, are never read again.
LiveView ==
    <<mnt, [m \in mnt |-> <<mref[m], mparent[m], melem[m], ismount[m], um[m]>>],
      [e \in el |-> <<eto[e], echild[e], ecreate[e]>>], rd, nsw, synced, pc,
      [p \in Procs |-> IF pc[p] = "idle" THEN Nil
                       ELSE <<arg[p], cur[p], idx[p], hd[p], at[p]>>],
      panicked>>

====
