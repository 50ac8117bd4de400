------------------------------- MODULE MntRpc -------------------------------
(***************************************************************************)
(* The RPC multiplexer of port/devmnt.c for one mount (one Mnt): the Mntrpc *)
(* headers and their free list (mntralloc, mntfree), the tag bitmap        *)
(* (alloctag), the queue of pending requests (mountrpcreq, mntqrm), the    *)
(* reader gate that lets one process at a time read replies for everybody *)
(* (mountrpcrep, mntgate, rpcattn) and hand them out by tag (mountmux),    *)
(* and the interrupt path that flushes an abandoned request (mntabort,     *)
(* mntflushalloc).  Each process issues single-request operations the way *)
(* mntrdwr, mntclunk and mntwstat do: mntralloc, mountrpcreq, mountrpcrep, *)
(* mntfree, with mntabort when mountrpcrep raises an error.                *)
(*                                                                         *)
(* The file server at the other end of the connection is the environment: *)
(* it reads T-messages in order, answers them in any order (Rread or       *)
(* Rerror) and answers a Tflush, after discarding the request it names if  *)
(* that is still pending, with an Rflush (the 9P protocol).  Every request *)
(* written carries a fresh id that its answer repeats; the id is not in    *)
(* the 9P message, it only lets the properties tell answers apart.         *)
(* Notes (postnote) arrive at any time; one pending when a sleep ends     *)
(* makes sleep raise Eintr.                                                *)
(***************************************************************************)
EXTENDS Naturals, Sequences, FiniteSets, SequencesExt, Functions

CONSTANTS
    Procs,     \* processes issuing RPCs on the mount
    Rpcs,      \* Mntrpc headers malloc can return
    NTags,     \* tags 0..NTags-1 (NMASK<<TAGSHIFT in the code); mntreset reserves 0
    NRPCS,     \* headers kept on the free list; 0: unlimited
    MaxOps,    \* bound: operations the processes start, all together
    MaxIntr,   \* bound: notes posted, all together
    SrvErrors, \* the server may answer a Tread with an Rerror
    SrvFifo,   \* the server answers requests in the order it read them
    ConnErrors,\* the write of a request to the connection may fail
    Nil

Tags == 0..(NTags - 1)
TTypes == {"none", "Tread", "Tflush", "poison"}
RTypes == {"none", "Rread", "Rerror", "Rflush", "poison"}
\* A T-message on the wire; id is the model's name for the request.
TMsg == [type : {"Tread", "Tflush"}, tag : Tags, oldtag : Tags, id : Nat]
\* An R-message; id names the request it answers (0: made up locally).
RMsg == [type : RTypes, tag : Tags, id : Nat]

VARIABLES
    queue,     \* mnt->queuehd..queuetl: the pending rpcs, in order
    rip,       \* mnt->rip: the reader in progress
    rpcfree,   \* mntalloc.rpcfreehd..rpcfreetl
    nrpcused,  \* mntalloc.nrpcused
    allocd,    \* headers malloc has handed out and free has not taken back
    tagmask,   \* the tags set in mntalloc.tagmask
    tag,       \* r->request.tag
    owntag,    \* r->owntag
    oldtag,    \* r->request.oldtag
    rtype,     \* r->request.type
    reqid,     \* the id of the request r last wrote
    reply,     \* r->reply: its type and the id of the request it answers
    done,      \* r->done
    rpid,      \* r->pid
    pc,        \* where each process is
    r0,        \* the rpc of the process's operation
    cur,       \* the rpc mountrpcreq/mountrpcrep is working on (r0 or a flush)
    phase,     \* "op": the operation's own rpc; "flush": mntabort's flush
    err,       \* the error mntabort was called with: "intr" (Eintr) or "other"
    note,      \* up->notepending
    tx,        \* the connection towards the server
    pending,   \* requests the server has read and not answered
    rx,        \* the connection back: replies not yet read (mnt->q)
    nid,       \* requests written so far
    ops, notes, crash

poolV  == <<rpcfree, nrpcused, allocd, tagmask>>
rpcV   == <<tag, owntag, oldtag, rtype, reqid, reply, done, rpid>>
procV  == <<pc, r0, cur, phase, err, note>>
srvV   == <<tx, pending, rx, nid>>
vars   == <<queue, rip, poolV, rpcV, procV, srvV, ops, notes, crash>>

NoReply == [type |-> "none", tag |-> 0, id |-> 0]

Init ==
    /\ queue = <<>> /\ rip = Nil
    /\ rpcfree = <<>> /\ nrpcused = 0 /\ allocd = {} /\ tagmask = {0}
    /\ tag = [r \in Rpcs |-> 0] /\ owntag = [r \in Rpcs |-> FALSE]
    /\ oldtag = [r \in Rpcs |-> 0] /\ rtype = [r \in Rpcs |-> "none"]
    /\ reqid = [r \in Rpcs |-> 0] /\ reply = [r \in Rpcs |-> NoReply]
    /\ done = [r \in Rpcs |-> FALSE] /\ rpid = [r \in Rpcs |-> Nil]
    /\ pc = [p \in Procs |-> "idle"]
    /\ r0 = [p \in Procs |-> Nil] /\ cur = [p \in Procs |-> Nil]
    /\ phase = [p \in Procs |-> "op"] /\ err = [p \in Procs |-> "none"]
    /\ note = [p \in Procs |-> FALSE]
    /\ tx = <<>> /\ pending = {} /\ rx = <<>> /\ nid = 0
    /\ ops = 0 /\ notes = 0 /\ crash = "none"

Live == crash = "none"

Panic(why) ==
    /\ crash' = why
    /\ UNCHANGED <<queue, rip, poolV, rpcV, procV, srvV, ops, notes>>

-----------------------------------------------------------------------------
(* The allocator of Mntrpc headers and tags.                               *)

\* alloctag: the lowest clear bit of the tag bitmap.
FreeTags == Tags \ tagmask
alloctag == SelectInSeq([i \in 1..NTags |-> i - 1], LAMBDA t : t \notin tagmask) - 1

\* mntralloc(nil, c, msize, 0): the head of the free list, or a zeroed
\* header from malloc; an rpc that does not own a tag gets a fresh one.
\* The caller passes new == NewRpc and then sets the request's type (and
\* oldtag for a Tflush), which the model does in the same step.
\* Bound: malloc has a header to give (guard of every caller).
CanAlloc == rpcfree # <<>> \/ Rpcs \ allocd # {}
NewRpc == IF rpcfree # <<>> THEN Head(rpcfree)
          ELSE CHOOSE r \in Rpcs \ allocd : TRUE
\* Mutant: the free-list branch decrements nrpcused where the code has
\* mntalloc.nrpcfree--.
MntrallocFreeDecr(new, type, otag) ==
    LET own == IF rpcfree # <<>> THEN owntag[new] ELSE FALSE
        t   == alloctag
    IN /\ ~own => FreeTags # {}
       /\ rpcfree' = IF rpcfree # <<>> THEN Tail(rpcfree) ELSE rpcfree
       /\ allocd' = allocd \cup {new}
       /\ nrpcused' = IF rpcfree # <<>> THEN nrpcused ELSE nrpcused + 1
       /\ owntag' = [owntag EXCEPT ![new] = TRUE]
       /\ tag' = IF own THEN tag ELSE [tag EXCEPT ![new] = t]
       /\ tagmask' = IF own THEN tagmask ELSE tagmask \cup {t}
       /\ done' = [done EXCEPT ![new] = FALSE]
       /\ rtype' = [rtype EXCEPT ![new] = type]
       /\ oldtag' = [oldtag EXCEPT ![new] = otag]
       /\ reply' = [reply EXCEPT ![new] = NoReply]

Mntralloc(new, type, otag) ==
    LET own == IF rpcfree # <<>> THEN owntag[new] ELSE FALSE
        t   == alloctag
    IN /\ ~own => FreeTags # {}
       /\ rpcfree' = IF rpcfree # <<>> THEN Tail(rpcfree) ELSE rpcfree
       /\ allocd' = allocd \cup {new}
       /\ nrpcused' = nrpcused + 1
       /\ owntag' = [owntag EXCEPT ![new] = TRUE]
       /\ tag' = IF own THEN tag ELSE [tag EXCEPT ![new] = t]
       /\ tagmask' = IF own THEN tagmask ELSE tagmask \cup {t}
       /\ done' = [done EXCEPT ![new] = FALSE]
       /\ rtype' = [rtype EXCEPT ![new] = type]
       /\ oldtag' = [oldtag EXCEPT ![new] = otag]
       /\ reply' = [reply EXCEPT ![new] = NoReply]

\* mntfree(r): poison the request and reply types, then keep the header on
\* the free list, or, past NRPCS kept ones, free it and its tag.  The
\* caller checks the panics first (see MntfreePanic).
Mntfree(r) ==
    LET keep == NRPCS = 0 \/ Len(rpcfree) < NRPCS
    IN /\ rpcfree' = IF keep THEN Append(rpcfree, r) ELSE rpcfree
       /\ allocd' = IF keep THEN allocd ELSE allocd \ {r}
       /\ tagmask' = IF keep \/ ~owntag[r] THEN tagmask ELSE tagmask \ {tag[r]}
       /\ nrpcused' = nrpcused - 1
       /\ rtype' = [rtype EXCEPT ![r] = "poison"]
       /\ reply' = [reply EXCEPT ![r] = [@ EXCEPT !.type = "poison"]]

\* mntfree's panics: a double free, or r still linked into the queue to a
\* neighbour (a lone queued rpc has next = prev = nil and passes).
MntfreePanic(r, qu) ==
    \/ rtype[r] = "poison" /\ reply[r].type = "poison"
    \/ r \in ToSet(qu) /\ Len(qu) > 1

-----------------------------------------------------------------------------
(* Waking processes and the reader gate.                                   *)

\* wakeup(&q->r), given the processes' places pcv: the process asleep on
\* q's rendezvous, if any, runs again.
Wake(pcv, q) ==
    [p \in Procs |-> IF pcv[p] = "asleep" /\ cur[p] = q THEN "slept" ELSE pcv[p]]

\* mntgate, with the queue qu: clear rip and wake the process of the first
\* queued rpc that somebody sleeps on (wakeup returns non-nil), only it.
Gate(pcv, qu) ==
    LET i == SelectInSeq(qu, LAMBDA q : \E a \in Procs : pcv[a] = "asleep" /\ cur[a] = q)
    IN IF i = 0 THEN pcv ELSE Wake(pcv, qu[i])

\* rpcattn: the condition a process sleeps on in mountrpcrep.
rpcattn(r) == done[r] \/ rip = Nil

\* An error raised inside mountrpcrep goes to mntabort for the operation's
\* own rpc, and to mntabort's waserror block for a flush.
ErrPc(p) == IF phase[p] = "op" THEN "abort" ELSE "flusherr"
ErrSet(p, e) == IF phase[p] = "op" THEN [err EXCEPT ![p] = e] ELSE err

\* The reply check that ends mountrpcrep: an Rflush is an answer only to a
\* Tflush (else Eintr), any other reply must have type request+1 (else
\* Emountrpc), and an Rerror raises its message.
RepOk(r) == \/ reply[r].type = "Rflush" /\ rtype[r] = "Tflush"
            \/ reply[r].type = "Rread" /\ rtype[r] = "Tread"
RepErr(r) == IF reply[r].type = "Rflush" THEN "intr" ELSE "other"
-----------------------------------------------------------------------------
(* A process's operation: mntralloc, mountrpcreq, mountrpcrep, mntfree.    *)

\* mntrdwring: mntralloc a header for a Tread on the channel.
Start(p) ==
    /\ Live /\ pc[p] = "idle" /\ ops < MaxOps /\ CanAlloc
    /\ LET new == NewRpc IN
        /\ Mntralloc(new, "Tread", 0)
        /\ r0' = [r0 EXCEPT ![p] = new]
        /\ cur' = [cur EXCEPT ![p] = new]
    /\ phase' = [phase EXCEPT ![p] = "op"]
    /\ pc' = [pc EXCEPT ![p] = "enq"]
    /\ ops' = ops + 1
    /\ UNCHANGED <<queue, rip, reqid, rpid, err, note, srvV, notes, crash>>

\* mountrpcreq, under the mount's lock: refuse a double send, then link the
\* rpc at the tail of the queue.
Enq(p) ==
    /\ Live /\ pc[p] = "enq"
    /\ LET r == cur[p] IN
       IF r \in ToSet(queue) THEN Panic("mountrpcreq: double send")
       ELSE /\ queue' = Append(queue, r)
            /\ reply' = [reply EXCEPT ![r] = NoReply]
            /\ rpid' = [rpid EXCEPT ![r] = p]
            /\ pc' = [pc EXCEPT ![p] = "send"]
            /\ UNCHANGED <<rip, poolV, tag, owntag, oldtag, rtype, reqid, done,
                           r0, cur, phase, err, note, srvV, ops, notes, crash>>

\* mountrpcreq, unlocked: convS2M and write the request to the server.
Send(p) ==
    /\ Live /\ pc[p] = "send"
    /\ LET r == cur[p] IN
        /\ tx' = Append(tx, [type |-> rtype[r], tag |-> tag[r],
                             oldtag |-> oldtag[r], id |-> nid + 1])
        /\ reqid' = [reqid EXCEPT ![r] = nid + 1]
    /\ nid' = nid + 1
    /\ pc' = [pc EXCEPT ![p] = "gate"]
    /\ UNCHANGED <<queue, rip, poolV, tag, owntag, oldtag, rtype, reply, done,
                   rpid, r0, cur, phase, err, note, pending, rx, ops, notes, crash>>

\* The write fails (error(Emountrpc)): the handler mntqrm's the rpc, which
\* panics if it is done, and the error goes on to the caller.
SendErr(p) ==
    /\ Live /\ pc[p] = "send" /\ ConnErrors
    /\ LET r == cur[p] IN
       IF done[r] THEN Panic("mntqrm: already done")
       ELSE /\ queue' = Remove(queue, r)
            /\ done' = [done EXCEPT ![r] = TRUE]
            /\ pc' = [pc EXCEPT ![p] = ErrPc(p)]
            /\ err' = ErrSet(p, "other")
            /\ UNCHANGED <<rip, poolV, tag, owntag, oldtag, rtype, reqid, reply, rpid,
                           r0, cur, phase, note, srvV, ops, notes, crash>>

\* mountrpcrep's loop, under the mount's lock: become the reader if there
\* is none.  The test of r->done after the unlock cannot race: only the
\* reader, now p, completes rpcs that are queued.  The read loop runs while
\* the rpc is not done; one done already goes straight to mntgate.
TakeGate(p) ==
    /\ Live /\ pc[p] = "gate" /\ rip = Nil
    /\ rip' = p
    /\ pc' = [pc EXCEPT ![p] = IF done[cur[p]] THEN "rgate" ELSE "read"]
    /\ UNCHANGED <<queue, poolV, rpcV, r0, cur, phase, err, note, srvV, ops, notes, crash>>

\* ... else unlock and sleep(&r->r, rpcattn, r), which returns at once if
\* rpcattn holds or a note is pending, and otherwise commits to sleeping.
WaitGate(p) ==
    /\ Live /\ pc[p] = "gate" /\ rip # Nil
    /\ pc' = [pc EXCEPT ![p] = "sleep"]
    /\ UNCHANGED <<queue, rip, poolV, rpcV, r0, cur, phase, err, note, srvV, ops, notes, crash>>

Sleep(p) ==
    /\ Live /\ pc[p] = "sleep"
    /\ pc' = [pc EXCEPT ![p] = IF rpcattn(cur[p]) \/ note[p] THEN "slept" ELSE "asleep"]
    /\ UNCHANGED <<queue, rip, poolV, rpcV, r0, cur, phase, err, note, srvV, ops, notes, crash>>

\* The end of sleep: a pending note raises Eintr; otherwise a done rpc goes
\* to Done and an undone one round the loop again.
Slept(p) ==
    /\ Live /\ pc[p] = "slept"
    /\ \/ /\ note[p]
          /\ note' = [note EXCEPT ![p] = FALSE]
          /\ pc' = [pc EXCEPT ![p] = ErrPc(p)]
          /\ err' = ErrSet(p, "intr")
       \/ /\ ~note[p]
          /\ pc' = [pc EXCEPT ![p] = IF done[cur[p]] THEN "done" ELSE "gate"]
          /\ UNCHANGED <<err, note>>
    /\ UNCHANGED <<queue, rip, poolV, rpcV, r0, cur, phase, srvV, ops, notes, crash>>

\* The reader: mntrpcread takes the next reply off the connection and
\* mountmux, under the lock, gives it to the first queued rpc with its tag,
\* removes that rpc from the queue (mntqrm) and wakes its process; a reply
\* no rpc waits for is dropped.  Once its own rpc is done the reader leaves
\* the loop for mntgate.  mntrpcread's read of the connection touches only
\* rx, which the server only appends to, so it is taken in the same step
\* as mountmux.
Read(p) ==
    /\ Live /\ pc[p] = "read" /\ rx # <<>>
    /\ LET msg == Head(rx)
           i   == SelectInSeq(queue, LAMBDA q : tag[q] = msg.tag)
           q   == queue[i]
           qu  == IF i = 0 THEN queue ELSE RemoveAt(queue, i)
           dn  == IF i = 0 THEN done ELSE [done EXCEPT ![q] = TRUE]
           pcw == IF i = 0 \/ q = cur[p] THEN pc ELSE Wake(pc, q)
       IN /\ rx' = Tail(rx)
          /\ queue' = qu
          /\ done' = dn
          /\ reply' = IF i = 0 THEN reply ELSE [reply EXCEPT ![q] = msg]
          /\ pc' = IF dn[cur[p]] THEN [pcw EXCEPT ![p] = "rgate"] ELSE pcw
    /\ UNCHANGED <<rip, poolV, tag, owntag, oldtag, rtype, reqid, rpid, r0, cur, phase,
                   err, note, tx, pending, nid, ops, notes, crash>>

\* mntgate after the read loop: under the lock, clear rip and wake one
\* sleeper; then Done.
ReadGate(p) ==
    /\ Live /\ pc[p] = "rgate"
    /\ rip' = Nil
    /\ pc' = [Gate(pc, queue) EXCEPT ![p] = "done"]
    /\ UNCHANGED <<queue, poolV, rpcV, r0, cur, phase, err, note, srvV, ops, notes, crash>>

\* Mutant: the reader's error path leaves its rpc linked in the queue.
ReadIntrNoQrm(p) ==
    /\ Live /\ pc[p] = "read" /\ rx = <<>> /\ note[p]
    /\ done' = [done EXCEPT ![cur[p]] = TRUE]
    /\ rip' = Nil
    /\ pc' = [Gate(pc, queue) EXCEPT ![p] = ErrPc(p)]
    /\ note' = [note EXCEPT ![p] = FALSE]
    /\ err' = ErrSet(p, "intr")
    /\ UNCHANGED <<queue, poolV, tag, owntag, oldtag, rtype, reqid, reply, rpid, r0, cur,
                   phase, srvV, ops, notes, crash>>

\* A note while the reader blocks for input: mntrpcread fails with Eintr;
\* mountrpcrep's handlers take the undone rpc off the queue (mntqrm marks it
\* done) and, the process being the reader, call mntgate.
ReadIntr(p) ==
    /\ Live /\ pc[p] = "read" /\ rx = <<>> /\ note[p]
    /\ LET r == cur[p]
           qu == Remove(queue, r)
       IN /\ queue' = qu
          /\ done' = [done EXCEPT ![r] = TRUE]
          /\ rip' = Nil
          /\ pc' = [Gate(pc, qu) EXCEPT ![p] = ErrPc(p)]
    /\ note' = [note EXCEPT ![p] = FALSE]
    /\ err' = ErrSet(p, "intr")
    /\ UNCHANGED <<poolV, tag, owntag, oldtag, rtype, reqid, reply, rpid, r0, cur,
                   phase, srvV, ops, notes, crash>>

\* Done: the operation's reply passes the check; mntrdwred, then mntfree.
OpReturn(p) ==
    /\ Live /\ pc[p] = "done" /\ phase[p] = "op" /\ RepOk(cur[p])
    /\ IF MntfreePanic(r0[p], queue) THEN Panic("mntfree")
       ELSE /\ Mntfree(r0[p])
            /\ pc' = [pc EXCEPT ![p] = "idle"]
            /\ note' = [note EXCEPT ![p] = FALSE]
            /\ UNCHANGED <<queue, rip, tag, owntag, oldtag, reqid, done, rpid,
                           r0, cur, phase, err, srvV, ops, notes, crash>>

\* Done: the reply fails the check and mountrpcrep raises the error.
RepError(p) ==
    /\ Live /\ pc[p] = "done" /\ ~RepOk(cur[p])
    /\ pc' = [pc EXCEPT ![p] = ErrPc(p)]
    /\ err' = ErrSet(p, RepErr(cur[p]))
    /\ UNCHANGED <<queue, rip, poolV, rpcV, r0, cur, phase, note, srvV, ops, notes, crash>>
-----------------------------------------------------------------------------
(* mntabort(r0), called with the error mountrpcrep raised.                 *)

\* Not Eintr: wait for any rpc not yet done, then mntfree.  Only a reply
\* or a failed write raises such an error in this model, and both leave r0
\* done, so nothing is waited for.
AbortOther(p) ==
    /\ Live /\ pc[p] = "abort" /\ err[p] = "other" /\ done[r0[p]]
    /\ IF MntfreePanic(r0[p], queue) THEN Panic("mntfree")
       ELSE /\ Mntfree(r0[p])
            /\ pc' = [pc EXCEPT ![p] = "idle"]
            /\ note' = [note EXCEPT ![p] = FALSE]
            /\ UNCHANGED <<queue, rip, tag, owntag, oldtag, reqid, done, rpid,
                           r0, cur, phase, err, srvV, ops, notes, crash>>

\* Eintr, and r0 already done (or not this process's): no flush is sent.
AbortNoFlush(p) ==
    /\ Live /\ pc[p] = "abort" /\ err[p] = "intr"
    /\ done[r0[p]] \/ rpid[r0[p]] # p
    /\ pc' = [pc EXCEPT ![p] = "abortend"]
    /\ UNCHANGED <<queue, rip, poolV, rpcV, r0, cur, phase, err, note, srvV, ops, notes, crash>>

\* Eintr and r0 still pending: mntflushalloc a Tflush naming r0's tag (the
\* tag r0 flushes, if r0 is itself a flush), then mountrpcreq/mountrpcrep it.
AbortFlush(p) ==
    /\ Live /\ pc[p] = "abort" /\ err[p] = "intr"
    /\ ~done[r0[p]] /\ rpid[r0[p]] = p
    /\ CanAlloc
    /\ LET r == r0[p]
           new == NewRpc
       IN /\ Mntralloc(new, "Tflush", IF rtype[r] = "Tflush" THEN oldtag[r] ELSE tag[r])
          /\ cur' = [cur EXCEPT ![p] = new]
    /\ phase' = [phase EXCEPT ![p] = "flush"]
    /\ pc' = [pc EXCEPT ![p] = "enq"]
    /\ UNCHANGED <<queue, rip, reqid, rpid, r0, err, note, srvV, ops, notes, crash>>

\* The flush's waserror block: "if(!fr->done) mntqrm(mnt, fr, 0)".  The
\* test reads fr->done without the mount's lock ...
FlushErr(p) ==
    /\ Live /\ pc[p] = "flusherr"
    /\ pc' = [pc EXCEPT ![p] = IF done[cur[p]] THEN "flushfree" ELSE "flushqrm"]
    /\ UNCHANGED <<queue, rip, poolV, rpcV, r0, cur, phase, err, note, srvV, ops, notes, crash>>

\* ... and mntqrm takes the lock and panics if fr is done by then.
FlushQrm(p) ==
    /\ Live /\ pc[p] = "flushqrm"
    /\ LET fr == cur[p] IN
       IF done[fr] THEN Panic("mntqrm: already done")
       ELSE /\ queue' = Remove(queue, fr)
            /\ done' = [done EXCEPT ![fr] = TRUE]
            /\ pc' = [pc EXCEPT ![p] = "flushfree"]
            /\ UNCHANGED <<rip, poolV, tag, owntag, oldtag, rtype, reqid, reply, rpid,
                           r0, cur, phase, err, note, srvV, ops, notes, crash>>

\* The flush's mountrpcrep returned: on to mntfree(fr).
FlushReturn(p) ==
    /\ Live /\ pc[p] = "done" /\ phase[p] = "flush" /\ RepOk(cur[p])
    /\ pc' = [pc EXCEPT ![p] = "flushfree"]
    /\ UNCHANGED <<queue, rip, poolV, rpcV, r0, cur, phase, err, note, srvV, ops, notes, crash>>

\* mntfree(fr).
FlushFree(p) ==
    /\ Live /\ pc[p] = "flushfree"
    /\ IF MntfreePanic(cur[p], queue) THEN Panic("mntfree")
       ELSE /\ Mntfree(cur[p])
            /\ cur' = [cur EXCEPT ![p] = r0[p]]
            /\ phase' = [phase EXCEPT ![p] = "op"]
            /\ pc' = [pc EXCEPT ![p] = "abortend"]
            /\ UNCHANGED <<queue, rip, tag, owntag, oldtag, reqid, done, rpid,
                           r0, err, note, srvV, ops, notes, crash>>

\* "Game over": under the lock, an r0 of this process still not done gets
\* an Rflush reply and leaves the queue; then mntfree(r0), whose poison
\* overwrites that reply type at once.
AbortEnd(p) ==
    /\ Live /\ pc[p] = "abortend"
    /\ LET r == r0[p]
           drop == ~done[r] /\ rpid[r] = p
           qu == IF drop THEN Remove(queue, r) ELSE queue
       IN IF MntfreePanic(r, qu) THEN Panic("mntfree")
          ELSE /\ queue' = qu
               /\ done' = [done EXCEPT ![r] = TRUE]
               /\ Mntfree(r)
               /\ pc' = [pc EXCEPT ![p] = "idle"]
               /\ note' = [note EXCEPT ![p] = FALSE]
               /\ UNCHANGED <<rip, tag, owntag, oldtag, reqid, rpid, r0, cur, phase,
                              err, srvV, ops, notes, crash>>
-----------------------------------------------------------------------------
(* Notes and the file server.                                              *)

\* postnote: the note is pending and a sleeping process wakes up.
PostNote(p) ==
    /\ Live /\ pc[p] # "idle" /\ ~note[p] /\ notes < MaxIntr
    /\ note' = [note EXCEPT ![p] = TRUE]
    /\ pc' = [pc EXCEPT ![p] = IF @ = "asleep" THEN "slept" ELSE @]
    /\ notes' = notes + 1
    /\ UNCHANGED <<queue, rip, poolV, rpcV, r0, cur, phase, err, srvV, ops, crash>>

\* The server reads the next request off the connection.
SrvRecv ==
    /\ Live /\ tx # <<>>
    /\ pending' = pending \cup {Head(tx)}
    /\ tx' = Tail(tx)
    /\ UNCHANGED <<queue, rip, poolV, rpcV, procV, rx, nid, ops, notes, crash>>

\* A request the server may answer next: any, or the oldest for a server
\* that serves one request at a time.
Answerable(t) == t \in pending /\ (SrvFifo => \A x \in pending : x.id >= t.id)

\* The server answers a pending Tread, with data or an error.
SrvAnswer ==
    /\ Live
    /\ \E t \in pending, rt \in IF SrvErrors THEN {"Rread", "Rerror"} ELSE {"Rread"} :
        /\ Answerable(t) /\ t.type = "Tread"
        /\ rx' = Append(rx, [type |-> rt, tag |-> t.tag, id |-> t.id])
        /\ pending' = pending \ {t}
    /\ UNCHANGED <<queue, rip, poolV, rpcV, procV, tx, nid, ops, notes, crash>>

\* The server answers a Tflush: whatever it still holds with the old tag is
\* abandoned unanswered, and the Rflush follows every answer it sent before.
SrvFlush ==
    /\ Live
    /\ \E t \in pending :
        /\ Answerable(t) /\ t.type = "Tflush"
        /\ rx' = Append(rx, [type |-> "Rflush", tag |-> t.tag, id |-> t.id])
        /\ pending' = {x \in pending : x # t /\ x.tag # t.oldtag}
    /\ UNCHANGED <<queue, rip, poolV, rpcV, procV, tx, nid, ops, notes, crash>>

\* Every operation has returned and the server has answered everything.
Finished ==
    /\ Live /\ ops = MaxOps /\ \A p \in Procs : pc[p] = "idle"
    /\ tx = <<>> /\ pending = {}
    /\ UNCHANGED vars

\* After a panic the machine stops.
Halted == ~Live /\ UNCHANGED vars

ProcSteps(p) ==
    \/ Enq(p) \/ Send(p) \/ SendErr(p) \/ TakeGate(p) \/ WaitGate(p) \/ Sleep(p) \/ Slept(p)
    \/ Read(p) \/ ReadGate(p) \/ ReadIntr(p) \/ OpReturn(p) \/ RepError(p)
    \/ AbortOther(p) \/ AbortNoFlush(p) \/ AbortFlush(p) \/ FlushErr(p)
    \/ FlushQrm(p) \/ FlushReturn(p) \/ FlushFree(p) \/ AbortEnd(p)

Next ==
    \/ \E p \in Procs : Start(p) \/ ProcSteps(p) \/ PostNote(p)
    \/ SrvRecv \/ SrvAnswer \/ SrvFlush
    \/ Finished \/ Halted

Spec == Init /\ [][Next]_vars

\* Processes run their steps when they can (the scheduler; the mount's
\* lock is a spin lock), and the server answers what it has read.  Starting
\* an operation and posting a note are choices of the environment.
Fairness ==
    /\ \A p \in Procs : WF_vars(Live /\ ProcSteps(p))
    /\ WF_vars(SrvRecv) /\ WF_vars(SrvAnswer) /\ WF_vars(SrvFlush)

FairSpec == Spec /\ Fairness

-----------------------------------------------------------------------------
(* Properties.                                                             *)

TypeOK ==
    /\ queue \in Seq(Rpcs) /\ rip \in Procs \cup {Nil}
    /\ rpcfree \in Seq(Rpcs) /\ allocd \subseteq Rpcs /\ tagmask \subseteq Tags
    /\ nrpcused \in 0..Cardinality(Rpcs)
    /\ tag \in [Rpcs -> Tags] /\ owntag \in [Rpcs -> BOOLEAN]
    /\ oldtag \in [Rpcs -> Tags] /\ rtype \in [Rpcs -> TTypes]
    /\ reply \in [Rpcs -> RMsg] /\ done \in [Rpcs -> BOOLEAN]
    /\ pending \subseteq TMsg /\ \A i \in DOMAIN tx : tx[i] \in TMsg
    /\ \A i \in DOMAIN rx : rx[i] \in RMsg
    /\ note \in [Procs -> BOOLEAN]
\* The rpcs a process still counts as pending: the one its mountrpcreq or
\* mountrpcrep works on once mountrpcreq has queued it, and the operation's
\* rpc from then until mntfree (through mntabort and its flush).
Sent == {"send", "gate", "sleep", "asleep", "slept", "read", "flusherr", "flushqrm"}
Waiting(p) == (IF pc[p] \in Sent THEN {cur[p]} ELSE {})
              \cup (IF pc[p] \notin {"idle", "enq"} \/ phase[p] = "flush"
                    THEN {r0[p]} ELSE {})

\* The mount's queue (what mountmux searches and mntgate walks) holds each
\* rpc once, and exactly the rpcs some process still waits on that are not
\* done: mountrpcreq, mountmux, the reader's error path (mntqrm) and
\* mntabort's game-over loop keep it so, across every interleaving of
\* readers, sleepers and interrupted processes.
QueueExact ==
    /\ IsInjective(queue)
    /\ ToSet(queue) = {r \in UNION {Waiting(p) : p \in Procs} : ~done[r]}

\* A reply mountmux hands to an rpc in use answers that rpc's own request:
\* the tag of every request the server may still answer belongs to it alone
\* (9P: a tag is not reused until its request is answered or flushed).
ReplyMatches ==
    \A r \in allocd \ ToSet(rpcfree) :
        reply[r].id # 0 => reply[r].id = reqid[r]

\* The reader gate never strands a sleeper: while no process reads replies,
\* a process asleep in mountrpcrep on an rpc not yet done has some other
\* process still running that can take the gate.  mntgate wakes a single
\* sleeper, and that one must itself read or call mntgate in turn; if it
\* leaves mountrpcrep another way, the rest sleep until some unrelated RPC
\* or a note comes along.
NoStrandedSleeper ==
    (rip = Nil /\ \E p \in Procs : pc[p] = "asleep" /\ ~done[cur[p]])
        => \E q \in Procs : pc[q] \notin {"idle", "asleep"}

\* No panic of mountrpcreq, mntqrm or mntfree is reached.
NoPanic == crash = "none"

\* Every operation a process starts returns (or the machine has panicked):
\* no process is left asleep with nobody reading the replies.
OpsComplete == \A p \in Procs : pc[p] # "idle" ~> (pc[p] = "idle" \/ ~Live)
====
