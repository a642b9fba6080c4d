--------------------------- MODULE ControlChannel ---------------------------
(***************************************************************************)
(* How the gateway gets run and cancel requests to its workers             *)
(* (pkg/server/server.go: createRun, handleCancelRun, DispatchRun,         *)
(* DispatchCancel, enqueueControl, flushWorkerQueue, handleWorkerConnect,  *)
(* handleWorkerPoll).                                                      *)
(*                                                                         *)
(* A dispatch is three critical sections: it numbers the envelope, looks   *)
(* up the worker's session, and writes to its connection or falls back to  *)
(* the worker's queue.  A session registers itself, takes the queue and    *)
(* writes it out in as many more.  Every interleaving of these is allowed. *)
(*                                                                         *)
(* An envelope is known by the request it carries: <<stream, 0>> is the    *)
(* run request of a stream, <<stream, k>> its k-th cancel request.         *)
(***************************************************************************)
EXTENDS Integers, Sequences, FiniteSets

CONSTANTS
  Workers,   \* worker identifiers
  Sessions,  \* bound: connections a worker may make, one goroutine each
  Streams,   \* bound: runs created
  MaxCancels, \* bound: cancel requests for one run
  MaxQueue,  \* maxWorkerQueuePerWorker
  PollMax,   \* max_messages of a poll
  None

ASSUME ControlChannelAssumption ==
  /\ MaxQueue \in Nat \ {0}
  /\ PollMax \in Nat \ {0}
  /\ MaxCancels \in Nat
  /\ None \notin Workers \cup Sessions

Envelopes == Streams \X (0..MaxCancels)
IsRun(e) == e[2] = 0

VARIABLES
  workers,      \* [Workers -> registered session, or None]
  workerQueue,  \* [Workers -> Seq(Envelopes)]
  runs,         \* [Streams -> worker recorded for the run, or None]
  seqCounter,   \* numbers given out
  dispatch,     \* [Envelopes -> the HTTP handler dispatching it]
  session,      \* [Sessions -> the goroutine of handleWorkerConnect]
  received,     \* history: [Workers -> SUBSET Envelopes]
  lost          \* history: envelopes that can no longer arrive

vars == <<workers, workerQueue, runs, seqCounter, dispatch, session, received,
          lost>>

Handler ==
  [pc : {"idle", "lookup", "write", "enqueue", "record", "done"},
   worker : Workers \cup {None},     \* the worker addressed
   to : Sessions \cup {None},        \* the session it was found to have
   seq : Nat]

\* "wire" is what has been written and the peer has not read; "peer" whether
\* the worker is still at the other end; "writable" is FALSE once a write has
\* failed, because the websocket library makes that error permanent.
Session ==
  [pc : {"free", "hello", "registered", "flush", "requeue", "read", "closed"},
   worker : Workers \cup {None},
   rest : Seq(Envelopes),
   wire : Seq(Envelopes),
   peer : BOOLEAN,
   writable : BOOLEAN]

FreeSession == [pc |-> "free", worker |-> None, rest |-> <<>>, wire |-> <<>>,
                peer |-> FALSE, writable |-> FALSE]

TypeOK ==
  /\ workers \in [Workers -> Sessions \cup {None}]
  /\ workerQueue \in [Workers -> Seq(Envelopes)]
  /\ \A w \in Workers : Len(workerQueue[w]) <= MaxQueue
  /\ runs \in [Streams -> Workers \cup {None}]
  /\ seqCounter \in Nat
  /\ dispatch \in [Envelopes -> Handler]
  /\ session \in [Sessions -> Session]
  /\ received \in [Workers -> SUBSET Envelopes]
  /\ lost \in SUBSET Envelopes

Init ==
  /\ workers = [w \in Workers |-> None]
  /\ workerQueue = [w \in Workers |-> <<>>]
  /\ runs = [st \in Streams |-> None]
  /\ seqCounter = 0
  /\ dispatch = [e \in Envelopes |->
                   [pc |-> "idle", worker |-> None, to |-> None, seq |-> 0]]
  /\ session = [s \in Sessions |-> FreeSession]
  /\ received = [w \in Workers |-> {}]
  /\ lost = {}

-----------------------------------------------------------------------------
(* The worker's queue *)

Elems(q) == {q[i] : i \in 1..Len(q)}

Overflow(q) == IF Len(q) > MaxQueue THEN Len(q) - MaxQueue ELSE 0

\* Mutant: the queue is not cut to its capacity.
enqueueControlUncut(w, e) ==
  /\ workerQueue' = [workerQueue EXCEPT ![w] = Append(@, e)]
  /\ lost' = lost

\* Append, and keep the newest MaxQueue.
enqueueControl(w, e) ==
  LET q == Append(workerQueue[w], e)
  IN  /\ workerQueue' =
           [workerQueue EXCEPT ![w] = SubSeq(q, Overflow(q) + 1, Len(q))]
      /\ lost' = lost \cup Elems(SubSeq(q, 1, Overflow(q)))

-----------------------------------------------------------------------------
(* writeWorkerEnvelope *)

\* A frame written to a connection whose peer has gone is lost.  A write can
\* fail on any connection: the peer has gone, the gateway has closed it, or
\* the write deadline set by the last ping has passed (see Keepalive).
writeWorkerEnvelope(s, e, ok) ==
  /\ ok => session[s].writable
  /\ lost' = IF ok /\ ~session[s].peer THEN lost \cup {e} ELSE lost

\* The connection after the write.
Sent(s, e, ok) ==
  [session[s] EXCEPT
     !.wire = IF ok /\ session[s].peer THEN Append(@, e) ELSE @,
     !.writable = ok]

-----------------------------------------------------------------------------
(* createRun, handleCancelRun and the two Dispatch functions *)

Number(e, w) ==
  /\ dispatch[e].pc = "idle"
  /\ seqCounter' = seqCounter + 1
  /\ dispatch' = [dispatch EXCEPT ![e].pc = "lookup", ![e].worker = w,
                                  ![e].seq = seqCounter + 1]

\* createRun takes the worker the request names, connected or not, or picks a
\* connected one.
DispatchRun(st) ==
  /\ \E w \in Workers : Number(<<st, 0>>, w)
  /\ UNCHANGED <<workers, workerQueue, runs, session, received, lost>>

\* handleCancelRun answers 404 unless the run is in the runs map.
DispatchCancel(st) ==
  /\ runs[st] # None
  /\ \E k \in 1..MaxCancels :
       /\ dispatch[<<st, k - 1>>].pc # "idle"
       /\ Number(<<st, k>>, runs[st])
  /\ UNCHANGED <<workers, workerQueue, runs, session, received, lost>>

Lookup(e) ==
  /\ dispatch[e].pc = "lookup"
  /\ LET s == workers[dispatch[e].worker]
     IN  dispatch' = [dispatch EXCEPT
           ![e].to = s, ![e].pc = IF s = None THEN "enqueue" ELSE "write"]
  /\ UNCHANGED <<workers, workerQueue, runs, seqCounter, session, received,
                 lost>>

\* Where the handler goes when DispatchRun or DispatchCancel has returned.
Returned(e) == IF IsRun(e) THEN "record" ELSE "done"

Write(e) ==
  LET s == dispatch[e].to
  IN  /\ dispatch[e].pc = "write"
      /\ \E ok \in BOOLEAN :
           /\ writeWorkerEnvelope(s, e, ok)
           /\ session' = [session EXCEPT ![s] = Sent(s, e, ok)]
           /\ dispatch' = [dispatch EXCEPT
                ![e].pc = IF ok THEN Returned(e) ELSE "enqueue", ![e].to = None]
      /\ UNCHANGED <<workers, workerQueue, runs, seqCounter, received>>

Enqueue(e) ==
  /\ dispatch[e].pc = "enqueue"
  /\ enqueueControl(dispatch[e].worker, e)
  /\ dispatch' = [dispatch EXCEPT ![e].pc = Returned(e)]
  /\ UNCHANGED <<workers, runs, seqCounter, session, received>>

\* createRun ignores the error of DispatchRun and records the run last.
RecordRun(st) ==
  LET e == <<st, 0>>
  IN  /\ dispatch[e].pc = "record"
      /\ runs' = [runs EXCEPT ![st] = dispatch[e].worker]
      /\ dispatch' = [dispatch EXCEPT ![e].pc = "done"]
      /\ UNCHANGED <<workers, workerQueue, seqCounter, session, received, lost>>

\* appendStreamEvent on COMPLETED, or cleanupLoop: see StreamLog.
ForgetRun(st) ==
  /\ runs[st] # None
  /\ runs' = [runs EXCEPT ![st] = None]
  /\ UNCHANGED <<workers, workerQueue, seqCounter, dispatch, session, received,
                 lost>>

-----------------------------------------------------------------------------
(* handleWorkerConnect and flushWorkerQueue *)

\* A worker process has one connection at a time: connectAndServe closes the
\* old one before it dials again.  The gateway may not have noticed yet.
Connect(s, w) ==
  /\ session[s].pc = "free"
  /\ \A o \in Sessions : session[o].worker = w => ~session[o].peer
  /\ session' = [session EXCEPT ![s] =
       [FreeSession EXCEPT !.pc = "hello", !.worker = w, !.peer = TRUE,
                           !.writable = TRUE]]
  /\ UNCHANGED <<workers, workerQueue, runs, seqCounter, dispatch, received,
                 lost>>

Register(s) ==
  /\ session[s].pc = "hello"
  /\ workers' = [workers EXCEPT ![session[s].worker] = s]
  /\ session' = [session EXCEPT ![s].pc = "registered"]
  /\ UNCHANGED <<workerQueue, runs, seqCounter, dispatch, received, lost>>

\* Mutant: the queue is copied and deleted only after the flush.
TakeQueueCopy(s) ==
  /\ session[s].pc = "registered"
  /\ session' = [session EXCEPT ![s].pc = "flush",
                                ![s].rest = workerQueue[session[s].worker]]
  /\ UNCHANGED <<workers, workerQueue, runs, seqCounter, dispatch, received,
                 lost>>

TakeQueue(s) ==
  LET w == session[s].worker
  IN  /\ session[s].pc = "registered"
      /\ session' = [session EXCEPT ![s].pc = "flush",
                                    ![s].rest = workerQueue[w]]
      /\ workerQueue' = [workerQueue EXCEPT ![w] = <<>>]
      /\ UNCHANGED <<workers, runs, seqCounter, dispatch, received, lost>>

\* Mutant: a failed write is tried again on the same connection.
FlushNextRetries(s) ==
  LET e == Head(session[s].rest)
  IN  /\ session[s].pc = "flush"
      /\ session[s].rest # <<>>
      /\ \E ok \in BOOLEAN :
           /\ writeWorkerEnvelope(s, e, ok)
           /\ session' = [session EXCEPT ![s] =
                IF ok THEN [Sent(s, e, ok) EXCEPT !.rest = Tail(@)]
                      ELSE Sent(s, e, ok)]
      /\ UNCHANGED <<workers, workerQueue, runs, seqCounter, dispatch, received>>

FlushNext(s) ==
  LET e == Head(session[s].rest)
  IN  /\ session[s].pc = "flush"
      /\ session[s].rest # <<>>
      /\ \E ok \in BOOLEAN :
           /\ writeWorkerEnvelope(s, e, ok)
           /\ session' = [session EXCEPT ![s] =
                IF ok THEN [Sent(s, e, ok) EXCEPT !.rest = Tail(@)]
                      ELSE [Sent(s, e, ok) EXCEPT !.pc = "requeue"]]
      /\ UNCHANGED <<workers, workerQueue, runs, seqCounter, dispatch, received>>

\* After a failed write what is left goes back, one critical section each.
Requeue(s) ==
  /\ session[s].pc = "requeue"
  /\ session[s].rest # <<>>
  /\ enqueueControl(session[s].worker, Head(session[s].rest))
  /\ session' = [session EXCEPT ![s].rest = Tail(@)]
  /\ UNCHANGED <<workers, runs, seqCounter, dispatch, received>>

\* Mutant: a flush that failed returns without requeueing what is left.
FlushReturnsEarly(s) ==
  /\ \/ session[s].pc = "requeue"
     \/ session[s].pc = "flush" /\ session[s].rest = <<>>
  /\ session' = [session EXCEPT ![s].pc = "read", ![s].rest = <<>>]
  /\ UNCHANGED <<workers, workerQueue, runs, seqCounter, dispatch, received,
                 lost>>

FlushReturns(s) ==
  /\ session[s].pc \in {"flush", "requeue"}
  /\ session[s].rest = <<>>
  /\ session' = [session EXCEPT ![s].pc = "read"]
  /\ UNCHANGED <<workers, workerQueue, runs, seqCounter, dispatch, received,
                 lost>>

\* The connection is gone: what was on the wire is lost with it.
PeerGone(s) ==
  /\ session[s].peer
  /\ session' = [session EXCEPT ![s].peer = FALSE, ![s].wire = <<>>]
  /\ lost' = lost \cup Elems(session[s].wire)
  /\ UNCHANGED <<workers, workerQueue, runs, seqCounter, dispatch, received>>

\* Mutant: the handler leaves its session in the map.
UnregisterNothing(s) ==
  /\ session[s].pc = "read"
  /\ ~session[s].peer
  /\ session' = [session EXCEPT ![s].pc = "closed", ![s].writable = FALSE]
  /\ UNCHANGED <<workers, workerQueue, runs, seqCounter, dispatch, received,
                 lost>>

\* The read loop fails some time later and the handler takes the worker out
\* of the map, whichever session the map holds by then.
Unregister(s) ==
  /\ session[s].pc = "read"
  /\ ~session[s].peer
  /\ workers' = [workers EXCEPT ![session[s].worker] = None]
  /\ session' = [session EXCEPT ![s].pc = "closed", ![s].writable = FALSE]
  /\ UNCHANGED <<workerQueue, runs, seqCounter, dispatch, received, lost>>

\* External: the worker reads a frame.
Deliver(s) ==
  /\ session[s].wire # <<>>
  /\ session' = [session EXCEPT ![s].wire = Tail(@)]
  /\ received' = [received EXCEPT
                    ![session[s].worker] = @ \cup {Head(session[s].wire)}]
  /\ UNCHANGED <<workers, workerQueue, runs, seqCounter, dispatch, lost>>

-----------------------------------------------------------------------------
(* handleWorkerPoll *)

\* The entries of q at some of its positions, in their order.
Rank(i, positions) == Cardinality({j \in positions : j <= i})

EntriesAt(q, positions) ==
  [k \in 1..Cardinality(positions) |->
     q[CHOOSE i \in positions : Rank(i, positions) = k]]

Unacked(w, last) ==
  EntriesAt(workerQueue[w],
            {i \in DOMAIN workerQueue[w] : dispatch[workerQueue[w][i]].seq > last})

LastSeqs(w) == {0} \cup {dispatch[e].seq : e \in received[w]}

\* Everything numbered up to last_seq is dropped, the next PollMax are taken
\* out and answered, the others stay.  The reply may not arrive.
handleWorkerPoll(w, last, arrives) ==
  LET new == Unacked(w, last)
      n == IF Len(new) < PollMax THEN Len(new) ELSE PollMax
      out == Elems(SubSeq(new, 1, n))
      acked == Elems(workerQueue[w]) \ Elems(new)
  IN  /\ workerQueue[w] # <<>>
      /\ workerQueue' = [workerQueue EXCEPT ![w] = SubSeq(new, n + 1, Len(new))]
      /\ received' = [received EXCEPT ![w] = IF arrives THEN @ \cup out ELSE @]
      /\ lost' = lost \cup acked \cup (IF arrives THEN {} ELSE out)
      /\ UNCHANGED <<workers, runs, seqCounter, dispatch, session>>

Poll(w) ==
  \E last \in LastSeqs(w), arrives \in BOOLEAN :
    handleWorkerPoll(w, last, arrives)

-----------------------------------------------------------------------------
Handlers(e) == Lookup(e) \/ Write(e) \/ Enqueue(e)

Serve(s) ==
  \/ Register(s) \/ TakeQueue(s) \/ FlushNext(s) \/ Requeue(s)
  \/ FlushReturns(s) \/ Unregister(s)

Next ==
  \/ \E st \in Streams :
       DispatchRun(st) \/ DispatchCancel(st) \/ RecordRun(st) \/ ForgetRun(st)
  \/ \E e \in Envelopes : Handlers(e)
  \/ \E s \in Sessions, w \in Workers : Connect(s, w)
  \/ \E s \in Sessions : Serve(s) \/ PeerGone(s) \/ Deliver(s)
  \/ \E w \in Workers : Poll(w)

Spec == Init /\ [][Next]_vars

\* Goroutines of the gateway are scheduled and a connected worker reads.
\* Nothing says that connections last or come back, that writes succeed, that
\* a client creates or cancels runs, or that anybody polls: the worker program
\* of this repository never does.
Fairness ==
  /\ \A e \in Envelopes : WF_vars(Handlers(e))
  /\ \A s \in Sessions : WF_vars(Serve(s)) /\ WF_vars(Deliver(s))

FairSpec == Spec /\ Fairness

-----------------------------------------------------------------------------
(* Properties *)

Alive == {"registered", "flush", "requeue", "read"}

(***************************************************************************)
(* The workers map never names a session whose handler has returned: a     *)
(* dispatch that finds a session may find its connection broken, but not   *)
(* one nobody reads from, nor one of another worker.                       *)
(***************************************************************************)
RegistryNamesLiveHandler ==
  \A w \in Workers : workers[w] # None =>
    /\ session[workers[w]].pc \in Alive
    /\ session[workers[w]].worker = w

(***************************************************************************)
(* The places an envelope can be on its way: with its handler, in the      *)
(* queue of its worker, in the hands of a flush, on the wire.              *)
(***************************************************************************)
WithHandler(e) == dispatch[e].pc \in {"lookup", "write", "enqueue"}

At(q, e) == {i \in 1..Len(q) : q[i] = e}

Places(e) ==
       {p \in {<<"handler", None, 0>>} : WithHandler(e)}
  \cup (UNION {{"queue"} \X {w} \X At(workerQueue[w], e) : w \in Workers})
  \cup (UNION {{"rest"} \X {s} \X At(session[s].rest, e) : s \in Sessions})
  \cup (UNION {{"wire"} \X {s} \X At(session[s].wire, e) : s \in Sessions})

Outstanding ==
  [w \in Workers |->
     {e \in Envelopes : dispatch[e].worker = w /\ Places(e) # {}}]
Settled == lost \cup UNION {received[w] : w \in Workers}

(***************************************************************************)
(* A dispatched request is in one place at a time, at one position of it,  *)
(* and on its way only until it is received or lost: whatever handlers,    *)
(* flushes, failed writes and polls do at the same time, no run is started *)
(* twice.                                                                  *)
(***************************************************************************)
AtMostOneCopy ==
  \A e \in Envelopes :
    /\ \A p, q \in Places(e) : p = q
    /\ e \in Settled => Places(e) = {}

(***************************************************************************)
(* The channel implements the mailbox: a request reaches nobody but the    *)
(* worker it was created for, and is lost only where the code gives it up  *)
(* (the wire of a broken connection, the oldest end of a full queue, a     *)
(* poll's acknowledged or unanswered messages), never between two of its   *)
(* critical sections.                                                      *)
(***************************************************************************)
Box == INSTANCE Mailbox WITH outstanding <- Outstanding

ImplementsMailbox == Box!MailboxSpec

(***************************************************************************)
(* Every dispatched request comes to an end: it is received, it is given   *)
(* up, or it rests in the queue of its worker with no connection left that *)
(* has still to flush it.  None stays in a handler, in a flush that failed *)
(* or on a wire.  It may rest there while its worker is connected: a       *)
(* handler that looked the worker up before it registered enqueues after   *)
(* the flush, or a flush failed, and then only the next connection, or a   *)
(* poll, takes the request out.                                            *)
(***************************************************************************)
YetToFlush(w) ==
  {s \in Sessions :
     /\ session[s].worker = w
     /\ session[s].pc \in {"hello", "registered", "flush", "requeue"}}

Resting(e) ==
  \E w \in Workers : At(workerQueue[w], e) # {} /\ YetToFlush(w) = {}

EventuallySettled ==
  \A e \in Envelopes :
    dispatch[e].pc # "idle" ~> (e \in Settled \/ Resting(e))

(***************************************************************************)
(* sse_e2e_test.go:690, "worker should be online after reconnect": a       *)
(* worker whose connection is up and served is in the workers map.  The    *)
(* code does not keep this: the handler of the connection before it may    *)
(* notice its end later, and deletes the entry of the new session.         *)
(***************************************************************************)
OnlineAfterReconnect ==
  \A s \in Sessions : session[s].pc = "read" /\ session[s].peer =>
    workers[session[s].worker] # None
=============================================================================
