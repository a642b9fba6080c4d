------------------------------- MODULE Service -------------------------------
(***************************************************************************)
(* The gateway as its clients see it (pkg/server/server.go): creating a    *)
(* run by the API or from the console, cancelling it, the workers that     *)
(* come and go, the events they send back, and the cleanup that forgets    *)
(* runs and console sessions.                                              *)
(*                                                                         *)
(* How requests travel is left to Mailbox, which ControlChannel implements:*)
(* they are delivered in any order or lost.  What a worker does with a run *)
(* is WorkerRun, of which only the beginning, the end and the report stay. *)
(* A stored time is the age of what it stamps, saturated at the limit it   *)
(* is compared with.                                                       *)
(***************************************************************************)
EXTENDS Naturals, Sequences

CONSTANTS
  Workers, Runs, Sessions,
  Requests,    \* requests of one browser that may be served at a time
  Runtimes,    \* with "custom" among them
  Supports,    \* [Workers -> the runtimes its hello lists]
  Retention,   \* of a silent or completed stream
  SessionTTL,
  MaxCancels,  \* bound on the cancels of one run
  MaxLogs,     \* bound on the events of a run before its end
  MaxDrops,    \* bound on lost connections
  Nobody, NoSession

ASSUME ServiceAssumption ==
  /\ Supports \in [Workers -> SUBSET Runtimes]
  /\ Retention \in Nat \ {0} /\ SessionTTL \in Nat \ {0}
  /\ MaxCancels \in Nat /\ MaxLogs \in Nat /\ MaxDrops \in Nat
  /\ Nobody \notin Workers
  /\ NoSession \notin Sessions

Envelopes == [kind : {"run"}, run : Runs, worker : Workers, nr : {0}]
        \cup [kind : {"cancel"}, run : Runs, worker : Workers,
              nr : 1..MaxCancels]

VARIABLES
  workers,      \* the workers in the gateway's table
  up,           \* workers whose connection is alive
  leaving,      \* workers a handler of an ended connection is still there for
  drops,        \* connections lost so far
  runs,         \* [Runs -> the worker it is recorded for, or Nobody]
  created,      \* runs createRun has recorded
  place,        \* [Runs -> the worker createRun has chosen, or Nobody]
  lastAt,       \* runs with a streamLastAt
  silence,      \* [Runs -> age of that]
  doneAt,       \* runs with a streamDoneAt
  since,        \* [Runs -> age of that]
  watched,      \* streams with a subscriber
  outstanding, received, lost,  \* of Mailbox
  served,       \* cancels the worker has acted on
  missed,       \* runs a cancel has reached before they began (history)
  agent,        \* [Runs -> "none", "going", "ending", "over"]
  logs,         \* [Runs -> events sent]
  wire,         \* [Workers -> events on the connection]
  forgetful,    \* runs that have been silent for Retention once (history)
  consoleSessions, age,  \* valid or expired session ids, and their ages
  issued,       \* ids given out so far
  cookie,       \* the browser's
  request,      \* [Requests -> "idle", "stale", "admitted"]
  held          \* [Requests -> the session id a stale request holds]

mailVars == <<outstanding, received, lost>>
linkVars == <<workers, up, leaving, drops>>
streamVars == <<runs, lastAt, silence, doneAt, since, watched, forgetful>>
clientVars == <<created, place>>
workerVars == <<served, missed, agent, logs>>
sessionVars == <<consoleSessions, age, issued, cookie, request, held>>
vars == <<mailVars, linkVars, streamVars, clientVars, workerVars, wire,
          sessionVars>>

Mail == INSTANCE Mailbox

Event == [run : Runs, kind : {"log", "completed"}]

RunEnvelope(r, w) == [kind |-> "run", run |-> r, worker |-> w, nr |-> 0]
CancelEnvelope(r, w, n) ==
  [kind |-> "cancel", run |-> r, worker |-> w, nr |-> n]
Sent == lost \cup UNION {outstanding[w] \cup received[w] : w \in Workers}

\* The type, with what the cleanup needs of it: it finds streams by doneAt
\* and lastAt alone, so a stream marked done or a run in the table has an
\* entry in lastAt, or nothing would ever take it out again.
TypeOK ==
  /\ doneAt \subseteq lastAt
  /\ \A r \in Runs : runs[r] # Nobody => r \in lastAt
  /\ workers \in SUBSET Workers /\ up \in SUBSET Workers
  /\ leaving \in SUBSET Workers /\ drops \in 0..MaxDrops
  /\ runs \in [Runs -> Workers \cup {Nobody}]
  /\ created \in SUBSET Runs
  /\ place \in [Runs -> Workers \cup {Nobody}]
  /\ lastAt \in SUBSET Runs /\ silence \in [Runs -> 0..Retention]
  /\ doneAt \in SUBSET Runs /\ since \in [Runs -> 0..Retention]
  /\ watched \in SUBSET Runs
  /\ outstanding \in [Workers -> SUBSET Envelopes]
  /\ received \in [Workers -> SUBSET Envelopes] /\ lost \in SUBSET Envelopes
  /\ served \in SUBSET Envelopes /\ missed \in SUBSET Runs
  /\ agent \in [Runs -> {"none", "going", "ending", "over"}]
  /\ logs \in [Runs -> 0..MaxLogs]
  /\ wire \in [Workers -> Seq(Event)]
  /\ forgetful \in SUBSET Runs
  /\ consoleSessions \in SUBSET Sessions /\ age \in [Sessions -> 0..SessionTTL]
  /\ issued \in SUBSET Sessions /\ cookie \in Sessions \cup {NoSession}
  /\ request \in [Requests -> {"idle", "stale", "admitted"}]
  /\ held \in [Requests -> Sessions \cup {NoSession}]

Init ==
  /\ workers = {} /\ up = {} /\ leaving = {} /\ drops = 0
  /\ runs = [r \in Runs |-> Nobody]
  /\ created = {} /\ place = [r \in Runs |-> Nobody]
  /\ lastAt = {} /\ silence = [r \in Runs |-> 0]
  /\ doneAt = {} /\ since = [r \in Runs |-> 0]
  /\ watched = {} /\ forgetful = {}
  /\ Mail!MailboxInit
  /\ served = {} /\ missed = {}
  /\ agent = [r \in Runs |-> "none"] /\ logs = [r \in Runs |-> 0]
  /\ wire = [w \in Workers |-> << >>]
  /\ consoleSessions = {} /\ age = [s \in Sessions |-> 0] /\ issued = {}
  /\ cookie = NoSession
  /\ request = [q \in Requests |-> "idle"]
  /\ held = [q \in Requests |-> NoSession]

-----------------------------------------------------------------------------
(* Runs: creation and cancellation. *)

\* The workers the gateway may take: one for the runtime, or one for CUSTOM.
pickWorkerForRuntime(rt) ==
  {w \in workers : {rt, "custom"} \cap Supports[w] # {}}

\* Mutant: a run for a worker that is not connected is recorded, not queued.
createRunUnqueued(r, w) ==
  /\ place[r] = Nobody
  /\ place' = [place EXCEPT ![r] = w]
  /\ IF w \in workers THEN Mail!Dispatch(RunEnvelope(r, w), w)
                      ELSE UNCHANGED mailVars
  /\ UNCHANGED <<created, linkVars, streamVars, workerVars, wire>>

\* createRun allocates the run and dispatches it; an error is ignored.
createRun(r, w) ==
  /\ place[r] = Nobody
  /\ place' = [place EXCEPT ![r] = w]
  /\ Mail!Dispatch(RunEnvelope(r, w), w)
  /\ UNCHANGED <<created, linkVars, streamVars, workerVars, wire>>

\* A client of the API may name any worker.
handleCreateRun(r, w) == createRun(r, w) /\ UNCHANGED sessionVars

\* The console leaves the choice to the gateway; without a worker it fails.
handleConsoleCreateRun(q, r, rt) ==
  /\ request[q] = "admitted"
  /\ request' = [request EXCEPT ![q] = "idle"]
  /\ \/ \E w \in pickWorkerForRuntime(rt) : createRun(r, w)
     \/ /\ pickWorkerForRuntime(rt) = {}
        /\ UNCHANGED <<mailVars, linkVars, streamVars, clientVars, workerVars,
                       wire>>
  /\ UNCHANGED <<consoleSessions, age, issued, cookie, held>>

\* The run is recorded after the dispatch, whatever has come of it by then.
RecordRun(r) ==
  /\ place[r] # Nobody /\ r \notin created
  /\ created' = created \cup {r}
  /\ runs' = [runs EXCEPT ![r] = place[r]]
  /\ lastAt' = lastAt \cup {r}
  /\ silence' = [silence EXCEPT ![r] = 0]
  /\ UNCHANGED <<place, doneAt, since, watched, forgetful, mailVars, linkVars,
                 workerVars, wire, sessionVars>>

\* A run that is not in the table is answered 404.
handleCancelRun(r) ==
  /\ runs[r] # Nobody
  /\ \E n \in 1..MaxCancels :
       Mail!Dispatch(CancelEnvelope(r, runs[r], n), runs[r])
  /\ UNCHANGED <<linkVars, streamVars, clientVars, workerVars, wire,
                 sessionVars>>

-----------------------------------------------------------------------------
(* Workers. *)

Connect(w) ==
  /\ w \notin up
  /\ up' = up \cup {w}
  /\ workers' = workers \cup {w}
  /\ UNCHANGED <<leaving, drops, mailVars, streamVars, clientVars, workerVars,
                 wire, sessionVars>>

\* A lost connection takes what is on it, and the context of its runs ends:
\* some report that to the next connection, some return without a word.
Drop(w) ==
  /\ w \in up /\ drops < MaxDrops
  /\ up' = up \ {w} /\ leaving' = leaving \cup {w} /\ drops' = drops + 1
  /\ wire' = [wire EXCEPT ![w] = << >>]
  /\ \E how \in [Runs -> {"ending", "over"}] :
       agent' = [r \in Runs |->
         IF RunEnvelope(r, w) \in received[w] /\ agent[r] \in {"none", "going"}
           THEN how[r] ELSE agent[r]]
  /\ UNCHANGED <<workers, served, missed, logs, mailVars, streamVars,
                 clientVars, sessionVars>>

\* The handler of the old connection deletes whatever is in the table.
Unregister(w) ==
  /\ w \in leaving
  /\ leaving' = leaving \ {w} /\ workers' = workers \ {w}
  /\ UNCHANGED <<up, drops, mailVars, streamVars, clientVars, workerVars,
                 wire, sessionVars>>

\* A frame may still be read when an old handler has taken the worker out of
\* the table.
Receive(e) ==
  /\ e \in outstanding[e.worker] /\ e.worker \in up
  /\ Mail!Resolve(e.worker, {e}, {})
  /\ UNCHANGED <<linkVars, streamVars, clientVars, workerVars, wire,
                 sessionVars>>

\* A full queue or a lost connection.
Lose(e) ==
  /\ e \in outstanding[e.worker]
  /\ Mail!Resolve(e.worker, {}, {e})
  /\ UNCHANGED <<linkVars, streamVars, clientVars, workerVars, wire,
                 sessionVars>>

Got(r) == place[r] # Nobody /\ RunEnvelope(r, place[r]) \in received[place[r]]

Begin(r) ==
  /\ agent[r] = "none" /\ Got(r)
  /\ agent' = [agent EXCEPT ![r] = "going"]
  /\ UNCHANGED <<served, missed, logs, mailVars, linkVars, streamVars,
                 clientVars, wire, sessionVars>>

\* Mutant: a run that has sent events is not found.
ServeCancelEarly(e) ==
  /\ e.kind = "cancel" /\ e \in received[e.worker] \ served
  /\ served' = served \cup {e}
  /\ IF agent[e.run] = "going" /\ logs[e.run] = 0
       THEN agent' = [agent EXCEPT ![e.run] = "ending"]
       ELSE UNCHANGED agent
  /\ missed' = IF agent[e.run] = "none" THEN missed \cup {e.run} ELSE missed
  /\ UNCHANGED <<logs, mailVars, linkVars, streamVars, clientVars, wire,
                 sessionVars>>

\* A cancel for a run that has not begun, or has ended, finds nothing.
ServeCancel(e) ==
  /\ e.kind = "cancel" /\ e \in received[e.worker] \ served
  /\ served' = served \cup {e}
  /\ IF agent[e.run] = "going"
       THEN agent' = [agent EXCEPT ![e.run] = "ending"]
       ELSE UNCHANGED agent
  /\ missed' = IF agent[e.run] = "none" THEN missed \cup {e.run} ELSE missed
  /\ UNCHANGED <<logs, mailVars, linkVars, streamVars, clientVars, wire,
                 sessionVars>>

\* Events go over the connection there is, if there is one and it does not
\* refuse the write (see Keepalive).
Emit(r, kind) ==
  \/ /\ place[r] \in up
     /\ wire' = [wire EXCEPT ![place[r]] =
                   Append(@, [run |-> r, kind |-> kind])]
  \/ wire' = wire

Speak(r) ==
  /\ agent[r] = "going" /\ logs[r] < MaxLogs
  /\ logs' = [logs EXCEPT ![r] = @ + 1]
  /\ Emit(r, "log")
  /\ UNCHANGED <<served, missed, agent, mailVars, linkVars, streamVars,
                 clientVars, sessionVars>>

Finish(r) ==
  /\ agent[r] = "going"
  /\ agent' = [agent EXCEPT ![r] = "ending"]
  /\ UNCHANGED <<served, missed, logs, mailVars, linkVars, streamVars,
                 clientVars, wire, sessionVars>>

Report(r) ==
  /\ agent[r] = "ending"
  /\ agent' = [agent EXCEPT ![r] = "over"]
  /\ Emit(r, "completed")
  /\ UNCHANGED <<served, missed, logs, mailVars, linkVars, streamVars,
                 clientVars, sessionVars>>

-----------------------------------------------------------------------------
(* Events and forgetting. *)

\* The read loop appends the event to its stream; COMPLETED ends the run.
HandleEvent(w) ==
  /\ wire[w] # << >>
  /\ wire' = [wire EXCEPT ![w] = Tail(@)]
  /\ LET e == Head(wire[w]) IN
       /\ lastAt' = lastAt \cup {e.run}
       /\ silence' = [silence EXCEPT ![e.run] = 0]
       /\ IF e.kind = "completed"
            THEN /\ doneAt' = doneAt \cup {e.run}
                 /\ since' = [since EXCEPT ![e.run] = 0]
                 /\ runs' = [runs EXCEPT ![e.run] = Nobody]
            ELSE UNCHANGED <<doneAt, since, runs>>
  /\ UNCHANGED <<watched, forgetful, mailVars, linkVars, clientVars,
                 workerVars, sessionVars>>

Watch(r) ==
  /\ r \in created
  /\ watched' = IF r \in watched THEN watched \ {r} ELSE watched \cup {r}
  /\ UNCHANGED <<runs, lastAt, silence, doneAt, since, forgetful, mailVars,
                 linkVars, clientVars, workerVars, wire, sessionVars>>

\* Mutant: streams are cut off a tick too early.
OldEarly(ages, ids) == {r \in ids \ watched : ages[r] + 1 >= Retention}

Old(ages, ids) == {r \in ids \ watched : ages[r] = Retention}

\* Mutant: the pass over idle streams leaves their entries in runs.
cleanupLoopKeepsRuns ==
  LET done == Old(since, doneAt)
      idle == Old(silence, lastAt \ doneAt)
  IN /\ lastAt' = lastAt \ (done \cup idle)
     /\ doneAt' = doneAt \ done
     /\ runs' = [r \in Runs |-> IF r \in done THEN Nobody ELSE runs[r]]
     /\ consoleSessions' = {s \in consoleSessions : age[s] < SessionTTL}
     /\ UNCHANGED <<silence, since, watched, forgetful, mailVars, linkVars,
                    clientVars, workerVars, wire, age, issued, cookie, request,
                    held>>

cleanupLoop ==
  LET done == Old(since, doneAt)
      idle == Old(silence, lastAt \ doneAt)
  IN /\ lastAt' = lastAt \ (done \cup idle)
     /\ doneAt' = doneAt \ done
     /\ runs' = [r \in Runs |-> IF r \in done \cup idle THEN Nobody
                                                       ELSE runs[r]]
     /\ consoleSessions' = {s \in consoleSessions : age[s] < SessionTTL}
     /\ UNCHANGED <<silence, since, watched, forgetful, mailVars, linkVars,
                    clientVars, workerVars, wire, age, issued, cookie, request,
                    held>>

Older(t, limit) == IF t < limit THEN t + 1 ELSE t

Tick ==
  /\ silence' = [r \in Runs |-> IF r \in lastAt THEN Older(silence[r], Retention)
                                               ELSE silence[r]]
  /\ since' = [r \in Runs |-> IF r \in doneAt THEN Older(since[r], Retention)
                                             ELSE since[r]]
  /\ age' = [s \in Sessions |->
       IF s \in consoleSessions THEN Older(age[s], SessionTTL) ELSE age[s]]
  /\ forgetful' = forgetful \cup {r \in lastAt : silence'[r] = Retention}
  /\ UNCHANGED <<runs, lastAt, doneAt, watched, mailVars, linkVars, clientVars,
                 workerVars, wire, consoleSessions, issued, cookie, request,
                 held>>

-----------------------------------------------------------------------------
(* Console sessions. *)

elsewhere == <<mailVars, linkVars, streamVars, clientVars, workerVars, wire>>

\* Mutant: a login with a cookie renews the session.
createConsoleSessionRenewed(s) ==
  /\ s \notin issued \/ s = cookie
  /\ issued' = issued \cup {s}
  /\ consoleSessions' = consoleSessions \cup {s}
  /\ age' = [age EXCEPT ![s] = 0]
  /\ cookie' = s
  /\ UNCHANGED <<request, held, elsewhere>>

\* The token was right: a random id, never given out before.
createConsoleSession(s) ==
  /\ s \notin issued
  /\ issued' = issued \cup {s}
  /\ consoleSessions' = consoleSessions \cup {s}
  /\ age' = [age EXCEPT ![s] = 0]
  /\ cookie' = s
  /\ UNCHANGED <<request, held, elsewhere>>

\* The id is looked up under the read lock.
consoleSessionValid(q) ==
  /\ request[q] = "idle"
  /\ cookie \in consoleSessions
  /\ IF age[cookie] < SessionTTL
       THEN request' = [request EXCEPT ![q] = "admitted"] /\ UNCHANGED held
       ELSE /\ request' = [request EXCEPT ![q] = "stale"]
            /\ held' = [held EXCEPT ![q] = cookie]
  /\ UNCHANGED <<consoleSessions, age, issued, cookie, elsewhere>>

\* An expired one is deleted under the lock, which was let go in between.
DeleteExpired(q) ==
  /\ request[q] = "stale"
  /\ consoleSessions' = consoleSessions \ {held[q]}
  /\ request' = [request EXCEPT ![q] = "idle"]
  /\ held' = [held EXCEPT ![q] = NoSession]
  /\ UNCHANGED <<age, issued, cookie, elsewhere>>

\* The request was for a page.
Answered(q) ==
  /\ request[q] = "admitted"
  /\ request' = [request EXCEPT ![q] = "idle"]
  /\ UNCHANGED <<consoleSessions, age, issued, cookie, held, elsewhere>>

handleConsoleLogout ==
  /\ cookie # NoSession
  /\ consoleSessions' = consoleSessions \ {cookie}
  /\ cookie' = NoSession
  /\ UNCHANGED <<age, issued, request, held, elsewhere>>

-----------------------------------------------------------------------------
Console ==
  \/ \E s \in Sessions : createConsoleSession(s)
  \/ \E q \in Requests : consoleSessionValid(q) \/ DeleteExpired(q) \/ Answered(q)
  \/ handleConsoleLogout
  \/ \E q \in Requests, r \in Runs, rt \in Runtimes :
       handleConsoleCreateRun(q, r, rt)

Clients ==
  \/ \E r \in Runs, w \in Workers : handleCreateRun(r, w)
  \/ \E r \in Runs : RecordRun(r) \/ handleCancelRun(r) \/ Watch(r)

Link == \E w \in Workers : Connect(w) \/ Drop(w) \/ Unregister(w)

Work ==
  \/ \E w \in Workers : \E e \in outstanding[w] : Receive(e) \/ Lose(e)
  \/ \E w \in Workers : \E e \in received[w] : ServeCancel(e)
  \/ \E r \in Runs : Begin(r) \/ Speak(r) \/ Finish(r) \/ Report(r)

Next ==
  \/ Console \/ Clients \/ Link \/ Work
  \/ \E w \in Workers : HandleEvent(w)
  \/ cleanupLoop \/ Tick

Spec == Init /\ [][Next]_vars

\* A worker serves the cancels it has received and reports what has ended.
\* Nothing is assumed of delivery: a request may stay in the gateway's queue
\* while its worker is connected (see EventuallySettled of ControlChannel),
\* and a worker need not dial again.
FairSpec ==
  /\ Spec
  /\ \A e \in Envelopes : WF_vars(ServeCancel(e))
  /\ \A r \in Runs : WF_vars(Report(r))

-----------------------------------------------------------------------------
(* A cancel looks the run up in runs.  COMPLETED and the cleanup both take  *)
(* runs out of it, and createRun puts them in after the request has left:   *)
(* a run that has been recorded and is not over is missing only if the      *)
(* gateway has heard nothing of it for the whole retention once.            *)
KnownUntilSilent ==
  \A r \in created :
    runs[r] = Nobody /\ agent[r] # "over" => r \in forgetful

(* Run and cancel are dispatched by different handlers at different times,  *)
(* while workers come and go: a cancel is always for the worker its run was *)
(* sent to, and never sent before it.                                       *)
CancelFollowsRun ==
  \A e \in Sent : e.kind = "cancel" => RunEnvelope(e.run, e.worker) \in Sent

(* A cancel its worker has received ends its run, whatever the run has sent *)
(* and whether or not the connection lasts, unless it overtook the run      *)
(* request and found nothing to cancel.                                     *)
CancelSettles ==
  \A e \in Envelopes :
    e.kind = "cancel" /\ e \in received[e.worker]
      ~> e.run \in missed \/ agent[e.run] = "over"

(* consoleSessionValid reads a session under one lock and deletes it under  *)
(* another: all the same no session ends before its time, except by logout. *)
SessionLivesItsTerm ==
  [][\A s \in consoleSessions \ consoleSessions' :
       age[s] = SessionTTL \/ (cookie = s /\ cookie' = NoSession)]_vars
=============================================================================
