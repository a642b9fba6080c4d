---------------------------- MODULE Service_proofs ----------------------------
(***************************************************************************)
(* Theorems about Service, for any number of workers, runs, sessions and   *)
(* requests, and any retention and session lifetime.                       *)
(***************************************************************************)
EXTENDS Service, TLAPS

LEMMA TypeInit == Init => TypeOK
BY ServiceAssumption DEF Init, TypeOK, Mail!MailboxInit, Event

-----------------------------------------------------------------------------
(* Envelopes. *)

LEMMA EnvelopeTypes ==
  ASSUME NEW r \in Runs, NEW w \in Workers
  PROVE  /\ RunEnvelope(r, w) \in Envelopes
         /\ \A n \in 1..MaxCancels : CancelEnvelope(r, w, n) \in Envelopes
BY DEF RunEnvelope, CancelEnvelope, Envelopes

LEMMA EnvelopeFields ==
  ASSUME NEW e \in Envelopes
  PROVE  /\ e.worker \in Workers /\ e.run \in Runs
         /\ e.kind = "run" => e = RunEnvelope(e.run, e.worker)
         /\ e.kind \in {"run", "cancel"}
BY DEF RunEnvelope, Envelopes

LEMMA DispatchType ==
  ASSUME TypeOK, NEW e \in Envelopes, NEW w \in Workers, Mail!Dispatch(e, w)
  PROVE  /\ outstanding' \in [Workers -> SUBSET Envelopes]
         /\ received' \in [Workers -> SUBSET Envelopes]
         /\ lost' \in SUBSET Envelopes
         /\ Sent' = Sent \cup {e}
<1>1. /\ outstanding' = [outstanding EXCEPT ![w] = @ \cup {e}]
      /\ UNCHANGED <<received, lost>>
  BY DEF Mail!Dispatch
<1>2. /\ outstanding'[w] = outstanding[w] \cup {e}
      /\ \A v \in Workers : v # w => outstanding'[v] = outstanding[v]
  BY <1>1 DEF TypeOK
<1>3. \A d : d \in Sent' <=> d \in Sent \/ d = e
  BY <1>1, <1>2 DEF Sent
<1> QED
  BY <1>1, <1>3 DEF TypeOK

LEMMA ResolveType ==
  ASSUME TypeOK, NEW v \in Workers, NEW e \in outstanding[v],
         Receive(e) \/ Lose(e)
  PROVE  /\ outstanding' \in [Workers -> SUBSET Envelopes]
         /\ received' \in [Workers -> SUBSET Envelopes]
         /\ lost' \in SUBSET Envelopes
         /\ Sent' = Sent
<1>1. e \in Envelopes /\ e.worker \in Workers /\ e \in outstanding[e.worker]
  BY EnvelopeFields DEF TypeOK, Receive, Lose
<1>2. PICK batch, gone \in SUBSET {e} :
        /\ batch \cup gone = {e}
        /\ Mail!Resolve(e.worker, batch, gone)
  BY DEF Receive, Lose
<1>3. /\ \A w \in Workers : outstanding'[w] = outstanding[w] \ {e}
      /\ \A w \in Workers : w # e.worker => received'[w] = received[w]
      /\ received'[e.worker] = received[e.worker] \cup batch
      /\ lost' = lost \cup gone
  BY <1>1, <1>2 DEF Mail!Resolve, TypeOK
<1>4. /\ outstanding' \in [Workers -> SUBSET Envelopes]
      /\ received' \in [Workers -> SUBSET Envelopes]
      /\ lost' \in SUBSET Envelopes
  BY <1>1, <1>2 DEF Mail!Resolve, TypeOK
<1>5. ASSUME NEW d PROVE d \in Sent' <=> d \in Sent
  <2>1. CASE d = e
    BY <1>1, <1>2, <1>3, <2>1 DEF Sent
  <2>2. CASE d # e
    <3>1. /\ \A w \in Workers : /\ d \in outstanding'[w] <=> d \in outstanding[w]
                                /\ d \in received'[w] <=> d \in received[w]
          /\ d \in lost' <=> d \in lost
      BY <1>1, <1>2, <1>3, <2>2
    <3> QED
      BY <3>1 DEF Sent
  <2> QED
    BY <2>1, <2>2
<1> QED
  BY <1>4, <1>5

-----------------------------------------------------------------------------
(* Types, action by action. *)

LEMMA CreateType ==
  ASSUME TypeOK, NEW r \in Runs, NEW w \in Workers, createRun(r, w)
  PROVE  sessionVars' = sessionVars => TypeOK'
<1>1. RunEnvelope(r, w) \in Envelopes
  BY EnvelopeTypes
<1>2. Mail!Dispatch(RunEnvelope(r, w), w)
  BY DEF createRun
<1>3. /\ outstanding' \in [Workers -> SUBSET Envelopes]
      /\ received' \in [Workers -> SUBSET Envelopes]
      /\ lost' \in SUBSET Envelopes
  BY <1>1, <1>2, DispatchType
<1> QED
  BY <1>3 DEF TypeOK, createRun, sessionVars, linkVars, streamVars, workerVars

LEMMA ConsoleType ==
  ASSUME TypeOK, Console
  PROVE  TypeOK'
<1>1. ASSUME NEW s \in Sessions, createConsoleSession(s) PROVE TypeOK'
  BY <1>1, ServiceAssumption DEF TypeOK, createConsoleSession, elsewhere,
     mailVars, linkVars, streamVars, clientVars, workerVars
<1>2. ASSUME NEW q \in Requests, consoleSessionValid(q) PROVE TypeOK'
  BY <1>2 DEF TypeOK, consoleSessionValid, elsewhere,
     mailVars, linkVars, streamVars, clientVars, workerVars
<1>3. ASSUME NEW q \in Requests, DeleteExpired(q) PROVE TypeOK'
  BY <1>3 DEF TypeOK, DeleteExpired, elsewhere,
     mailVars, linkVars, streamVars, clientVars, workerVars
<1>4. ASSUME NEW q \in Requests, Answered(q) PROVE TypeOK'
  BY <1>4 DEF TypeOK, Answered, elsewhere,
     mailVars, linkVars, streamVars, clientVars, workerVars
<1>5. CASE handleConsoleLogout
  BY <1>5 DEF TypeOK, handleConsoleLogout, elsewhere,
     mailVars, linkVars, streamVars, clientVars, workerVars
<1>6. ASSUME NEW q \in Requests, NEW r \in Runs, NEW rt \in Runtimes,
             handleConsoleCreateRun(q, r, rt)
      PROVE  TypeOK'
  <2>1. ASSUME NEW w \in Workers, createRun(r, w) PROVE TypeOK'
    <3>1. RunEnvelope(r, w) \in Envelopes /\ Mail!Dispatch(RunEnvelope(r, w), w)
      BY <2>1, EnvelopeTypes DEF createRun
    <3>2. /\ outstanding' \in [Workers -> SUBSET Envelopes]
          /\ received' \in [Workers -> SUBSET Envelopes]
          /\ lost' \in SUBSET Envelopes
      BY <3>1, DispatchType
    <3> QED
      BY <1>6, <2>1, <3>2 DEF TypeOK, createRun, handleConsoleCreateRun,
         linkVars, streamVars, workerVars
  <2>2. ASSUME UNCHANGED <<mailVars, linkVars, streamVars, clientVars,
                           workerVars, wire>>
        PROVE  TypeOK'
    BY <1>6, <2>2 DEF TypeOK, handleConsoleCreateRun, mailVars, linkVars,
       streamVars, clientVars, workerVars
  <2> QED
    BY <1>6, <2>1, <2>2 DEF handleConsoleCreateRun, pickWorkerForRuntime, TypeOK
<1> QED
  BY <1>1, <1>2, <1>3, <1>4, <1>5, <1>6 DEF Console

LEMMA ClientsType ==
  ASSUME TypeOK, Clients
  PROVE  TypeOK'
<1>1. ASSUME NEW r \in Runs, NEW w \in Workers, handleCreateRun(r, w)
      PROVE  TypeOK'
  BY <1>1, CreateType DEF handleCreateRun
<1>2. ASSUME NEW r \in Runs, RecordRun(r) PROVE TypeOK'
  BY <1>2, ServiceAssumption DEF TypeOK, RecordRun,
     mailVars, linkVars, workerVars, sessionVars
<1>3. ASSUME NEW r \in Runs, handleCancelRun(r) PROVE TypeOK'
  <2>1. PICK n \in 1..MaxCancels :
          Mail!Dispatch(CancelEnvelope(r, runs[r], n), runs[r])
    BY <1>3 DEF handleCancelRun
  <2>2. runs[r] \in Workers /\ CancelEnvelope(r, runs[r], n) \in Envelopes
    BY <1>3, EnvelopeTypes DEF handleCancelRun, TypeOK
  <2>3. /\ outstanding' \in [Workers -> SUBSET Envelopes]
        /\ received' \in [Workers -> SUBSET Envelopes]
        /\ lost' \in SUBSET Envelopes
    BY <2>1, <2>2, DispatchType
  <2> QED
    BY <1>3, <2>3 DEF TypeOK, handleCancelRun, linkVars, streamVars,
       clientVars, workerVars, sessionVars
<1>4. ASSUME NEW r \in Runs, Watch(r) PROVE TypeOK'
  BY <1>4 DEF TypeOK, Watch, mailVars, linkVars, clientVars, workerVars,
     sessionVars
<1> QED
  BY <1>1, <1>2, <1>3, <1>4 DEF Clients

LEMMA LinkType ==
  ASSUME TypeOK, Link
  PROVE  TypeOK'
<1>1. ASSUME NEW w \in Workers, Connect(w) PROVE TypeOK'
  BY <1>1 DEF TypeOK, Connect, mailVars, streamVars, clientVars, workerVars,
     sessionVars
<1>2. ASSUME NEW w \in Workers, Drop(w) PROVE TypeOK'
  <2>1. agent' \in [Runs -> {"none", "going", "ending", "over"}]
    BY <1>2 DEF Drop, TypeOK
  <2>2. wire' \in [Workers -> Seq(Event)]
    BY <1>2 DEF Drop, TypeOK
  <2>3. drops' \in 0..MaxDrops
    BY <1>2, ServiceAssumption DEF Drop, TypeOK
  <2> QED
    BY <1>2, <2>1, <2>2, <2>3 DEF TypeOK, Drop, mailVars, streamVars,
       clientVars, sessionVars
<1>3. ASSUME NEW w \in Workers, Unregister(w) PROVE TypeOK'
  BY <1>3 DEF TypeOK, Unregister, mailVars, streamVars, clientVars,
     workerVars, sessionVars
<1> QED
  BY <1>1, <1>2, <1>3 DEF Link

LEMMA EmitType ==
  ASSUME TypeOK, NEW r \in Runs, NEW kind \in {"log", "completed"},
         Emit(r, kind)
  PROVE  wire' \in [Workers -> Seq(Event)]
<1>1. [run |-> r, kind |-> kind] \in Event
  BY DEF Event
<1>2. wire \in [Workers -> Seq(Event)]
  BY DEF TypeOK
<1>3. CASE wire' = wire
  BY <1>2, <1>3
<1>4. CASE wire' # wire
  <2>1. wire' = [wire EXCEPT ![place[r]] = Append(@, [run |-> r, kind |-> kind])]
    BY <1>4 DEF Emit
  <2>2. place[r] \in Workers
    BY <1>4 DEF Emit, TypeOK
  <2>3. Append(wire[place[r]], [run |-> r, kind |-> kind]) \in Seq(Event)
    BY <1>1, <1>2, <2>2
  <2> QED
    BY <1>2, <2>1, <2>3
<1> QED
  BY <1>3, <1>4

LEMMA WorkType ==
  ASSUME TypeOK, Work
  PROVE  TypeOK'
<1>1. ASSUME NEW w \in Workers, NEW e \in outstanding[w], Receive(e) \/ Lose(e)
      PROVE  TypeOK'
  <2>1. /\ outstanding' \in [Workers -> SUBSET Envelopes]
        /\ received' \in [Workers -> SUBSET Envelopes]
        /\ lost' \in SUBSET Envelopes
    BY <1>1, ResolveType
  <2> QED
    BY <1>1, <2>1 DEF TypeOK, Receive, Lose, linkVars, streamVars, clientVars,
       workerVars, sessionVars
<1>2. ASSUME NEW w \in Workers, NEW e \in received[w], ServeCancel(e)
      PROVE  TypeOK'
  <2>1. e \in Envelopes /\ e.run \in Runs
    BY EnvelopeFields DEF TypeOK
  <2> QED
    BY <1>2, <2>1 DEF TypeOK, ServeCancel, mailVars, linkVars, streamVars,
       clientVars, sessionVars
<1>3. ASSUME NEW r \in Runs, Begin(r) PROVE TypeOK'
  BY <1>3 DEF TypeOK, Begin, mailVars, linkVars, streamVars, clientVars,
     sessionVars
<1>4. ASSUME NEW r \in Runs, Speak(r) PROVE TypeOK'
  <2>1. wire' \in [Workers -> Seq(Event)]
    BY <1>4, EmitType DEF Speak
  <2>2. logs' \in [Runs -> 0..MaxLogs]
    BY <1>4, ServiceAssumption DEF Speak, TypeOK
  <2> QED
    BY <1>4, <2>1, <2>2 DEF TypeOK, Speak, mailVars, linkVars, streamVars,
       clientVars, sessionVars
<1>5. ASSUME NEW r \in Runs, Finish(r) PROVE TypeOK'
  BY <1>5 DEF TypeOK, Finish, mailVars, linkVars, streamVars, clientVars,
     sessionVars
<1>6. ASSUME NEW r \in Runs, Report(r) PROVE TypeOK'
  <2>1. wire' \in [Workers -> Seq(Event)]
    BY <1>6, EmitType DEF Report
  <2> QED
    BY <1>6, <2>1 DEF TypeOK, Report, mailVars, linkVars, streamVars,
       clientVars, sessionVars
<1> QED
  BY <1>1, <1>2, <1>3, <1>4, <1>5, <1>6 DEF Work

\* What an event on the connection is.
LEMMA HeadOfWire ==
  ASSUME TypeOK, NEW w \in Workers, wire[w] # << >>
  PROVE  /\ Head(wire[w]).run \in Runs
         /\ Head(wire[w]) = wire[w][1] /\ 1 \in DOMAIN wire[w]
         /\ Tail(wire[w]) \in Seq(Event)
         /\ \A i \in DOMAIN Tail(wire[w]) :
              i + 1 \in DOMAIN wire[w] /\ Tail(wire[w])[i] = wire[w][i + 1]
<1>1. wire[w] \in Seq(Event)
  BY DEF TypeOK
<1>2. Head(wire[w]) \in Event
  BY <1>1
<1> QED
  BY <1>1, <1>2 DEF Event

LEMMA HandleEventType ==
  ASSUME TypeOK, NEW w \in Workers, HandleEvent(w)
  PROVE  TypeOK'
<1>1. Head(wire[w]).run \in Runs /\ wire' \in [Workers -> Seq(Event)]
  BY HeadOfWire DEF HandleEvent, TypeOK
<1>2. /\ lastAt' \in SUBSET Runs /\ doneAt' \in SUBSET Runs
      /\ silence' \in [Runs -> 0..Retention]
      /\ since' \in [Runs -> 0..Retention]
      /\ runs' \in [Runs -> Workers \cup {Nobody}]
  <2> DEFINE e == Head(wire[w])
  <2>1. /\ lastAt' = lastAt \cup {e.run}
        /\ silence' = [silence EXCEPT ![e.run] = 0]
        /\ \/ /\ doneAt' = doneAt \cup {e.run}
              /\ since' = [since EXCEPT ![e.run] = 0]
              /\ runs' = [runs EXCEPT ![e.run] = Nobody]
           \/ UNCHANGED <<doneAt, since, runs>>
    BY DEF HandleEvent
  <2>2. e.run \in Runs
    BY <1>1
  <2> HIDE DEF e
  <2>3. 0 \in 0..Retention
    BY ServiceAssumption
  <2>4. /\ silence' \in [Runs -> 0..Retention]
        /\ since' \in [Runs -> 0..Retention]
    <3>1. silence \in [Runs -> 0..Retention] /\ since \in [Runs -> 0..Retention]
      BY DEF TypeOK
    <3>2. silence' \in [Runs -> 0..Retention]
      BY <2>1, <2>2, <2>3, <3>1
    <3>3. since' \in [Runs -> 0..Retention]
      BY <2>1, <2>2, <2>3, <3>1
    <3> QED
      BY <3>2, <3>3
  <2> QED
    BY <2>1, <2>2, <2>4 DEF TypeOK
<1> QED
  BY <1>1, <1>2 DEF TypeOK, HandleEvent, mailVars, linkVars, clientVars,
     workerVars, sessionVars

LEMMA TimeType ==
  ASSUME TypeOK, cleanupLoop \/ Tick
  PROVE  TypeOK'
<1>1. CASE cleanupLoop
  BY <1>1 DEF TypeOK, cleanupLoop, Old, mailVars, linkVars, clientVars,
     workerVars
<1>2. CASE Tick
  <2>1. \A t, limit : limit \in Nat /\ t \in 0..limit => Older(t, limit) \in 0..limit
    BY DEF Older
  <2>2. /\ silence' \in [Runs -> 0..Retention]
        /\ since' \in [Runs -> 0..Retention]
        /\ age' \in [Sessions -> 0..SessionTTL]
    BY <1>2, <2>1, ServiceAssumption DEF Tick, TypeOK
  <2> QED
    BY <1>2, <2>2 DEF TypeOK, Tick, mailVars, linkVars, clientVars, workerVars
<1> QED
  BY <1>1, <1>2

LEMMA TypeStep == TypeOK /\ [Next]_vars => TypeOK'
<1>1. ASSUME TypeOK, UNCHANGED vars PROVE TypeOK'
  BY <1>1 DEF TypeOK, vars, mailVars, linkVars, streamVars, clientVars,
     workerVars, sessionVars
<1> QED
  BY <1>1, ConsoleType, ClientsType, LinkType, WorkType, HandleEventType,
     TimeType DEF Next

(***************************************************************************)
(* The state of the gateway, of its workers and of the console stays of    *)
(* its type, and whatever the gateway records of a stream, as done or in   *)
(* the table of runs, the cleanup can find: it has an entry in lastAt.     *)
(***************************************************************************)
THEOREM TypeCorrect == Spec => []TypeOK
BY TypeInit, TypeStep, PTL DEF Spec

-----------------------------------------------------------------------------
(* The actions as the rest sees them. *)

\* Only a dispatch adds to what has been sent, and nothing is taken back.
LEMMA SentStep ==
  ASSUME TypeOK, [Next]_vars
  PROVE  \/ Sent' = Sent
         \/ \E r \in Runs, w \in Workers :
              /\ createRun(r, w)
              /\ Sent' = Sent \cup {RunEnvelope(r, w)}
         \/ \E r \in Runs, n \in 1..MaxCancels :
              /\ handleCancelRun(r)
              /\ Sent' = Sent \cup {CancelEnvelope(r, runs[r], n)}
<1>1. ASSUME NEW r \in Runs, NEW w \in Workers, createRun(r, w)
      PROVE  Sent' = Sent \cup {RunEnvelope(r, w)}
  BY <1>1, DispatchType, EnvelopeTypes DEF createRun
<1>2. ASSUME NEW r \in Runs, handleCancelRun(r)
      PROVE  \E n \in 1..MaxCancels : Sent' = Sent \cup {CancelEnvelope(r, runs[r], n)}
  <2>1. runs[r] \in Workers
    BY <1>2 DEF handleCancelRun, TypeOK
  <2> QED
    BY <1>2, <2>1, DispatchType, EnvelopeTypes DEF handleCancelRun
<1>3. ASSUME NEW w \in Workers, NEW e \in outstanding[w], Receive(e) \/ Lose(e)
      PROVE  Sent' = Sent
  BY <1>3, ResolveType
<1>4. ASSUME UNCHANGED mailVars PROVE Sent' = Sent
  BY <1>4 DEF mailVars, Sent
<1>5. CASE Console
  <2>1. ASSUME NEW q \in Requests, NEW r \in Runs, NEW rt \in Runtimes,
               handleConsoleCreateRun(q, r, rt)
        PROVE  (\E w \in Workers : createRun(r, w)) \/ UNCHANGED mailVars
    BY <2>1 DEF handleConsoleCreateRun, pickWorkerForRuntime, TypeOK
  <2>2. ASSUME \/ \E s \in Sessions : createConsoleSession(s)
               \/ \E q \in Requests :
                    consoleSessionValid(q) \/ DeleteExpired(q) \/ Answered(q)
               \/ handleConsoleLogout
        PROVE  UNCHANGED mailVars
    BY <2>2 DEF createConsoleSession, consoleSessionValid, DeleteExpired,
       Answered, handleConsoleLogout, elsewhere
  <2> QED
    BY <1>1, <1>4, <1>5, <2>1, <2>2 DEF Console
<1>6. CASE Clients
  <2>1. ASSUME NEW r \in Runs, RecordRun(r) \/ Watch(r) PROVE UNCHANGED mailVars
    BY <2>1 DEF RecordRun, Watch
  <2> QED
    BY <1>1, <1>2, <1>4, <1>6, <2>1 DEF Clients, handleCreateRun
<1>7. CASE Link
  BY <1>4, <1>7 DEF Link, Connect, Drop, Unregister
<1>8. CASE Work
  <2>1. ASSUME NEW w \in Workers, NEW e \in received[w], ServeCancel(e)
        PROVE  UNCHANGED mailVars
    BY <2>1 DEF ServeCancel
  <2>2. ASSUME NEW r \in Runs, Begin(r) \/ Speak(r) \/ Finish(r) \/ Report(r)
        PROVE  UNCHANGED mailVars
    BY <2>2 DEF Begin, Speak, Finish, Report
  <2> QED
    BY <1>3, <1>4, <1>8, <2>1, <2>2 DEF Work
<1>9. ASSUME NEW w \in Workers, HandleEvent(w) PROVE UNCHANGED mailVars
  BY <1>9 DEF HandleEvent
<1>10. CASE cleanupLoop \/ Tick
  BY <1>4, <1>10 DEF cleanupLoop, Tick
<1>11. CASE UNCHANGED vars
  BY <1>4, <1>11 DEF vars
<1> QED
  BY <1>4, <1>5, <1>6, <1>7, <1>8, <1>9, <1>10, <1>11 DEF Next

-----------------------------------------------------------------------------
(***************************************************************************)
(* The invariant behind CancelFollowsRun: the worker a run is recorded for *)
(* is the one it was placed on, and its request has been sent there.       *)
(***************************************************************************)
PlacedIsSent ==
  \A r \in Runs :
    /\ place[r] # Nobody => RunEnvelope(r, place[r]) \in Sent
    /\ runs[r] # Nobody => runs[r] = place[r]

\* A place, once chosen, is kept, and runs only forgets or copies it.
LEMMA PlaceStep ==
  ASSUME TypeOK, [Next]_vars
  PROVE  \A r \in Runs :
           /\ \/ place'[r] = place[r]
              \/ \E w \in Workers : createRun(r, w) /\ place'[r] = w
           /\ runs'[r] \in {runs[r], place[r], Nobody}
           /\ runs'[r] = runs[r] \/ place'[r] = place[r]
<1> USE DEF TypeOK
<1>1. ASSUME NEW r \in Runs, NEW w \in Workers, createRun(r, w)
      PROVE  place' = [place EXCEPT ![r] = w] /\ runs' = runs
  BY <1>1 DEF createRun, streamVars
<1>2. CASE Console
  <2>1. ASSUME NEW q \in Requests, NEW r \in Runs, NEW rt \in Runtimes,
               handleConsoleCreateRun(q, r, rt)
        PROVE  \/ \E w \in Workers : createRun(r, w)
               \/ UNCHANGED <<place, runs>>
    BY <2>1 DEF handleConsoleCreateRun, pickWorkerForRuntime, clientVars,
       streamVars
  <2>2. ASSUME \/ \E s \in Sessions : createConsoleSession(s)
               \/ \E q \in Requests :
                    consoleSessionValid(q) \/ DeleteExpired(q) \/ Answered(q)
               \/ handleConsoleLogout
        PROVE  UNCHANGED <<place, runs>>
    BY <2>2 DEF createConsoleSession, consoleSessionValid, DeleteExpired,
       Answered, handleConsoleLogout, elsewhere, clientVars, streamVars
  <2> QED
    BY <1>1, <1>2, <2>1, <2>2 DEF Console
<1>3. CASE Clients
  <2>1. ASSUME NEW r \in Runs, RecordRun(r)
        PROVE  place' = place /\ runs' = [runs EXCEPT ![r] = place[r]]
    BY <2>1 DEF RecordRun
  <2>2. ASSUME NEW r \in Runs, handleCancelRun(r) \/ Watch(r)
        PROVE  UNCHANGED <<place, runs>>
    BY <2>2 DEF handleCancelRun, Watch, clientVars, streamVars
  <2> QED
    BY <1>1, <1>3, <2>1, <2>2 DEF Clients, handleCreateRun
<1>4. CASE Link
  BY <1>4 DEF Link, Connect, Drop, Unregister, clientVars, streamVars
<1>5. CASE Work
  BY <1>5 DEF Work, Receive, Lose, ServeCancel, Begin, Speak, Finish, Report,
     clientVars, streamVars
<1>6. ASSUME NEW w \in Workers, HandleEvent(w)
      PROVE  /\ place' = place
             /\ \A r \in Runs : runs'[r] \in {runs[r], Nobody}
  BY <1>6 DEF HandleEvent, clientVars
<1>7. CASE cleanupLoop
  BY <1>7 DEF cleanupLoop, clientVars
<1>8. CASE Tick \/ UNCHANGED vars
  BY <1>8 DEF Tick, vars, clientVars, streamVars
<1> QED
  BY <1>2, <1>3, <1>4, <1>5, <1>6, <1>7, <1>8 DEF Next

LEMMA PlacedIsSentStep ==
  ASSUME TypeOK, PlacedIsSent, [Next]_vars
  PROVE  PlacedIsSent'
<1>1. Sent \subseteq Sent'
  BY SentStep
<1>2. ASSUME NEW r \in Runs, NEW w \in Workers, createRun(r, w)
      PROVE  RunEnvelope(r, w) \in Sent' /\ place[r] = Nobody
  BY <1>2, DispatchType, EnvelopeTypes DEF createRun
<1>3. ASSUME NEW r \in Runs, place'[r] # Nobody
      PROVE  RunEnvelope(r, place'[r]) \in Sent'
  <2>1. CASE place'[r] = place[r]
    BY <1>1, <1>3, <2>1 DEF PlacedIsSent
  <2>2. ASSUME NEW w \in Workers, createRun(r, w), place'[r] = w
        PROVE  RunEnvelope(r, place'[r]) \in Sent'
    BY <1>2, <2>2
  <2> QED
    BY <2>1, <2>2, PlaceStep
<1>4. ASSUME NEW r \in Runs, runs'[r] # Nobody
      PROVE  runs'[r] = place'[r]
  <2>1. CASE place'[r] = place[r]
    BY <1>4, <2>1, PlaceStep DEF PlacedIsSent
  <2>2. ASSUME NEW w \in Workers, createRun(r, w), place'[r] = w
        PROVE  runs'[r] = place'[r]
    <3>1. place[r] = Nobody /\ w # Nobody
      BY <1>2, <2>2, ServiceAssumption
    <3>2. runs'[r] = runs[r]
      BY <2>2, <3>1, PlaceStep
    <3> QED
      BY <1>4, <3>1, <3>2 DEF PlacedIsSent
  <2> QED
    BY <2>1, <2>2, PlaceStep
<1> QED
  BY <1>3, <1>4 DEF PlacedIsSent, RunEnvelope

LEMMA CancelFollowsRunStep ==
  ASSUME TypeOK, PlacedIsSent, CancelFollowsRun, [Next]_vars
  PROVE  CancelFollowsRun'
<1> SUFFICES ASSUME NEW e \in Sent', e.kind = "cancel"
             PROVE  RunEnvelope(e.run, e.worker) \in Sent'
  BY DEF CancelFollowsRun, RunEnvelope
<1>1. Sent \subseteq Sent'
  BY SentStep
<1>2. CASE e \in Sent
  BY <1>1, <1>2 DEF CancelFollowsRun
<1>3. CASE e \notin Sent
  <2>1. PICK r \in Runs, n \in 1..MaxCancels :
          handleCancelRun(r) /\ e = CancelEnvelope(r, runs[r], n)
    BY <1>3, SentStep DEF RunEnvelope
  <2>2. e.run = r /\ e.worker = runs[r] /\ runs[r] = place[r]
        /\ place[r] # Nobody
    BY <2>1 DEF CancelEnvelope, handleCancelRun, PlacedIsSent
  <2> QED
    BY <1>1, <2>2 DEF PlacedIsSent
<1> QED
  BY <1>2, <1>3

(***************************************************************************)
(* Every cancel the gateway has sent is for a worker that has been sent    *)
(* the run: a client can cancel a run only when it is recorded, which      *)
(* createRun does after the dispatch and for the worker it has chosen.     *)
(***************************************************************************)
THEOREM CancelsFollow == Spec => []CancelFollowsRun
<1>1. Init => PlacedIsSent /\ CancelFollowsRun
  BY DEF Init, PlacedIsSent, CancelFollowsRun, Sent, Mail!MailboxInit
<1>2. TypeOK /\ PlacedIsSent /\ CancelFollowsRun /\ [Next]_vars
        => (PlacedIsSent /\ CancelFollowsRun)'
  BY PlacedIsSentStep, CancelFollowsRunStep
<1> QED
  BY <1>1, <1>2, TypeInit, TypeStep, PTL DEF Spec

-----------------------------------------------------------------------------
(***************************************************************************)
(* The invariant behind SessionLivesItsTerm: identifiers are given out     *)
(* once, so the one a request has found expired is still expired, or gone, *)
(* when the request comes to delete it.                                    *)
(***************************************************************************)
HeldIsExpired ==
  /\ consoleSessions \subseteq issued
  /\ cookie # NoSession => cookie \in issued
  /\ \A q \in Requests : request[q] = "stale" =>
       held[q] \in issued /\ age[held[q]] = SessionTTL

LEMMA SessionStep ==
  ASSUME TypeOK, [Next]_vars
  PROVE  \/ UNCHANGED <<consoleSessions, age, issued, cookie, held>>
              /\ \A q \in Requests : request'[q] = "stale" => request[q] = "stale"
         \/ \E s \in Sessions : createConsoleSession(s)
         \/ \E q \in Requests : consoleSessionValid(q) \/ DeleteExpired(q)
         \/ handleConsoleLogout
         \/ cleanupLoop
         \/ Tick
<1>1. ASSUME UNCHANGED sessionVars
      PROVE  /\ UNCHANGED <<consoleSessions, age, issued, cookie, held>>
             /\ \A q \in Requests : request'[q] = "stale" => request[q] = "stale"
  BY <1>1 DEF sessionVars
<1>2. CASE Console
  <2>1. ASSUME NEW q \in Requests, NEW r \in Runs, NEW rt \in Runtimes,
               Answered(q) \/ handleConsoleCreateRun(q, r, rt)
        PROVE  /\ UNCHANGED <<consoleSessions, age, issued, cookie, held>>
               /\ request' = [request EXCEPT ![q] = "idle"]
    BY <2>1 DEF Answered, handleConsoleCreateRun
  <2>2. ASSUME NEW q \in Requests, request' = [request EXCEPT ![q] = "idle"]
        PROVE  \A p \in Requests : request'[p] = "stale" => request[p] = "stale"
    BY <2>2 DEF TypeOK
  <2>3. ASSUME NEW q \in Requests, Answered(q)
        PROVE  /\ UNCHANGED <<consoleSessions, age, issued, cookie, held>>
               /\ request' = [request EXCEPT ![q] = "idle"]
    BY <2>3 DEF Answered
  <2> QED
    BY <1>2, <2>1, <2>2, <2>3 DEF Console
<1>3. CASE Clients
  BY <1>1, <1>3 DEF Clients, handleCreateRun, RecordRun, handleCancelRun, Watch
<1>4. CASE Link
  BY <1>1, <1>4 DEF Link, Connect, Drop, Unregister
<1>5. CASE Work
  BY <1>1, <1>5 DEF Work, Receive, Lose, ServeCancel, Begin, Speak, Finish,
     Report
<1>6. ASSUME NEW w \in Workers, HandleEvent(w) PROVE UNCHANGED sessionVars
  BY <1>6 DEF HandleEvent
<1> QED
  BY <1>1, <1>2, <1>3, <1>4, <1>5, <1>6 DEF Next, vars

LEMMA HeldIsExpiredStep ==
  ASSUME TypeOK, HeldIsExpired, [Next]_vars
  PROVE  HeldIsExpired'
<1> USE DEF TypeOK, HeldIsExpired
<1>1. CASE /\ UNCHANGED <<consoleSessions, age, issued, cookie, held>>
           /\ \A q \in Requests : request'[q] = "stale" => request[q] = "stale"
  BY <1>1
<1>2. ASSUME NEW s \in Sessions, createConsoleSession(s) PROVE HeldIsExpired'
  <2>1. \A x \in issued : age'[x] = age[x]
    BY <1>2 DEF createConsoleSession
  <2> QED
    BY <1>2, <2>1 DEF createConsoleSession
<1>3. ASSUME NEW q \in Requests, consoleSessionValid(q) PROVE HeldIsExpired'
  <2>1. cookie \in issued /\ cookie \in Sessions
    BY <1>3 DEF consoleSessionValid
  <2>2. CASE age[cookie] < SessionTTL
    BY <1>3, <2>2 DEF consoleSessionValid
  <2>3. CASE ~(age[cookie] < SessionTTL)
    <3>1. age[cookie] = SessionTTL
      BY <2>1, <2>3, ServiceAssumption
    <3> QED
      BY <1>3, <2>1, <2>3, <3>1 DEF consoleSessionValid
  <2> QED
    BY <2>2, <2>3
<1>4. ASSUME NEW q \in Requests, DeleteExpired(q) PROVE HeldIsExpired'
  BY <1>4 DEF DeleteExpired
<1>5. CASE handleConsoleLogout
  BY <1>5 DEF handleConsoleLogout
<1>6. CASE cleanupLoop
  BY <1>6 DEF cleanupLoop
<1>7. CASE Tick
  <2>1. \A s \in Sessions : age[s] = SessionTTL => age'[s] = SessionTTL
    BY <1>7, ServiceAssumption DEF Tick, Older
  <2> QED
    BY <1>7, <2>1 DEF Tick
<1> QED
  BY <1>1, <1>2, <1>3, <1>4, <1>5, <1>6, <1>7, SessionStep

LEMMA TermStep ==
  ASSUME TypeOK, HeldIsExpired, [Next]_vars,
         NEW s \in consoleSessions \ consoleSessions'
  PROVE  age[s] = SessionTTL \/ (cookie = s /\ cookie' = NoSession)
<1>1. s \in Sessions
  BY DEF TypeOK
<1>2. ASSUME NEW q \in Requests, DeleteExpired(q) PROVE age[s] = SessionTTL
  BY <1>2 DEF DeleteExpired, HeldIsExpired
<1>3. CASE handleConsoleLogout
  BY <1>3 DEF handleConsoleLogout
<1>4. CASE cleanupLoop
  BY <1>1, <1>4, ServiceAssumption DEF cleanupLoop, TypeOK
<1> QED
  BY <1>2, <1>3, <1>4, SessionStep DEF createConsoleSession, consoleSessionValid, Tick

(***************************************************************************)
(* A console session ends by its age or by a logout and in no other way,   *)
(* although consoleSessionValid deletes what it has looked up under a lock *)
(* it has let go of.                                                       *)
(***************************************************************************)
THEOREM SessionsLast == Spec => SessionLivesItsTerm
<1>1. Init => HeldIsExpired
  BY DEF Init, HeldIsExpired
<1>2. TypeOK /\ HeldIsExpired /\ [Next]_vars => HeldIsExpired'
  BY HeldIsExpiredStep
<1>3. TypeOK /\ HeldIsExpired /\ [Next]_vars
        => [\A s \in consoleSessions \ consoleSessions' :
              age[s] = SessionTTL \/ (cookie = s /\ cookie' = NoSession)]_vars
  BY TermStep
<1> QED
  BY <1>1, <1>2, <1>3, TypeInit, TypeStep, PTL DEF Spec, SessionLivesItsTerm

-----------------------------------------------------------------------------
(***************************************************************************)
(* The invariant behind KnownUntilSilent: a run whose COMPLETED is on the  *)
(* connection or has been handled is over, and a stream at the end of the  *)
(* retention has been noticed to be silent.                                *)
(***************************************************************************)
CompletedIsOver ==
  /\ \A w \in Workers : \A i \in DOMAIN wire[w] :
       wire[w][i].kind = "completed" => agent[wire[w][i].run] = "over"
  /\ \A r \in doneAt : agent[r] = "over"

SilenceNoticed == \A r \in lastAt : silence[r] = Retention => r \in forgetful

\* A run that is over stays over.
LEMMA AgentStep ==
  ASSUME TypeOK, [Next]_vars
  PROVE  \A r \in Runs : agent[r] = "over" => agent'[r] = "over"
<1> USE DEF TypeOK
<1>1. CASE UNCHANGED workerVars
  BY <1>1 DEF workerVars
<1>2. CASE Console
  BY <1>1, <1>2 DEF Console, createConsoleSession, consoleSessionValid,
     DeleteExpired, Answered, handleConsoleLogout, handleConsoleCreateRun,
     createRun, elsewhere
<1>3. CASE Clients
  BY <1>1, <1>3 DEF Clients, handleCreateRun, createRun, RecordRun,
     handleCancelRun, Watch
<1>4. CASE Link
  <2>1. ASSUME NEW w \in Workers, Drop(w)
        PROVE  \A r \in Runs : agent[r] = "over" => agent'[r] = "over"
    BY <2>1 DEF Drop
  <2> QED
    BY <1>1, <1>4, <2>1 DEF Link, Connect, Unregister
<1>5. CASE Work
  <2>1. ASSUME NEW w \in Workers, NEW e \in outstanding[w], Receive(e) \/ Lose(e)
        PROVE  UNCHANGED workerVars
    BY <2>1 DEF Receive, Lose
  <2>2. ASSUME NEW w \in Workers, NEW e \in received[w], ServeCancel(e)
        PROVE  \A r \in Runs : agent[r] = "over" => agent'[r] = "over"
    BY <2>2 DEF ServeCancel
  <2>3. ASSUME NEW r \in Runs, Begin(r) \/ Speak(r) \/ Finish(r) \/ Report(r)
        PROVE  \A s \in Runs : agent[s] = "over" => agent'[s] = "over"
    BY <2>3 DEF Begin, Speak, Finish, Report
  <2> QED
    BY <1>1, <1>5, <2>1, <2>2, <2>3 DEF Work
<1>6. ASSUME NEW w \in Workers, HandleEvent(w) PROVE UNCHANGED workerVars
  BY <1>6 DEF HandleEvent
<1>7. CASE cleanupLoop \/ Tick \/ UNCHANGED vars
  BY <1>1, <1>7 DEF cleanupLoop, Tick, vars
<1> QED
  BY <1>1, <1>2, <1>3, <1>4, <1>5, <1>6, <1>7 DEF Next

\* The steps that change a stream or the connection.
LEMMA StreamStep ==
  ASSUME [Next]_vars
  PROVE  \/ UNCHANGED <<streamVars, wire, created>>
         \/ \E r \in Runs : RecordRun(r) \/ Watch(r) \/ Speak(r) \/ Report(r)
         \/ \E w \in Workers : Drop(w) \/ HandleEvent(w)
         \/ cleanupLoop
         \/ Tick
<1>1. CASE Console
  BY <1>1 DEF Console, createConsoleSession, consoleSessionValid,
     DeleteExpired, Answered, handleConsoleLogout, handleConsoleCreateRun,
     createRun, elsewhere, clientVars
<1>2. CASE Clients
  BY <1>2 DEF Clients, handleCreateRun, createRun, handleCancelRun, clientVars
<1>3. CASE Link
  BY <1>3 DEF Link, Connect, Unregister, clientVars
<1>4. CASE Work
  BY <1>4 DEF Work, Receive, Lose, ServeCancel, Begin, Finish, clientVars
<1> QED
  BY <1>1, <1>2, <1>3, <1>4 DEF Next, vars, clientVars

LEMMA CompletedIsOverStep ==
  ASSUME TypeOK, CompletedIsOver, [Next]_vars
  PROVE  CompletedIsOver'
<1>1. \A r \in Runs : agent[r] = "over" => agent'[r] = "over"
  BY AgentStep
<1>2. \A w \in Workers : wire[w] \in Seq(Event)
  BY DEF TypeOK
<1>3. \A w \in Workers : \A i \in DOMAIN wire[w] : wire[w][i].run \in Runs
  <2>1. ASSUME NEW w \in Workers, NEW i \in DOMAIN wire[w]
        PROVE  wire[w][i] \in Event
    BY <1>2, <2>1
  <2> QED
    BY <2>1 DEF Event
<1>4. CASE UNCHANGED <<wire, doneAt>>
  BY <1>1, <1>3, <1>4 DEF CompletedIsOver, TypeOK
<1>5. ASSUME NEW r \in Runs, NEW kind \in {"log", "completed"}, Emit(r, kind),
             kind = "completed" => agent'[r] = "over", UNCHANGED doneAt
      PROVE  CompletedIsOver'
  <2>1. SUFFICES ASSUME NEW w \in Workers, NEW i \in DOMAIN wire'[w],
                        wire'[w][i].kind = "completed"
                 PROVE  agent'[wire'[w][i].run] = "over"
    BY <1>1, <1>5 DEF CompletedIsOver, TypeOK
  <2>2. CASE wire'[w] = wire[w]
    BY <1>1, <1>3, <2>1, <2>2 DEF CompletedIsOver
  <2>3. CASE wire'[w] = Append(wire[w], [run |-> r, kind |-> kind])
    <3>1. CASE i \in DOMAIN wire[w]
      BY <1>1, <1>2, <1>3, <2>1, <2>3, <3>1 DEF CompletedIsOver
    <3>2. CASE i \notin DOMAIN wire[w]
      <4>1. wire'[w][i] = [run |-> r, kind |-> kind]
        BY <1>2, <2>1, <2>3, <3>2
      <4> QED
        BY <1>5, <2>1, <4>1
    <3> QED
      BY <3>1, <3>2
  <2> QED
    BY <1>5, <2>2, <2>3 DEF Emit, TypeOK
<1>6. ASSUME NEW r \in Runs, Speak(r) \/ Report(r) PROVE CompletedIsOver'
  <2>1. CASE Speak(r)
    BY <1>5, <2>1 DEF Speak, streamVars
  <2>2. CASE Report(r)
    BY <1>5, <2>2 DEF Report, streamVars, TypeOK
  <2> QED
    BY <1>6, <2>1, <2>2
<1>7. ASSUME NEW w \in Workers, Drop(w) PROVE CompletedIsOver'
  BY <1>1, <1>3, <1>7 DEF Drop, CompletedIsOver, TypeOK, streamVars
<1>8. ASSUME NEW w \in Workers, HandleEvent(w) PROVE CompletedIsOver'
  <2> DEFINE e == Head(wire[w])
  <2>1. /\ e.run \in Runs /\ e = wire[w][1] /\ 1 \in DOMAIN wire[w]
        /\ \A i \in DOMAIN Tail(wire[w]) :
             i + 1 \in DOMAIN wire[w] /\ Tail(wire[w])[i] = wire[w][i + 1]
    BY <1>8, HeadOfWire DEF HandleEvent
  <2>2. /\ wire' = [wire EXCEPT ![w] = Tail(@)]
        /\ \/ e.kind = "completed" /\ doneAt' = doneAt \cup {e.run}
           \/ doneAt' = doneAt
    BY <1>8 DEF HandleEvent
  <2>3. e.kind = "completed" => agent[e.run] = "over"
    BY <2>1 DEF CompletedIsOver
  <2>4. ASSUME NEW r \in doneAt' PROVE agent'[r] = "over"
    <3>1. r \in doneAt \/ (r = e.run /\ e.kind = "completed")
      BY <2>2, <2>4
    <3> HIDE DEF e
    <3> QED
      BY <1>1, <2>1, <2>3, <3>1 DEF CompletedIsOver, TypeOK
  <2>5. ASSUME NEW v \in Workers, NEW i \in DOMAIN wire'[v],
               wire'[v][i].kind = "completed"
        PROVE  agent'[wire'[v][i].run] = "over"
    <3>1. CASE v # w
      <4>1. wire'[v] = wire[v]
        BY <2>2, <3>1 DEF TypeOK
      <4> QED
        BY <1>1, <1>3, <2>5, <4>1 DEF CompletedIsOver
    <3>2. CASE v = w
      <4>1. wire'[v] = Tail(wire[w])
        BY <2>2, <3>2 DEF TypeOK
      <4>2. i + 1 \in DOMAIN wire[w] /\ wire'[v][i] = wire[w][i + 1]
        BY <2>1, <2>5, <4>1
      <4> QED
        BY <1>1, <1>3, <2>5, <4>2 DEF CompletedIsOver
    <3> QED
      BY <3>1, <3>2
  <2> QED
    BY <2>4, <2>5 DEF CompletedIsOver
<1>9. CASE cleanupLoop
  BY <1>1, <1>3, <1>9 DEF cleanupLoop, CompletedIsOver, TypeOK
<1> QED
  BY <1>4, <1>6, <1>7, <1>8, <1>9, StreamStep DEF streamVars, RecordRun, Watch, Tick

LEMMA SilenceNoticedStep ==
  ASSUME TypeOK, SilenceNoticed, [Next]_vars
  PROVE  SilenceNoticed'
<1> USE DEF SilenceNoticed
<1>1. CASE UNCHANGED <<lastAt, silence, forgetful>>
  BY <1>1
<1>2. ASSUME NEW r \in Runs, lastAt' = lastAt \cup {r}, forgetful' = forgetful,
             silence' = [silence EXCEPT ![r] = 0]
      PROVE  SilenceNoticed'
  BY <1>2, ServiceAssumption DEF TypeOK
<1>3. ASSUME NEW r \in Runs, RecordRun(r) PROVE SilenceNoticed'
  BY <1>2, <1>3 DEF RecordRun
<1>4. ASSUME NEW w \in Workers, HandleEvent(w) PROVE SilenceNoticed'
  <2>1. Head(wire[w]).run \in Runs
    BY <1>4, HeadOfWire DEF HandleEvent
  <2> QED
    BY <1>2, <1>4, <2>1 DEF HandleEvent
<1>5. CASE cleanupLoop
  BY <1>5 DEF cleanupLoop
<1>6. CASE Tick
  BY <1>6 DEF Tick
<1> QED
  BY <1>1, <1>3, <1>4, <1>5, <1>6, StreamStep
  DEF streamVars, Watch, Speak, Report, Drop

LEMMA KnownStep ==
  ASSUME TypeOK, CompletedIsOver, SilenceNoticed, KnownUntilSilent, [Next]_vars
  PROVE  KnownUntilSilent'
<1>1. \A r \in Runs : agent[r] = "over" => agent'[r] = "over"
  BY AgentStep
<1>2. ASSUME UNCHANGED <<runs, created>>, forgetful \subseteq forgetful'
      PROVE  KnownUntilSilent'
  BY <1>1, <1>2 DEF KnownUntilSilent, TypeOK
<1>3. ASSUME NEW r \in Runs, RecordRun(r) PROVE KnownUntilSilent'
  BY <1>1, <1>3 DEF RecordRun, KnownUntilSilent, TypeOK
<1>4. ASSUME NEW w \in Workers, HandleEvent(w) PROVE KnownUntilSilent'
  <2> DEFINE e == Head(wire[w])
  <2>1. e.run \in Runs /\ (e.kind = "completed" => agent[e.run] = "over")
    BY <1>4, HeadOfWire DEF HandleEvent, CompletedIsOver
  <2>2. /\ created' = created /\ forgetful' = forgetful
        /\ \/ e.kind = "completed" /\ runs' = [runs EXCEPT ![e.run] = Nobody]
           \/ runs' = runs
    BY <1>4 DEF HandleEvent, clientVars
  <2> HIDE DEF e
  <2> QED
    BY <1>1, <2>1, <2>2 DEF KnownUntilSilent, TypeOK
<1>5. CASE cleanupLoop
  BY <1>1, <1>5 DEF cleanupLoop, Old, KnownUntilSilent, CompletedIsOver,
     SilenceNoticed, clientVars, TypeOK
<1> QED
  BY <1>2, <1>3, <1>4, <1>5, StreamStep
  DEF streamVars, clientVars, Watch, Speak, Report, Drop, Tick

(***************************************************************************)
(* The gateway forgets a run that is going on only if it has heard nothing *)
(* of it for the whole retention once: nobody is refused a cancel for a    *)
(* run that speaks.                                                        *)
(***************************************************************************)
THEOREM KnownWhileHeard == Spec => []KnownUntilSilent
<1>1. Init => CompletedIsOver /\ SilenceNoticed /\ KnownUntilSilent
  BY DEF Init, CompletedIsOver, SilenceNoticed, KnownUntilSilent
<1>2. TypeOK /\ CompletedIsOver /\ SilenceNoticed /\ KnownUntilSilent /\ [Next]_vars
        => (CompletedIsOver /\ SilenceNoticed /\ KnownUntilSilent)'
  BY CompletedIsOverStep, SilenceNoticedStep, KnownStep
<1> QED
  BY <1>1, <1>2, TypeInit, TypeStep, PTL DEF Spec
=============================================================================
