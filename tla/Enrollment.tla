------------------------------ MODULE Enrollment ------------------------------
(***************************************************************************)
(* One machine becomes a worker: its bootstrap                             *)
(* (pkg/worker/bootstrap_remote.go, called by cmd/worker/main.go), the     *)
(* handlers it polls (pkg/server/pairing_handlers.go) over the store of    *)
(* PairingStore, and the check of its identity when it connects            *)
(* (handleWorkerConnect).  Other machines and administrators use the store *)
(* at the same time.                                                       *)
(*                                                                         *)
(* The gateway has a token of its own, since nothing can be approved       *)
(* without one.  An answer may be lost after the gateway has acted, and    *)
(* the program may be stopped anywhere.                                    *)
(***************************************************************************)
EXTENDS PairingStore

CONSTANTS
  Own,    \* a worker_id chosen in the local configuration
  Fresh   \* the "worker-<time>" that Start makes up when there is none

ASSUME EnrollmentAssumption ==
  /\ Own # Fresh
  /\ {Own, Fresh} \cap (Workers \cup {None}) = {}

VARIABLES
  pc,        \* where the worker's program is
  boot,      \* worker_id of the local configuration, or None
  memory,    \* the bootstrapState in memory
  state,     \* state.json
  asked,     \* the pairing request it made last, or None
  expected,  \* the worker its connection's token is bound to, or None
  session    \* identifier the gateway has registered the connection under

program == <<pc, boot, memory, state, asked, expected, session>>
enrollmentVars == <<vars, program>>

BootstrapState ==
  [id : Workers \cup {Own, None}, token : Tokens \cup {None}]

Blank == [id |-> None, token |-> None]

ProgramTypeOK ==
  /\ pc \in {"down", "create", "poll", "save", "dial", "hello", "served"}
  /\ boot \in Workers \cup {Own, None}
  /\ memory \in BootstrapState
  /\ state \in BootstrapState
  /\ asked \in Ids \cup {None}
  /\ expected \in Workers \cup {None}
  /\ expected # None <=> pc \in {"hello", "served"}
  /\ session \in Workers \cup {Own, Fresh, None}
  /\ session # None <=> pc = "served"
  /\ pc \in {"save", "dial", "hello", "served"} => memory.token # None

EnrollmentTypeOK == TypeOK /\ ProgramTypeOK

EnrollmentInit ==
  /\ Init
  /\ pc = "down"
  /\ boot \in {None, Own}
  /\ memory = Blank
  /\ state = Blank
  /\ asked = None
  /\ expected = None
  /\ session = None

-----------------------------------------------------------------------------
(* BootstrapFromRemote *)

\* The program ends, with an error or killed.
Exit ==
  /\ pc' = "down"
  /\ memory' = Blank
  /\ UNCHANGED <<boot, state, asked>>

\* The operator: an identifier can be taken from the console's list of
\* workers, and the state is cleared to pair again after a revocation.
Reconfigure ==
  /\ pc = "down"
  /\ \/ boot' \in {None, Own} \cup (Workers \cap used) /\ UNCHANGED state
     \/ state' = Blank /\ UNCHANGED boot
  /\ UNCHANGED <<vars, pc, memory, asked, expected, session>>

Bootstrap ==
  /\ pc = "down"
  /\ memory' = [state EXCEPT !.id = IF @ = None THEN boot ELSE @]
  /\ pc' = IF state.token = None THEN "create" ELSE "dial"
  /\ UNCHANGED <<vars, boot, state, asked, expected, session>>

\* POST /v1/worker/pairing.  Without an answer the program ends; so it does
\* when it enrolls with an enroll token, for which the gateway has no route.
Create ==
  /\ pc = "create"
  /\ \/ \E id \in Ids :
          /\ CreatePairingRequest(id)
          /\ \/ /\ pc' = "poll"
                /\ asked' = id
                /\ UNCHANGED <<boot, memory, state>>
             \/ Exit
     \/ Exit /\ UNCHANGED vars
  /\ UNCHANGED <<expected, session>>

\* handleWorkerPairingStatus.
Answer(id) ==
  IF requests[id] = None THEN "not found"
  ELSE IF requests[id].age = "past" THEN "expired"
  ELSE requests[id].status

Asked(id) ==
  IF Answer(id) \in {"approved", "rejected"} /\ requests[id].token # None
  THEN PollPairingRequest(id)
  ELSE UNCHANGED vars

\* Mutant: 404 is taken for one of the status codes that are tried again.
TakeAnswerPatient(answer, token) ==
  \/ /\ answer = "approved"
     /\ memory' = [memory EXCEPT !.token = token]
     /\ pc' = "save"
     /\ UNCHANGED <<boot, state, asked>>
  \/ answer \in {"pending", "not found"}
     /\ UNCHANGED <<pc, boot, memory, state, asked>>
  \/ answer \in {"rejected", "expired"} /\ Exit

\* The loop goes on while the request is pending.
TakeAnswer(answer, token) ==
  \/ /\ answer = "approved"
     /\ memory' = [memory EXCEPT !.token = token]
     /\ pc' = "save"
     /\ UNCHANGED <<boot, state, asked>>
  \/ answer = "pending" /\ UNCHANGED <<pc, boot, memory, state, asked>>
  \/ answer \in {"rejected", "expired", "not found"} /\ Exit

Poll(arrives) ==
  /\ pc = "poll"
  /\ call = None
  /\ Asked(asked)
  /\ IF arrives
     THEN TakeAnswer(Answer(asked),
            IF requests[asked] = None THEN None ELSE requests[asked].token)
     ELSE UNCHANGED <<pc, boot, memory, state, asked>>
  /\ UNCHANGED <<expected, session>>

\* writeBootstrapState, which may fail.
Save ==
  /\ pc = "save"
  /\ \/ state' = memory /\ pc' = "dial" /\ UNCHANGED <<boot, memory, asked>>
     \/ Exit
  /\ UNCHANGED <<vars, expected, session>>

-----------------------------------------------------------------------------
(* Worker.Start and handleWorkerConnect *)

\* The identifier in the hello.
HelloId == IF memory.id = None THEN Fresh ELSE memory.id

\* A token that is refused is tried again, at growing intervals.
Dial ==
  /\ pc = "dial"
  /\ call = None
  /\ Valid(memory.token)
  /\ pc' = "hello"
  /\ expected' = index[memory.token]
  /\ UNCHANGED <<vars, boot, memory, state, asked, session>>

\* Mutant: the handler returns without forgetting the session.
LostRegistered ==
  /\ pc' = "dial"
  /\ expected' = None
  /\ UNCHANGED session

Lost ==
  /\ pc' = "dial"
  /\ expected' = None
  /\ session' = None

\* Mutant: the token opens the gateway for any identifier.
HelloUnbound ==
  /\ pc = "hello"
  /\ pc' = "served"
  /\ session' = HelloId
  /\ UNCHANGED <<vars, boot, memory, state, asked, expected>>

\* The gateway hangs up on any other identifier than the token's.
Hello ==
  /\ pc = "hello"
  /\ IF HelloId = expected
     THEN pc' = "served" /\ session' = HelloId /\ UNCHANGED expected
     ELSE Lost
  /\ UNCHANGED <<vars, boot, memory, state, asked>>

Disconnect ==
  /\ pc \in {"hello", "served"}
  /\ Lost
  /\ UNCHANGED <<vars, boot, memory, state, asked>>

Crash ==
  /\ pc # "down"
  /\ Exit
  /\ expected' = None
  /\ session' = None
  /\ UNCHANGED vars

-----------------------------------------------------------------------------
\* Other machines: nobody else has the secret of this machine's request.
Others ==
  /\ \/ \E id \in Ids : CreatePairingRequest(id)
     \/ \E id \in Ids \ {asked} : PollPairingRequest(id)
     \/ Change
  /\ UNCHANGED program

EnrollmentNext ==
  \/ Reconfigure \/ Bootstrap \/ Create \/ Save
  \/ \E arrives \in BOOLEAN : Poll(arrives)
  \/ Dial \/ Hello \/ Disconnect \/ Crash
  \/ Others

EnrollmentSpec == EnrollmentInit /\ [][EnrollmentNext]_enrollmentVars

\* The loop keeps polling and answers keep coming, the clock runs, and a call
\* that holds the store's mutex goes on.  Strong fairness of the poll is that
\* of sync.Mutex: a goroutine that waits for it is not passed over forever.
EnrollmentFairness ==
  /\ SF_enrollmentVars(Poll(TRUE))
  /\ \A id \in Ids : WF_enrollmentVars(Age(id) /\ UNCHANGED program)
  /\ WF_enrollmentVars(call # None /\ Others)

EnrollmentFairSpec == EnrollmentSpec /\ EnrollmentFairness

-----------------------------------------------------------------------------
(* Properties *)

(***************************************************************************)
(* A connection is registered under the identifier of the worker that its  *)
(* token was made for, whatever the local configuration and the state file *)
(* say and whatever happens to the token between the upgrade and the       *)
(* hello; only a revocation since then makes the record differ.            *)
(***************************************************************************)
IdentityBound ==
  session # None =>
    /\ session \in Workers
    /\ records[session] = memory.token \/ memory.token \in revoked

(***************************************************************************)
(* A machine that waits for its approval does not wait forever: it is      *)
(* approved or rejected, or its request expires or is swept, also when the *)
(* answer that carried the token was lost.                                 *)
(***************************************************************************)
PairingEnds == pc = "poll" ~> pc # "poll"

(***************************************************************************)
(* bootstrap_remote.go:49, "BootstrapFromRemote enrolls or pairs with the  *)
(* gateway and returns a Config populated with the worker ID, token, and   *)
(* bootstrap parameters": a machine that has paired says hello with the    *)
(* identifier its token is bound to.  The answer to the poll has no        *)
(* identifier, so the program uses its own or makes one up, and the        *)
(* gateway hangs up on it unless an operator has configured the identifier.*)
(***************************************************************************)
PairedWorkerAccepted ==
  pc = "hello" /\ boot = None /\ Valid(memory.token) => HelloId = expected
=============================================================================
