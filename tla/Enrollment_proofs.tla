--------------------------- MODULE Enrollment_proofs ---------------------------
(***************************************************************************)
(* Theorems about Enrollment, for any number of requests, workers and      *)
(* tokens.  Every step of the machine is a step of the store of            *)
(* PairingStore or leaves it alone, so what is proved of that store in     *)
(* PairingStore_proofs holds here too.                                     *)
(***************************************************************************)
EXTENDS Enrollment, PairingStore_proofs

\* A poll is about a request.
Asking == pc = "poll" => asked \in Ids

LEMMA AskingInvariant == EnrollmentSpec => []Asking
<1>1. EnrollmentInit => Asking
  BY DEF EnrollmentInit, Asking
<1>2. Asking /\ [EnrollmentNext]_enrollmentVars => Asking'
  <2> SUFFICES ASSUME Asking, [EnrollmentNext]_enrollmentVars PROVE Asking'
    OBVIOUS
  <2>1. CASE \E arrives \in BOOLEAN : Poll(arrives)
    BY <2>1 DEF Poll, TakeAnswer, Exit, Asking
  <2>2. CASE Create
    BY <2>2 DEF Create, Exit, Asking
  <2>3. CASE Reconfigure \/ Bootstrap \/ Save \/ Dial
    BY <2>3 DEF Reconfigure, Bootstrap, Save, Exit, Dial, Asking
  <2>4. CASE Hello \/ Disconnect \/ Crash
    BY <2>4 DEF Hello, Disconnect, Crash, Lost, Exit, Asking
  <2>5. CASE UNCHANGED program
    BY <2>5 DEF program, Asking
  <2> QED
    BY <2>1, <2>2, <2>3, <2>4, <2>5 DEF EnrollmentNext, enrollmentVars, Others
<1> QED
  BY <1>1, <1>2, PTL DEF EnrollmentSpec

LEMMA StoreStep == Asking /\ EnrollmentNext => [Next]_vars
<1> SUFFICES ASSUME Asking, EnrollmentNext PROVE [Next]_vars
  OBVIOUS
<1>1. Reconfigure \/ Bootstrap \/ Save => UNCHANGED vars
  BY DEF Reconfigure, Bootstrap, Save
<1>2. Dial \/ Hello \/ Disconnect \/ Crash => UNCHANGED vars
  BY DEF Dial, Hello, Disconnect, Crash
<1>3. Create => [Next]_vars
  BY DEF Create, Next
<1>4. ASSUME NEW arrives \in BOOLEAN, Poll(arrives) PROVE [Next]_vars
  BY <1>4 DEF Poll, Asked, Asking, Next
<1>5. Others => Next
  BY DEF Others, Next
<1> QED
  BY <1>1, <1>2, <1>3, <1>4, <1>5 DEF EnrollmentNext

LEMMA StoreInvariant == EnrollmentSpec => []IInv
<1>1. EnrollmentInit => IInv
  BY InitInv DEF EnrollmentInit
<1>2. Asking /\ IInv /\ [EnrollmentNext]_enrollmentVars => IInv'
  BY StoreStep, NextInv DEF enrollmentVars
<1> QED
  BY <1>1, <1>2, AskingInvariant, PTL DEF EnrollmentSpec

LEMMA StoreAgrees == EnrollmentSpec => []AgreeUnderway
<1>1. EnrollmentInit => AgreeUnderway
  BY AgreeInit DEF EnrollmentInit
<1>2. Asking /\ IInv /\ AgreeUnderway /\ [EnrollmentNext]_enrollmentVars => AgreeUnderway'
  BY StoreStep, AgreeStep DEF enrollmentVars
<1> QED
  BY <1>1, <1>2, StoreInvariant, AskingInvariant, PTL DEF EnrollmentSpec

-----------------------------------------------------------------------------
(* The type of the machine's state *)

\* An approval always comes with its token.
ApprovedWithToken ==
  \A id \in Ids : Open(id) /\ requests[id].status = "approved" =>
    requests[id].token # None

LEMMA ApprovedStep ==
  IInv /\ ApprovedWithToken /\ [Next]_vars => ApprovedWithToken'
<1> USE PairingStoreAssumption
<1> SUFFICES ASSUME IInv, ApprovedWithToken, [Next]_vars, NEW i \in Ids,
                    Open(i)', requests'[i].status = "approved"
             PROVE  requests'[i].token # None
  BY DEF ApprovedWithToken
<1>1. TypeOK
  BY DEF IInv
<1>2. ASSUME UNCHANGED requests PROVE requests'[i].token # None
  BY <1>2 DEF ApprovedWithToken, Open
<1>3. ASSUME NEW id \in Ids, CreatePairingRequest(id)
      PROVE  requests'[i].token # None
  BY <1>3 DEF CreatePairingRequest, ApprovedWithToken, Open
<1>4. ASSUME NEW id \in Ids, Age(id) PROVE requests'[i].token # None
  <2>1. Open(id) /\ requests[id] \in Request
    BY <1>1, <1>4, OpenRequest DEF Age, Open
  <2>2. PICK a : requests' = [requests EXCEPT ![id].age = a]
    BY <1>4 DEF Age
  <2> QED
    BY <1>1, <2>1, <2>2 DEF ApprovedWithToken, Open, TypeOK, Request
<1>5. ASSUME NEW id \in Ids, PollPairingRequest(id)
      PROVE  requests'[i].token # None
  BY <1>1, <1>5 DEF PollPairingRequest, ApprovedWithToken, Open, TypeOK
<1>6. ASSUME NEW id \in Ids, RejectPairingRequest(id)
      PROVE  requests'[i].token # None
  <2>1. Open(id) /\ requests[id] \in Request
    BY <1>1, <1>6, OpenRequest DEF RejectPairingRequest, Open
  <2> QED
    BY <1>1, <1>6, <2>1
       DEF RejectPairingRequest, ApprovedWithToken, Open, TypeOK, Request
<1>7. ASSUME ApproveRequest PROVE requests'[i].token # None
  <2>1. /\ call # None /\ call \in Call /\ call.op = "approveRequest"
        /\ requests' = [requests EXCEPT
             ![call.id] = [@ EXCEPT !.status = "approved", !.token = call.token]]
    BY <1>1, <1>7 DEF ApproveRequest, TypeOK
  <2>2. call.token \in Tokens /\ call.id \in Ids /\ Open(call.id)
    BY <2>1 DEF Call, IInv, Underway
  <2>3. requests[call.id] \in Request
    BY <1>1, <2>2, OpenRequest
  <2>4. CASE i = call.id
    BY <1>1, <2>1, <2>2, <2>3, <2>4 DEF TypeOK, Request
  <2>5. CASE i # call.id
    BY <1>1, <2>1, <2>2, <2>5 DEF TypeOK, ApprovedWithToken, Open
  <2> QED
    BY <2>4, <2>5
<1> QED
  BY <1>2, <1>3, <1>4, <1>5, <1>6, <1>7
     DEF Next, Change, vars, ApproveRecord, ApproveIndex, RotateIndex,
         DeleteIndex, RotateRecord, DeleteRecord, Stop, history

TypeInv == ProgramTypeOK /\ Asking /\ ApprovedWithToken

LEMMA TypeInit == EnrollmentInit => TypeInv
BY PairingStoreAssumption, EnrollmentAssumption
   DEF EnrollmentInit, Init, TypeInv, ProgramTypeOK, Asking,
       ApprovedWithToken, Open, BootstrapState, Blank

LEMMA AnswerToken ==
  ASSUME IInv, TypeInv, asked \in Ids, Answer(asked) = "approved"
  PROVE  requests[asked] # None /\ requests[asked].token \in Tokens
<1>1. requests[asked] # None /\ requests[asked].status = "approved"
  BY DEF Answer
<1>2. requests[asked] \in Request
  BY <1>1, OpenRequest DEF IInv, Open
<1> QED
  BY <1>1, <1>2 DEF TypeInv, ApprovedWithToken, Open, Request

LEMMA ProgramTypeStep ==
  ASSUME IInv, TypeInv, [EnrollmentNext]_enrollmentVars
  PROVE  ProgramTypeOK' /\ Asking'
<1> USE PairingStoreAssumption, EnrollmentAssumption
    DEF TypeInv, ProgramTypeOK, Asking, BootstrapState, Blank
<1>1. CASE Reconfigure
  BY <1>1 DEF Reconfigure
<1>2. CASE Bootstrap
  BY <1>2 DEF Bootstrap
<1>3. CASE Create
  BY <1>3 DEF Create, Exit
<1>4. ASSUME NEW arrives \in BOOLEAN, Poll(arrives)
      PROVE  ProgramTypeOK' /\ Asking'
  <2>1. pc = "poll" /\ asked \in Ids /\ UNCHANGED <<expected, session>>
    BY <1>4 DEF Poll
  <2>2. CASE UNCHANGED <<pc, boot, memory, state, asked>>
    BY <2>1, <2>2
  <2>3. CASE Exit
    BY <2>1, <2>3 DEF Exit
  <2>4. CASE Answer(asked) = "approved" /\ TakeAnswer("approved", requests[asked].token)
    <3>1. requests[asked].token \in Tokens
      BY <2>1, <2>4, AnswerToken
    <3> QED
      BY <2>1, <2>4, <3>1 DEF TakeAnswer
  <2>5. requests[asked] = None => Answer(asked) = "not found"
    BY DEF Answer
  <2> QED
    BY <1>4, <2>2, <2>3, <2>4, <2>5 DEF Poll, TakeAnswer
<1>5. CASE Save
  BY <1>5 DEF Save, Exit
<1>6. CASE Dial
  BY <1>6 DEF Dial, Valid, IInv, TypeOK
<1>7. CASE Hello
  BY <1>7 DEF Hello, HelloId, Lost
<1>8. CASE Disconnect
  BY <1>8 DEF Disconnect, Lost
<1>9. CASE Crash
  BY <1>9 DEF Crash, Exit
<1>10. CASE UNCHANGED program
  BY <1>10 DEF program
<1> QED
  BY <1>1, <1>2, <1>3, <1>4, <1>5, <1>6, <1>7, <1>8, <1>9, <1>10
     DEF EnrollmentNext, enrollmentVars, Others

LEMMA TypeInvariant == EnrollmentSpec => []TypeInv
<1>1. IInv /\ TypeInv /\ [EnrollmentNext]_enrollmentVars => TypeInv'
  BY ProgramTypeStep, ApprovedStep, StoreStep DEF TypeInv, enrollmentVars
<1> QED
  BY <1>1, TypeInit, StoreInvariant, PTL DEF EnrollmentSpec

-----------------------------------------------------------------------------
(* Whose connection it is *)

\* The token was made for the worker, unless it has been revoked since.
MadeFor(w, t) == records[w] = t \/ t \in revoked

LEMMA MadeForStep ==
  ASSUME IInv, [Next]_vars, NEW w \in Workers, NEW t \in Tokens, MadeFor(w, t)
  PROVE  MadeFor(w, t)'
<1> USE PairingStoreAssumption
<1>1. TypeOK
  BY DEF IInv
<1>2. revoked \subseteq revoked'
  BY DEF Next, Change, vars, CreatePairingRequest, PollPairingRequest, Age,
         ApproveRecord, RejectPairingRequest, ApproveIndex, ApproveRequest,
         RotateIndex, DeleteIndex, RotateRecord, DeleteRecord, Stop, history
<1>3. CASE t \in revoked
  BY <1>2, <1>3 DEF MadeFor
<1>4. CASE records[w] = t
  <2>1. w \in used
    BY <1>1, <1>4 DEF TypeOK
  <2>2. ASSUME NEW id \in Ids, ApproveRecord(id) PROVE records'[w] = t
    BY <1>1, <1>4, <2>1, <2>2 DEF ApproveRecord, TypeOK
  <2>3. CASE RotateRecord
    <3>1. /\ call # None /\ call \in Call /\ call.op = "rotateRecord"
          /\ records' = [records EXCEPT ![call.worker] = call.token]
      BY <1>1, <2>3 DEF RotateRecord, TypeOK
    <3>2. records[call.worker] \in revoked
      BY <3>1 DEF IInv, Underway
    <3> QED
      BY <1>1, <1>2, <1>4, <3>1, <3>2 DEF MadeFor, TypeOK
  <2>4. CASE DeleteRecord
    <3>1. /\ call # None /\ call \in Call /\ call.op = "deleteRecord"
          /\ records' = [records EXCEPT ![call.worker] = None]
          /\ call.token \in revoked'
      BY <1>1, <2>4 DEF DeleteRecord, TypeOK
    <3>2. records[call.worker] = call.token
      BY <3>1 DEF IInv, Underway
    <3> QED
      BY <1>1, <1>4, <3>1, <3>2 DEF MadeFor, TypeOK
  <2>5. ASSUME UNCHANGED records PROVE records'[w] = t
    BY <1>4, <2>5
  <2> QED
    BY <2>2, <2>3, <2>4, <2>5
       DEF MadeFor, Next, Change, vars, CreatePairingRequest,
           PollPairingRequest, Age, RejectPairingRequest, ApproveIndex,
           ApproveRequest, RotateIndex, DeleteIndex, Stop, history
<1> QED
  BY <1>3, <1>4 DEF MadeFor

\* From the upgrade of the connection on.
TokenBound ==
  /\ expected # None => /\ expected \in Workers
                        /\ memory.token \in Tokens
                        /\ MadeFor(expected, memory.token)
  /\ session # None => session = expected

LEMMA TokenBoundStep ==
  ASSUME IInv, TypeInv, TokenBound, [EnrollmentNext]_enrollmentVars
  PROVE  TokenBound'
<1> USE PairingStoreAssumption
<1>1. [Next]_vars
  BY StoreStep DEF enrollmentVars, TypeInv
<1>2. ASSUME UNCHANGED <<expected, session, memory>> PROVE TokenBound'
  <2>1. expected # None => MadeFor(expected, memory.token)'
    BY <1>1, <1>2, MadeForStep DEF TokenBound, MadeFor
  <2> QED
    BY <1>2, <2>1 DEF TokenBound
<1>3. ASSUME expected' = None, session' = None PROVE TokenBound'
  BY <1>3 DEF TokenBound
<1>4. pc \notin {"hello", "served"} => expected = None /\ session = None
  BY DEF TypeInv, ProgramTypeOK
<1>5. CASE Bootstrap \/ Create \/ Save \/ \E arrives \in BOOLEAN : Poll(arrives)
  <2>1. expected' = None /\ session' = None
    BY <1>4, <1>5 DEF Bootstrap, Create, Save, Poll
  <2> QED
    BY <1>3, <2>1
<1>6. CASE Dial
  <2>1. /\ memory.token \in Tokens
        /\ expected' = index[memory.token]
        /\ UNCHANGED <<records, revoked, memory, session>>
        /\ pc = "dial"
    BY <1>6 DEF Dial, vars, TypeInv, ProgramTypeOK, BootstrapState
  <2>2. index[memory.token] \in Workers
    BY <1>6, <2>1 DEF Dial, Valid, IInv, TypeOK
  <2>3. records[index[memory.token]] = memory.token
    BY <1>6 DEF Dial, Valid
  <2> QED
    BY <1>4, <2>1, <2>2, <2>3 DEF TokenBound, MadeFor
<1>7. CASE Hello
  <2>1. CASE HelloId = expected
    <3>1. UNCHANGED <<expected, memory, records, revoked>> /\ session' = expected
      BY <1>7, <2>1 DEF Hello, vars
    <3> QED
      BY <3>1 DEF TokenBound, MadeFor
  <2>2. CASE HelloId # expected
    BY <1>3, <1>7, <2>2 DEF Hello, Lost
  <2> QED
    BY <2>1, <2>2
<1>8. CASE Disconnect \/ Crash
  BY <1>3, <1>8 DEF Disconnect, Crash, Lost
<1>9. CASE Reconfigure \/ UNCHANGED program
  BY <1>2, <1>9 DEF Reconfigure, program
<1> QED
  BY <1>5, <1>6, <1>7, <1>8, <1>9
     DEF EnrollmentNext, enrollmentVars, Others

-----------------------------------------------------------------------------
(***************************************************************************)
(* The store, the program of the machine and the gateway's view of its     *)
(* connection stay within their types: above all, a machine that dials has *)
(* a token.                                                                *)
(***************************************************************************)
THEOREM EnrollmentTypeCorrect == EnrollmentSpec => []EnrollmentTypeOK
<1>1. IInv /\ TypeInv => EnrollmentTypeOK
  BY DEF IInv, TypeInv, EnrollmentTypeOK
<1> QED
  BY <1>1, StoreInvariant, TypeInvariant, PTL

(***************************************************************************)
(* Whatever identifier a machine says hello with, it is registered as the  *)
(* worker its token was made for, or not at all.                           *)
(***************************************************************************)
THEOREM ConnectionIsTokens == EnrollmentSpec => []IdentityBound
<1>1. EnrollmentInit => TokenBound
  BY DEF EnrollmentInit, TokenBound
<1>2. TokenBound => IdentityBound
  BY PairingStoreAssumption DEF TokenBound, IdentityBound, MadeFor
<1> QED
  BY <1>1, <1>2, StoreInvariant, TypeInvariant, TokenBoundStep, PTL
     DEF EnrollmentSpec

(***************************************************************************)
(* The store keeps its promises when machines bootstrap over it: a token   *)
(* that was approved works until it is revoked, a revoked token never      *)
(* works again, no token is handed over twice, and the index agrees with   *)
(* the records.                                                            *)
(***************************************************************************)
THEOREM StoreKeepsPromises ==
  EnrollmentSpec => [](/\ TypeOK
                       /\ ApprovedTokenWorks
                       /\ RevocationIsFinal
                       /\ DeliveredOnce
                       /\ FilesAgree)
<1>1. IInv => TypeOK /\ ApprovedTokenWorks /\ RevocationIsFinal /\ DeliveredOnce
  BY DEF IInv
<1>2. AgreeUnderway => FilesAgree
  BY DEF AgreeUnderway, FilesAgree, Agree
<1> QED
  BY <1>1, <1>2, StoreInvariant, StoreAgrees, PTL

(***************************************************************************)
(* The store stays an implementation of TokenLife when machines bootstrap, *)
(* crash and bootstrap again over it.                                      *)
(***************************************************************************)
THEOREM EnrollmentImplementsTokenLife == EnrollmentSpec => ImplementsTokenLife
<1>1. EnrollmentInit => Life!LifeInit
  BY InitLife DEF EnrollmentInit
<1>2. /\ Asking /\ IInv /\ [EnrollmentNext]_enrollmentVars
      => [Life!LifeNext]_<<Working, delivered, revoked>>
  BY StoreStep, NextLife DEF enrollmentVars, LifeStep
<1> QED
  BY <1>1, <1>2, StoreInvariant, AskingInvariant, PTL
     DEF EnrollmentSpec, ImplementsTokenLife, Life!LifeSpec, Life!lifeVars
=============================================================================
