-------------------------- MODULE PairingStore_proofs --------------------------
(***************************************************************************)
(* Theorems about PairingStore, for any number of requests, workers and    *)
(* tokens and for calls interrupted between any two of their writes.       *)
(***************************************************************************)
EXTENDS PairingStore, TLAPS

Open(id) == requests[id] # None
Holds(id, t) == Open(id) /\ requests[id].token = t

\* What has been handed out was generated, so a new token is new everywhere.
Generated ==
  /\ \A w \in Workers : records[w] # None => records[w] \in used
  /\ \A id \in Ids, t \in Tokens : Holds(id, t) => t \in used
  /\ revoked \cup returned \subseteq used
  /\ call # None => call.token \in used

\* A token is in one request and in one record at most.
Unshared ==
  /\ \A v, w \in Workers, t \in Tokens : records[v] = t /\ records[w] = t => v = w
  /\ \A i, j \in Ids, t \in Tokens : Holds(i, t) /\ Holds(j, t) => i = j

\* What an approval and a rotation keep secret until their last write.
Secret(t) ==
  /\ t \notin revoked \cup returned
  /\ \A id \in Ids : ~Holds(id, t)

\* What the file writes already made by a call have established.
Underway ==
  call # None =>
    /\ call.op \in {"approveIndex", "approveRequest"} =>
         /\ call.id \in Ids /\ Open(call.id)
         /\ records[call.worker] = call.token
         /\ Secret(call.token)
    /\ call.op = "approveRequest" => index[call.token] = call.worker
    /\ call.op = "rotateRecord" =>
         /\ \A w \in Workers : records[w] # call.token
         /\ records[call.worker] \in revoked
         /\ Secret(call.token)
    /\ call.op = "deleteRecord" => records[call.worker] = call.token

IInv ==
  /\ TypeOK
  /\ Generated /\ Unshared /\ Underway
  /\ ApprovedTokenWorks /\ RevocationIsFinal /\ DeliveredOnce

LEMMA InitInv == Init => IInv
BY PairingStoreAssumption
   DEF Init, IInv, TypeOK, Generated, Unshared, Underway, Open, Holds,
       ApprovedTokenWorks, RevocationIsFinal, DeliveredOnce, Shown, Valid

\* An open request is a record, and changing a field of it keeps it one.
LEMMA OpenRequest ==
  ASSUME TypeOK, NEW id \in Ids, Open(id)
  PROVE  /\ requests[id] \in Request
         /\ [requests[id] EXCEPT !.status = "rejected"] \in Request
         /\ \A a \in Ages : [requests[id] EXCEPT !.age = a] \in Request
         /\ \A t \in Tokens :
              [requests[id] EXCEPT !.status = "approved", !.token = t] \in Request
BY DEF TypeOK, Open, Request

-----------------------------------------------------------------------------
(* Steps that only take something out of the requests *)

\* No request gains a token or becomes approved.
Shrinks ==
  \A i \in Ids : requests'[i] # None =>
    \/ requests'[i].token = None
    \/ /\ Open(i)
       /\ requests'[i].token = requests[i].token
       /\ requests'[i].status = "approved" => requests[i].status = "approved"

LEMMA ShrinkStep ==
  ASSUME IInv, TypeOK', Shrinks, used \subseteq used',
         UNCHANGED <<records, index, call, delivered, revoked>>,
         returned' \subseteq returned \cup {requests[id].token : id \in {i \in Ids : Open(i)}},
         call # None => /\ returned' = returned
                        /\ \A i \in Ids : Open(i) => requests'[i] # None
  PROVE  IInv'
<1> USE PairingStoreAssumption DEF IInv
<1>1. \A i \in Ids, t \in Tokens : Holds(i, t)' => Holds(i, t)
  BY DEF Shrinks, Holds, Open
<1>2. Generated'
  BY <1>1 DEF Generated, TypeOK, Holds
<1>3. Unshared'
  BY <1>1 DEF Unshared
<1>4. Underway'
  <2>1. ASSUME NEW t \in Tokens, Secret(t), call # None PROVE Secret(t)'
    BY <1>1, <2>1 DEF Secret
  <2>2. call # None => call.token \in Tokens
    BY DEF TypeOK, Call
  <2> QED
    BY <2>1, <2>2 DEF Underway, Open
<1>5. ApprovedTokenWorks'
  <2>1. \A t \in Tokens : Shown(t)' => Shown(t)
    BY DEF Shrinks, Shown, Open
  <2> QED
    BY <2>1 DEF ApprovedTokenWorks, Valid
<1>6. RevocationIsFinal' /\ DeliveredOnce'
  BY <1>1 DEF RevocationIsFinal, DeliveredOnce, Valid, Holds, Open, TypeOK
<1> QED
  BY <1>2, <1>3, <1>4, <1>5, <1>6

LEMMA CreateStep ==
  ASSUME IInv, NEW id \in Ids, CreatePairingRequest(id) PROVE IInv'
<1>1. TypeOK'
  BY PairingStoreAssumption
     DEF IInv, TypeOK, CreatePairingRequest, history, Request, Ages
<1>2. Shrinks
  BY DEF CreatePairingRequest, Shrinks, Open
<1> QED
  BY <1>1, <1>2, ShrinkStep, PairingStoreAssumption
     DEF CreatePairingRequest, history, IInv, TypeOK

LEMMA AgeStep ==
  ASSUME IInv, NEW id \in Ids, Age(id) PROVE IInv'
<1>1. Open(id)
  BY DEF Age, Open
<1>2. PICK a \in Ages : requests' = [requests EXCEPT ![id].age = a]
  BY DEF Age, Ages
<1>3. TypeOK'
  BY <1>1, <1>2, OpenRequest DEF IInv, TypeOK, Age, history
<1>4. Shrinks
  BY <1>1, <1>2, OpenRequest DEF IInv, TypeOK, Shrinks, Open, Request
<1>5. \A i \in Ids : Open(i) => requests'[i] # None
  <2>1. requests'[id] \in Request
    BY <1>1, <1>2, OpenRequest DEF IInv, TypeOK
  <2>2. None \notin Request
    BY PairingStoreAssumption
  <2> QED
    BY <1>2, <2>1, <2>2 DEF IInv, TypeOK, Open
<1> QED
  BY <1>3, <1>4, <1>5, ShrinkStep DEF Age, history

LEMMA RejectStep ==
  ASSUME IInv, NEW id \in Ids, RejectPairingRequest(id) PROVE IInv'
<1>1. Open(id)
  BY DEF RejectPairingRequest, Open
<1>2. requests' = [requests EXCEPT ![id].status = "rejected"]
  BY DEF RejectPairingRequest
<1>3. TypeOK'
  BY <1>1, <1>2, OpenRequest DEF IInv, TypeOK, RejectPairingRequest, history
<1>4. Shrinks
  BY <1>1, <1>2, OpenRequest DEF IInv, TypeOK, Shrinks, Open, Request
<1> QED
  BY <1>3, <1>4, ShrinkStep DEF RejectPairingRequest, history

-----------------------------------------------------------------------------
(* The poll that hands a token over *)

LEMMA PollStep ==
  ASSUME IInv, NEW id \in Ids, PollPairingRequest(id) PROVE IInv'
<1> DEFINE t == requests[id].token
<1> USE PairingStoreAssumption
<1>1. /\ Open(id) /\ t \in Tokens /\ Holds(id, t)
  BY OpenRequest DEF IInv, PollPairingRequest, Open, Holds, Request
<1>2. TypeOK'
  BY <1>1 DEF IInv, TypeOK, PollPairingRequest
<1>3. CASE requests[id].status # "approved"
  <2>1. Shrinks
    BY <1>3 DEF PollPairingRequest, Shrinks, Open
  <2>2. returned' \subseteq returned \cup {requests[i].token : i \in {j \in Ids : Open(j)}}
    BY <1>1 DEF PollPairingRequest
  <2> QED
    BY <1>2, <1>3, <2>1, <2>2, ShrinkStep DEF PollPairingRequest
<1>4. CASE requests[id].status = "approved"
  <2>1. /\ call = None /\ UNCHANGED <<records, index, call, used, revoked>>
        /\ requests' = [requests EXCEPT ![id] = None]
        /\ delivered' = delivered \cup {t}
        /\ returned' = returned \cup {t}
    BY <1>4 DEF PollPairingRequest
  <2>2. \A i \in Ids, u \in Tokens : Holds(i, u)' => Holds(i, u) /\ i # id
    BY <2>1 DEF Holds, Open, IInv, TypeOK
  <2>3. Generated' /\ Unshared' /\ Underway'
    BY <1>1, <2>1, <2>2 DEF IInv, Generated, Unshared, Underway
  <2>4. \A u \in Tokens : Shown(u)' => Shown(u)
    BY <1>1, <1>4, <2>1 DEF Shown, Open, IInv, TypeOK
  <2>5. ApprovedTokenWorks' /\ RevocationIsFinal'
    BY <2>1, <2>4 DEF IInv, ApprovedTokenWorks, RevocationIsFinal, Valid
  <2>6. \A u \in Tokens, i \in Ids : u \in delivered' => ~Holds(i, u)'
    BY <1>1, <2>1, <2>2 DEF IInv, DeliveredOnce, Unshared, Holds, Open
  <2>7. DeliveredOnce'
    BY <1>2, <2>6 DEF DeliveredOnce, Holds, Open, TypeOK
  <2> QED
    BY <1>2, <2>3, <2>5, <2>7 DEF IInv
<1> QED
  BY <1>3, <1>4

-----------------------------------------------------------------------------
(* Approval *)

LEMMA ApproveRecordStep ==
  ASSUME IInv, NEW id \in Ids, ApproveRecord(id) PROVE IInv'
<1> USE PairingStoreAssumption
<1>1. PICK w \in Workers \ used, t \in Tokens \ used :
        /\ used' = used \cup {w, t}
        /\ records' = [records EXCEPT ![w] = t]
        /\ call' = [op |-> "approveIndex", id |-> id, worker |-> w, token |-> t]
  BY DEF ApproveRecord
<1>2. call = None /\ Open(id) /\ UNCHANGED <<requests, index, history>>
  BY DEF ApproveRecord, Approvable, Open
<1>3. records[w] = None /\ index[t] = None
  BY DEF IInv, TypeOK
<1>4. Secret(t) /\ \A v \in Workers : records[v] # t
  BY DEF IInv, Generated, Secret
<1>5. TypeOK'
  <2>1. call' \in Call
    BY <1>1 DEF Call
  <2> QED
    BY <1>1, <1>2, <2>1 DEF IInv, TypeOK, history
<1>6. Generated'
  BY <1>1, <1>2 DEF IInv, TypeOK, Generated, history, Holds, Open
<1>7. Unshared'
  BY <1>1, <1>2, <1>4 DEF IInv, TypeOK, Unshared, Holds, Open
<1>8. Underway'
  BY <1>1, <1>2, <1>4 DEF IInv, TypeOK, Underway, history, Secret, Holds, Open
<1>9. ApprovedTokenWorks' /\ RevocationIsFinal' /\ DeliveredOnce'
  <2>1. \A s \in Tokens : Valid(s) <=> Valid(s)'
    BY <1>1, <1>2, <1>3 DEF IInv, TypeOK, Valid
  <2> QED
    BY <1>2, <2>1 DEF IInv, ApprovedTokenWorks, RevocationIsFinal,
                      DeliveredOnce, Shown, history, TypeOK
<1> QED
  BY <1>5, <1>6, <1>7, <1>8, <1>9 DEF IInv

LEMMA ApproveIndexStep == ASSUME IInv, ApproveIndex PROVE IInv'
<1> USE PairingStoreAssumption
<1> DEFINE t == call.token  w == call.worker
<1>1. /\ call # None /\ call \in Call /\ call.op = "approveIndex"
      /\ call' = [call EXCEPT !.op = "approveRequest"]
      /\ index' = [index EXCEPT ![t] = w]
      /\ UNCHANGED <<requests, records, used, history>>
  BY DEF ApproveIndex, IInv, TypeOK
<1>2. t \in Tokens /\ w \in Workers /\ t \in used
  BY <1>1 DEF Call, IInv, Generated
<1>3. records[w] = t /\ Secret(t)
  BY <1>1 DEF IInv, Underway
<1>4. TypeOK'
  <2>1. call' \in Call
    BY <1>1 DEF Call
  <2> QED
    BY <1>1, <1>2, <2>1 DEF IInv, TypeOK, history
<1>5. /\ call'.token = t /\ call'.worker = w /\ call'.id = call.id
      /\ call'.op = "approveRequest" /\ index'[t] = w
  BY <1>1, <1>2 DEF Call, IInv, TypeOK
<1>6. Generated' /\ Unshared'
  BY <1>1, <1>2, <1>5 DEF IInv, Generated, Unshared, Holds, Open, history
<1>7. Underway'
  BY <1>1, <1>5 DEF IInv, Underway, Secret, Holds, Open, history
<1>8. \A s \in Tokens : s # t => (Valid(s) <=> Valid(s)')
  BY <1>1, <1>2 DEF IInv, TypeOK, Valid
<1>9. Valid(t)'
  BY <1>1, <1>2, <1>3, <1>5 DEF Valid
<1>10. ApprovedTokenWorks' /\ RevocationIsFinal' /\ DeliveredOnce'
  BY <1>1, <1>3, <1>8, <1>9 DEF IInv, TypeOK, ApprovedTokenWorks, RevocationIsFinal,
                    DeliveredOnce, Shown, history, Secret
<1> QED
  BY <1>4, <1>6, <1>7, <1>10 DEF IInv

LEMMA ApproveRequestStep == ASSUME IInv, ApproveRequest PROVE IInv'
<1> USE PairingStoreAssumption
<1> DEFINE t == call.token  w == call.worker  id == call.id
           new == [requests[id] EXCEPT !.status = "approved", !.token = t]
<1>1. /\ call # None /\ call \in Call /\ call.op = "approveRequest"
      /\ call' = None
      /\ requests' = [requests EXCEPT ![id] = new]
      /\ UNCHANGED <<records, index, used, history>>
  BY DEF ApproveRequest, IInv, TypeOK
<1>2. t \in Tokens /\ w \in Workers /\ t \in used
  BY <1>1 DEF Call, IInv, Generated
<1>3. /\ id \in Ids /\ Open(id)
      /\ records[w] = t /\ index[t] = w /\ Secret(t)
  BY <1>1 DEF IInv, Underway
<1>4. /\ new \in Request /\ new.token = t
      /\ requests'[id] = new
      /\ \A i \in Ids \ {id} : requests'[i] = requests[i]
  <2>1. requests[id] \in Request /\ new \in Request
    BY <1>2, <1>3, OpenRequest DEF IInv
  <2>2. new.token = t
    BY <2>1 DEF Request
  <2> HIDE DEF new
  <2> QED
    BY <1>1, <1>3, <2>1, <2>2 DEF IInv, TypeOK
<1>5. TypeOK'
  BY <1>1, <1>3, <1>4 DEF IInv, TypeOK, history, Open
<1>6. \A i \in Ids, s \in Tokens :
        Holds(i, s)' => (i = id /\ s = t) \/ (i # id /\ s # t /\ Holds(i, s))
  BY <1>3, <1>4 DEF Holds, Open, Secret
<1>7. Generated' /\ Unshared' /\ Underway'
  BY <1>1, <1>2, <1>6 DEF IInv, Generated, Unshared, Underway, history
<1>8. Valid(t)
  BY <1>2, <1>3 DEF Valid
<1>9. \A s \in Tokens : Shown(s)' => s = t \/ Shown(s)
  BY <1>1, <1>4 DEF Shown, history
<1>10. ApprovedTokenWorks' /\ RevocationIsFinal'
  BY <1>1, <1>8, <1>9 DEF IInv, ApprovedTokenWorks, RevocationIsFinal, Valid,
                          history
<1>11. DeliveredOnce'
  BY <1>1, <1>3, <1>4, <1>5 DEF IInv, TypeOK, DeliveredOnce, Secret, history
<1> QED
  BY <1>5, <1>7, <1>10, <1>11 DEF IInv

-----------------------------------------------------------------------------
(* Rotation and deletion *)

LEMMA RotateIndexStep ==
  ASSUME IInv, NEW w \in Workers, RotateIndex(w) PROVE IInv'
<1> USE PairingStoreAssumption
<1> DEFINE s == records[w]
<1>1. PICK t \in Tokens \ used :
        /\ used' = used \cup {t}
        /\ index' = [index EXCEPT ![s] = None, ![t] = w]
        /\ call' = [op |-> "rotateRecord", id |-> None, worker |-> w, token |-> t]
  BY DEF RotateIndex
<1>2. /\ call = None /\ s \in Tokens /\ revoked' = revoked \cup {s}
      /\ UNCHANGED <<requests, records, returned, delivered, broken>>
  BY DEF RotateIndex, IInv, TypeOK
<1>3. s \in used /\ s # t
  BY <1>2 DEF IInv, Generated
<1>4. Secret(t) /\ \A v \in Workers : records[v] # t
  BY DEF IInv, Generated, Secret
<1>5. TypeOK'
  <2>1. call' \in Call
    BY <1>1 DEF Call
  <2>2. index' \in [Tokens -> Workers \cup {None}]
    BY <1>1 DEF IInv, TypeOK
  <2>3. {x \in Tokens : index'[x] # None} \subseteq used'
    BY <1>1, <1>2 DEF IInv, TypeOK
  <2> QED
    BY <1>1, <1>2, <2>1, <2>2, <2>3 DEF IInv, TypeOK
<1>6. Generated' /\ Unshared'
  BY <1>1, <1>2, <1>3 DEF IInv, TypeOK, Generated, Unshared, Holds, Open
<1>7. Underway'
  BY <1>1, <1>2, <1>3, <1>4 DEF IInv, TypeOK, Underway, Secret, Holds, Open
<1>8. ~Valid(s)'
  BY <1>1, <1>2, <1>3 DEF IInv, TypeOK, Valid
<1>9. \A x \in Tokens : x \notin {s, t} => (Valid(x) <=> Valid(x)')
  BY <1>1, <1>2 DEF IInv, TypeOK, Valid
<1>10. \A x \in Tokens : Shown(x)' => Shown(x) /\ x # t
  BY <1>2, <1>4 DEF IInv, TypeOK, Shown, Secret, Holds, Open
<1>11. ApprovedTokenWorks' /\ RevocationIsFinal' /\ DeliveredOnce'
  BY <1>2, <1>4, <1>8, <1>9, <1>10
     DEF IInv, TypeOK, ApprovedTokenWorks, RevocationIsFinal, DeliveredOnce, Secret
<1> QED
  BY <1>5, <1>6, <1>7, <1>11 DEF IInv

LEMMA RotateRecordStep == ASSUME IInv, RotateRecord PROVE IInv'
<1> USE PairingStoreAssumption
<1> DEFINE t == call.token  w == call.worker
<1>1. /\ call # None /\ call \in Call /\ call.op = "rotateRecord"
      /\ call' = None
      /\ records' = [records EXCEPT ![w] = t]
      /\ UNCHANGED <<requests, index, used, history>>
  BY DEF RotateRecord, IInv, TypeOK
<1>2. t \in Tokens /\ w \in Workers /\ t \in used
  BY <1>1 DEF Call, IInv, Generated
<1>3. /\ \A v \in Workers : records[v] # t
      /\ records[w] \in revoked
      /\ Secret(t)
  BY <1>1 DEF IInv, Underway
<1>4. TypeOK'
  BY <1>1, <1>2, <1>3 DEF IInv, TypeOK, history
<1>5. Generated' /\ Unshared' /\ Underway'
  BY <1>1, <1>2, <1>3
     DEF IInv, TypeOK, Generated, Unshared, Underway, history, Holds, Open
<1>6. \A x \in Tokens : x # t /\ Valid(x)' => Valid(x)
  BY <1>1, <1>2 DEF IInv, TypeOK, Valid
<1>7. \A x \in Tokens : x # records[w] /\ Valid(x) => Valid(x)'
  BY <1>1, <1>2, <1>3 DEF IInv, TypeOK, Valid
<1>8. ApprovedTokenWorks' /\ RevocationIsFinal' /\ DeliveredOnce'
  BY <1>1, <1>3, <1>6, <1>7
     DEF IInv, TypeOK, ApprovedTokenWorks, RevocationIsFinal, DeliveredOnce,
         Shown, history, Secret
<1> QED
  BY <1>4, <1>5, <1>8 DEF IInv

LEMMA DeleteIndexStep ==
  ASSUME IInv, NEW w \in Workers, DeleteIndex(w) PROVE IInv'
<1> USE PairingStoreAssumption
<1> DEFINE s == records[w]
<1>1. /\ call = None /\ s \in Tokens /\ s \in used
      /\ call' = [op |-> "deleteRecord", id |-> None, worker |-> w, token |-> s]
      /\ UNCHANGED <<requests, records, used, returned, delivered>>
  BY DEF DeleteIndex, IInv, TypeOK, Generated
<1>2. \/ index' = [index EXCEPT ![s] = None] /\ revoked' = revoked \cup {s}
      \/ UNCHANGED <<index, revoked>>
  BY DEF DeleteIndex
<1>3. TypeOK'
  <2>1. call' \in Call
    BY <1>1 DEF Call
  <2>2. broken' \in BOOLEAN
    BY DEF DeleteIndex, IInv, TypeOK
  <2>3. index' \in [Tokens -> Workers \cup {None}]
    BY <1>2 DEF IInv, TypeOK
  <2>4. {x \in Tokens : index'[x] # None} \subseteq used'
    BY <1>1, <1>2 DEF IInv, TypeOK
  <2>5. revoked' \in SUBSET Tokens
    BY <1>1, <1>2 DEF IInv, TypeOK
  <2> QED
    BY <1>1, <2>1, <2>2, <2>3, <2>4, <2>5 DEF IInv, TypeOK
<1>4. Generated' /\ Unshared'
  BY <1>1, <1>2 DEF IInv, Generated, Unshared, Holds, Open
<1>5. Underway'
  BY <1>1 DEF Underway
<1>6. \A x \in Tokens : x # s => (Valid(x) <=> Valid(x)')
  BY <1>1, <1>2 DEF IInv, TypeOK, Valid
<1>7. Valid(s)' => Valid(s) /\ revoked' = revoked
  BY <1>1, <1>2 DEF IInv, TypeOK, Valid
<1>8. Valid(s) => Valid(s)' \/ s \in revoked'
  BY <1>1, <1>2 DEF IInv, TypeOK, Valid
<1>9. ApprovedTokenWorks' /\ RevocationIsFinal' /\ DeliveredOnce'
  BY <1>1, <1>2, <1>6, <1>7, <1>8
     DEF IInv, TypeOK, ApprovedTokenWorks, RevocationIsFinal, DeliveredOnce, Shown
<1> QED
  BY <1>3, <1>4, <1>5, <1>9 DEF IInv

LEMMA DeleteRecordStep == ASSUME IInv, DeleteRecord PROVE IInv'
<1> USE PairingStoreAssumption
<1> DEFINE t == call.token  w == call.worker
<1>1. /\ call # None /\ call \in Call /\ call.op = "deleteRecord"
      /\ call' = None
      /\ records' = [records EXCEPT ![w] = None]
      /\ revoked' = revoked \cup {t}
      /\ UNCHANGED <<requests, index, used, returned, delivered, broken>>
  BY DEF DeleteRecord, IInv, TypeOK
<1>2. t \in Tokens /\ w \in Workers /\ t \in used
  BY <1>1 DEF Call, IInv, Generated
<1>3. records[w] = t
  BY <1>1 DEF IInv, Underway
<1>4. TypeOK'
  BY <1>1, <1>2 DEF IInv, TypeOK
<1>5. Generated' /\ Unshared' /\ Underway'
  BY <1>1, <1>2 DEF IInv, TypeOK, Generated, Unshared, Underway, Holds, Open
<1>6. \A x \in Tokens : Valid(x)' => Valid(x) /\ x # t
  BY <1>1, <1>2, <1>3 DEF IInv, TypeOK, Valid, Unshared
<1>7. \A x \in Tokens : x # t /\ Valid(x) => Valid(x)'
  BY <1>1, <1>2, <1>3 DEF IInv, TypeOK, Valid
<1>8. ApprovedTokenWorks' /\ RevocationIsFinal' /\ DeliveredOnce'
  <2>1. ApprovedTokenWorks'
    <3>1. \A x \in Tokens : Shown(x)' => Shown(x)
      BY <1>1 DEF Shown
    <3> QED
      BY <1>1, <1>7, <3>1 DEF IInv, ApprovedTokenWorks
  <2>2. RevocationIsFinal'
    BY <1>1, <1>2, <1>6 DEF IInv, TypeOK, RevocationIsFinal
  <2>3. DeliveredOnce'
    BY <1>1 DEF IInv, DeliveredOnce
  <2> QED
    BY <2>1, <2>2, <2>3
<1> QED
  BY <1>4, <1>5, <1>8 DEF IInv

\* An interruption leaves the files as they are.
LEMMA StopStep == ASSUME IInv, Stop PROVE IInv'
<1>1. TypeOK'
  BY DEF IInv, TypeOK, Stop
<1>2. Generated' /\ Unshared' /\ Underway'
  BY DEF IInv, Generated, Unshared, Underway, Holds, Open, Stop
<1>3. ApprovedTokenWorks' /\ RevocationIsFinal' /\ DeliveredOnce'
  BY DEF IInv, ApprovedTokenWorks, RevocationIsFinal, DeliveredOnce, Shown,
         Valid, Stop
<1> QED
  BY <1>1, <1>2, <1>3 DEF IInv

LEMMA StutterStep == ASSUME IInv, UNCHANGED vars PROVE IInv'
<1>1. TypeOK'
  BY DEF IInv, TypeOK, vars
<1>2. Generated' /\ Unshared' /\ Underway'
  BY DEF IInv, Generated, Unshared, Underway, Secret, Holds, Open, vars
<1>3. ApprovedTokenWorks' /\ RevocationIsFinal' /\ DeliveredOnce'
  BY DEF IInv, ApprovedTokenWorks, RevocationIsFinal, DeliveredOnce, Shown,
         Valid, vars
<1> QED
  BY <1>1, <1>2, <1>3 DEF IInv

LEMMA NextInv == IInv /\ [Next]_vars => IInv'
<1> SUFFICES ASSUME IInv, [Next]_vars PROVE IInv'
  OBVIOUS
<1>1. CASE Change
  BY <1>1, AgeStep, ApproveRecordStep, RejectStep, ApproveIndexStep,
     ApproveRequestStep, RotateIndexStep, RotateRecordStep, DeleteIndexStep,
     DeleteRecordStep, StopStep DEF Change
<1> QED
  BY <1>1, CreateStep, PollStep, StutterStep DEF Next

LEMMA Invariant == Spec => []IInv
BY InitInv, NextInv, PTL DEF Spec

-----------------------------------------------------------------------------
(* The index against the records, as long as nothing was interrupted *)

Agree(t, w) == index[t] = w <=> records[w] = t

\* Between two writes a call has its own worker or its new token disagree,
\* in a way that its last write puts right.
AgreeUnderway ==
  ~broken =>
    /\ call = None \/ call.op = "approveRequest" =>
         \A t \in Tokens, w \in Workers : Agree(t, w)
    /\ call # None /\ call.op = "approveIndex" =>
         /\ \A t \in Tokens, w \in Workers : t # call.token => Agree(t, w)
         /\ \A w \in Workers : records[w] = call.token => w = call.worker
    /\ call # None /\ call.op = "rotateRecord" =>
         /\ \A t \in Tokens, w \in Workers : w # call.worker => Agree(t, w)
         /\ \A t \in Tokens : index[t] = call.worker <=> t = call.token
    /\ call # None /\ call.op = "deleteRecord" =>
         /\ \A t \in Tokens, w \in Workers : w # call.worker => Agree(t, w)
         /\ \A t \in Tokens : index[t] # call.worker

LEMMA AgreeInit == Init => AgreeUnderway
BY PairingStoreAssumption DEF Init, AgreeUnderway, Agree

LEMMA AgreeKept ==
  ASSUME AgreeUnderway, UNCHANGED <<records, index, call, broken>>
  PROVE  AgreeUnderway'
BY DEF AgreeUnderway, Agree

LEMMA AgreeApproveRecord ==
  ASSUME IInv, AgreeUnderway, NEW id \in Ids, ApproveRecord(id)
  PROVE  AgreeUnderway'
<1> USE PairingStoreAssumption
<1>1. PICK w \in Workers \ used, t \in Tokens \ used :
        /\ records' = [records EXCEPT ![w] = t]
        /\ call' = [op |-> "approveIndex", id |-> id, worker |-> w, token |-> t]
  BY DEF ApproveRecord
<1>2. call = None /\ UNCHANGED <<index, broken>>
  BY DEF ApproveRecord, history
<1>3. /\ records[w] = None
      /\ \A v \in Workers : records[v] # t
  BY DEF IInv, TypeOK, Generated
<1>4. call' # None
  <2>1. call' \in Call
    BY <1>1 DEF Call
  <2> QED
    BY <2>1
<1>5. ASSUME ~broken
      PROVE  \A u \in Tokens, v \in Workers : u # t => Agree(u, v)'
  BY <1>1, <1>2, <1>3, <1>5 DEF AgreeUnderway, Agree, IInv, TypeOK
<1> QED
  BY <1>1, <1>2, <1>3, <1>4, <1>5 DEF AgreeUnderway, IInv, TypeOK

LEMMA AgreeApproveIndex ==
  ASSUME IInv, AgreeUnderway, ApproveIndex PROVE AgreeUnderway'
<1> USE PairingStoreAssumption
<1> DEFINE t == call.token  w == call.worker
<1>1. /\ call # None /\ call \in Call /\ call.op = "approveIndex"
      /\ call' = [call EXCEPT !.op = "approveRequest"]
      /\ index' = [index EXCEPT ![t] = w]
      /\ UNCHANGED <<records, broken>>
  BY DEF ApproveIndex, IInv, TypeOK, history
<1>2. t \in Tokens /\ w \in Workers /\ records[w] = t
  BY <1>1 DEF Call, IInv, Underway
<1>3. call'.op = "approveRequest"
  BY <1>1 DEF Call
<1>4. ASSUME ~broken, NEW u \in Tokens, NEW v \in Workers PROVE Agree(u, v)'
  <2>1. CASE u = t
    BY <1>1, <1>2, <1>4, <2>1 DEF AgreeUnderway, Agree, IInv, TypeOK
  <2>2. CASE u # t
    BY <1>1, <1>2, <1>4, <2>2 DEF AgreeUnderway, Agree, IInv, TypeOK
  <2> QED
    BY <2>1, <2>2
<1> QED
  BY <1>1, <1>3, <1>4 DEF AgreeUnderway

LEMMA AgreeRotateIndex ==
  ASSUME IInv, AgreeUnderway, NEW w \in Workers, RotateIndex(w)
  PROVE  AgreeUnderway'
<1> USE PairingStoreAssumption
<1> DEFINE s == records[w]
<1>1. PICK t \in Tokens \ used :
        /\ index' = [index EXCEPT ![s] = None, ![t] = w]
        /\ call' = [op |-> "rotateRecord", id |-> None, worker |-> w, token |-> t]
  BY DEF RotateIndex
<1>2. /\ call = None /\ s \in Tokens /\ s # t
      /\ UNCHANGED <<records, broken>>
      /\ \A v \in Workers : records[v] # t
  BY DEF RotateIndex, IInv, TypeOK, Generated
<1>3. /\ index'[t] = w /\ index'[s] = None
      /\ \A u \in Tokens : u \notin {s, t} => index'[u] = index[u]
  BY <1>1, <1>2 DEF IInv, TypeOK
<1>4. ASSUME ~broken, NEW u \in Tokens
      PROVE  /\ \A v \in Workers : v # w => Agree(u, v)'
             /\ index'[u] = w <=> u = t
  <2>1. \A v \in Workers : Agree(u, v)
    BY <1>2, <1>4 DEF AgreeUnderway
  <2>2. CASE u = s
    BY <1>2, <1>3, <2>1, <2>2 DEF Agree
  <2>3. CASE u # s
    BY <1>2, <1>3, <2>1, <2>3 DEF Agree
  <2> QED
    BY <2>2, <2>3
<1>5. call' # None
  <2>1. call' \in Call
    BY <1>1 DEF Call
  <2> QED
    BY <2>1
<1> QED
  BY <1>1, <1>2, <1>4, <1>5 DEF AgreeUnderway

LEMMA AgreeRotateRecord ==
  ASSUME IInv, AgreeUnderway, RotateRecord PROVE AgreeUnderway'
<1> DEFINE t == call.token  w == call.worker
<1>1. /\ call # None /\ call \in Call /\ call.op = "rotateRecord"
      /\ call' = None /\ records' = [records EXCEPT ![w] = t]
      /\ UNCHANGED <<index, broken>>
  BY DEF RotateRecord, IInv, TypeOK, history
<1>2. t \in Tokens /\ w \in Workers
  BY <1>1 DEF Call
<1>3. ASSUME ~broken, NEW u \in Tokens, NEW v \in Workers PROVE Agree(u, v)'
  <2>1. CASE v = w
    BY <1>1, <1>2, <1>3, <2>1 DEF AgreeUnderway, Agree, IInv, TypeOK
  <2>2. CASE v # w
    BY <1>1, <1>2, <1>3, <2>2 DEF AgreeUnderway, Agree, IInv, TypeOK
  <2> QED
    BY <2>1, <2>2
<1> QED
  BY <1>1, <1>3 DEF AgreeUnderway

LEMMA AgreeDeleteIndex ==
  ASSUME IInv, AgreeUnderway, NEW w \in Workers, DeleteIndex(w)
  PROVE  AgreeUnderway'
<1> USE PairingStoreAssumption
<1> DEFINE s == records[w]
<1>1. /\ call = None /\ s \in Tokens /\ UNCHANGED records
      /\ call' = [op |-> "deleteRecord", id |-> None, worker |-> w, token |-> s]
  BY DEF DeleteIndex, IInv, TypeOK
<1>2. ~broken' => ~broken /\ index' = [index EXCEPT ![s] = None]
  BY DEF DeleteIndex
<1>3. call' # None
  <2>1. call' \in Call
    BY <1>1 DEF Call
  <2> QED
    BY <2>1
<1>4. ASSUME ~broken', NEW u \in Tokens
      PROVE  index'[u] # w /\ \A v \in Workers : v # w => Agree(u, v)'
  BY <1>1, <1>2, <1>4 DEF AgreeUnderway, Agree, IInv, TypeOK
<1> QED
  BY <1>1, <1>3, <1>4 DEF AgreeUnderway

LEMMA AgreeDeleteRecord ==
  ASSUME IInv, AgreeUnderway, DeleteRecord PROVE AgreeUnderway'
<1> USE PairingStoreAssumption
<1> DEFINE w == call.worker
<1>1. /\ call # None /\ call \in Call /\ call.op = "deleteRecord"
      /\ call' = None /\ records' = [records EXCEPT ![w] = None]
      /\ UNCHANGED <<index, broken>>
  BY DEF DeleteRecord, IInv, TypeOK
<1>2. w \in Workers
  BY <1>1 DEF Call
<1>3. ASSUME ~broken, NEW u \in Tokens, NEW v \in Workers PROVE Agree(u, v)'
  BY <1>1, <1>2, <1>3 DEF AgreeUnderway, Agree, IInv, TypeOK
<1> QED
  BY <1>1, <1>3 DEF AgreeUnderway

LEMMA AgreeStep == IInv /\ AgreeUnderway /\ [Next]_vars => AgreeUnderway'
<1> SUFFICES ASSUME IInv, AgreeUnderway, [Next]_vars PROVE AgreeUnderway'
  OBVIOUS
<1>1. CASE Change
  <2>1. ASSUME NEW id \in Ids, Age(id) \/ RejectPairingRequest(id)
        PROVE  AgreeUnderway'
    BY <2>1, AgreeKept DEF Age, RejectPairingRequest, history
  <2>2. ASSUME ApproveRequest PROVE AgreeUnderway'
    BY <2>2 DEF ApproveRequest, AgreeUnderway, Agree, history
  <2>3. ASSUME Stop PROVE AgreeUnderway'
    BY <2>3 DEF Stop, AgreeUnderway
  <2> QED
    BY <1>1, <2>1, <2>2, <2>3, AgreeApproveRecord, AgreeApproveIndex,
       AgreeRotateIndex, AgreeRotateRecord, AgreeDeleteIndex, AgreeDeleteRecord
       DEF Change
<1>2. ASSUME NEW id \in Ids, CreatePairingRequest(id) \/ PollPairingRequest(id)
      PROVE  AgreeUnderway'
  BY <1>2, AgreeKept DEF CreatePairingRequest, PollPairingRequest, history
<1>3. CASE UNCHANGED vars
  BY <1>3, AgreeKept DEF vars
<1> QED
  BY <1>1, <1>2, <1>3 DEF Next

-----------------------------------------------------------------------------
(***************************************************************************)
(* The files hold what their types say, and only what was generated.       *)
(***************************************************************************)
THEOREM TypeCorrect == Spec => []TypeOK
BY Invariant, PTL DEF IInv

(***************************************************************************)
(* A worker that was given its token can connect with it until somebody    *)
(* revokes it, wherever any call was interrupted.                          *)
(***************************************************************************)
THEOREM TokensWork == Spec => []ApprovedTokenWorks
BY Invariant, PTL DEF IInv

(***************************************************************************)
(* A token that a rotation or deletion has begun to replace is refused     *)
(* from its first write on, and forever.                                   *)
(***************************************************************************)
THEOREM RevokedForever == Spec => []RevocationIsFinal
BY Invariant, PTL DEF IInv

(***************************************************************************)
(* No token is handed over as approved and still waiting in a request.     *)
(***************************************************************************)
THEOREM HandedOverOnce == Spec => []DeliveredOnce
BY Invariant, PTL DEF IInv

(***************************************************************************)
(* As long as no call is interrupted, no token outlives its worker and no  *)
(* worker is left without its token.                                       *)
(***************************************************************************)
THEOREM IndexAgrees == Spec => []FilesAgree
<1>1. AgreeUnderway => FilesAgree
  BY DEF AgreeUnderway, FilesAgree, Agree
<1> QED
  BY <1>1, Invariant, AgreeInit, AgreeStep, PTL DEF Spec

-----------------------------------------------------------------------------
(* The refinement: what each step does to the tokens that are accepted *)

LifeStep == [Life!LifeNext]_<<Working, delivered, revoked>>

\* The accepted tokens change as validity does.
LEMMA SameWorking ==
  ASSUME \A t \in Tokens : Valid(t) <=> Valid(t)'
  PROVE  Working' = Working
BY DEF Working

LEMMA LifeSame ==
  ASSUME \A t \in Tokens : Valid(t) <=> Valid(t)', UNCHANGED <<delivered, revoked>>
  PROVE  LifeStep
BY SameWorking DEF LifeStep

\* One write of one file makes at most one token accepted.
LEMMA StartOne ==
  ASSUME NEW t \in Tokens, t \notin revoked, ~Valid(t),
         \A x \in Tokens : x # t => (Valid(x) <=> Valid(x)'),
         UNCHANGED <<delivered, revoked>>
  PROVE  LifeStep
<1>1. CASE Valid(t)'
  <2>1. Working' = Working \cup {t} /\ t \notin Working
    BY <1>1 DEF Working
  <2>2. Life!Start(t)
    BY <2>1 DEF Life!Start, Working
  <2> QED
    BY <2>2 DEF LifeStep, Life!LifeNext
<1>2. CASE ~Valid(t)'
  <2>1. Working' = Working
    BY <1>2, SameWorking
  <2> QED
    BY <2>1 DEF LifeStep
<1> QED
  BY <1>1, <1>2

\* A token is revoked where it stops to be accepted; a second revocation of
\* the same token changes nothing, as it was final.
LEMMA RevokeOne ==
  ASSUME RevocationIsFinal, NEW t \in Tokens, ~Valid(t)',
         \A x \in Tokens : x # t => (Valid(x) <=> Valid(x)'),
         revoked' = revoked \cup {t}, UNCHANGED delivered
  PROVE  LifeStep
<1>1. Working' = Working \ {t}
  BY DEF Working
<1>2. CASE t \notin revoked
  <2>1. Life!Revoke(t)
    BY <1>1, <1>2 DEF Life!Revoke, Working
  <2> QED
    BY <2>1 DEF LifeStep, Life!LifeNext
<1>3. CASE t \in revoked
  <2>1. Working' = Working
    BY <1>1, <1>3 DEF Working, RevocationIsFinal
  <2> QED
    BY <1>3, <2>1 DEF LifeStep
<1> QED
  BY <1>2, <1>3

LEMMA LifeApproveRecord ==
  ASSUME IInv, NEW id \in Ids, ApproveRecord(id) PROVE LifeStep
<1> USE PairingStoreAssumption
<1>1. PICK w \in Workers \ used, t \in Tokens \ used :
        records' = [records EXCEPT ![w] = t]
  BY DEF ApproveRecord
<1>2. UNCHANGED <<index, delivered, revoked>>
  BY DEF ApproveRecord, history
<1>3. records[w] = None /\ index[t] = None
  BY DEF IInv, TypeOK
<1>4. \A s \in Tokens : Valid(s) <=> Valid(s)'
  BY <1>1, <1>2, <1>3 DEF IInv, TypeOK, Valid
<1> QED
  BY <1>2, <1>4, LifeSame

\* The token works from the write of the index on.
LEMMA LifeApproveIndex == ASSUME IInv, ApproveIndex PROVE LifeStep
<1> USE PairingStoreAssumption
<1>0. PICK t \in Tokens, w \in Workers : t = call.token /\ w = call.worker
  BY DEF ApproveIndex, IInv, TypeOK, Call
<1>1. /\ call # None /\ call.op = "approveIndex"
      /\ index' = [index EXCEPT ![t] = w]
      /\ UNCHANGED <<records, delivered, revoked>>
  BY <1>0 DEF ApproveIndex, history
<1>2. records[w] = t
  BY <1>0, <1>1 DEF IInv, Underway
<1>3. t \notin revoked
  BY <1>0, <1>1 DEF IInv, Underway, Secret
<1>4. \A s \in Tokens : s # t => (Valid(s) <=> Valid(s)')
  BY <1>1 DEF IInv, TypeOK, Valid
<1>5. CASE ~Valid(t)
  BY <1>1, <1>3, <1>4, <1>5, StartOne
<1>6. CASE Valid(t)
  <2>1. Valid(t)'
    BY <1>1, <1>2 DEF Valid, IInv, TypeOK
  <2>2. \A s \in Tokens : Valid(s) <=> Valid(s)'
    BY <1>4, <1>6, <2>1
  <2> QED
    BY <1>1, <2>2, LifeSame
<1> QED
  BY <1>5, <1>6

LEMMA LifeRotateIndex ==
  ASSUME IInv, NEW w \in Workers, RotateIndex(w) PROVE LifeStep
<1> USE PairingStoreAssumption
<1> DEFINE s == records[w]
<1>1. PICK t \in Tokens \ used : index' = [index EXCEPT ![s] = None, ![t] = w]
  BY DEF RotateIndex
<1>2. /\ s \in Tokens /\ revoked' = revoked \cup {s}
      /\ UNCHANGED <<records, delivered>>
  BY DEF RotateIndex, IInv, TypeOK
<1>3. /\ s # t
      /\ \A v \in Workers : records[v] # t
  BY <1>2 DEF IInv, Generated
<1>4. ~Valid(s)'
  BY <1>1, <1>2, <1>3 DEF IInv, TypeOK, Valid
<1>5. ~Valid(t) /\ ~Valid(t)'
  BY <1>1, <1>2, <1>3 DEF IInv, TypeOK, Valid
<1>6. \A x \in Tokens : x \notin {s, t} => (Valid(x) <=> Valid(x)')
  BY <1>1, <1>2 DEF IInv, TypeOK, Valid
<1>7. \A x \in Tokens : x # s => (Valid(x) <=> Valid(x)')
  BY <1>5, <1>6
<1> QED
  BY <1>2, <1>4, <1>7, RevokeOne DEF IInv

\* The new token works from the write of the record on, and the one it
\* replaces had ended before.
LEMMA LifeRotateRecord == ASSUME IInv, RotateRecord PROVE LifeStep
<1> USE PairingStoreAssumption
<1> DEFINE t == call.token  w == call.worker
<1>1. /\ call # None /\ call \in Call /\ call.op = "rotateRecord"
      /\ records' = [records EXCEPT ![w] = t]
      /\ UNCHANGED <<index, delivered, revoked>>
  BY DEF RotateRecord, IInv, TypeOK, history
<1>2. t \in Tokens /\ w \in Workers
  BY <1>1 DEF Call
<1>3. /\ \A v \in Workers : records[v] # t
      /\ records[w] \in revoked
      /\ t \notin revoked
  BY <1>1 DEF IInv, Underway, Secret
<1>4. ~Valid(t)
  BY <1>2, <1>3 DEF Valid, IInv, TypeOK
<1>5. ASSUME NEW x \in Tokens, x # t PROVE Valid(x) <=> Valid(x)'
  <2>1. CASE x = records[w]
    <3>1. ~Valid(x)
      BY <1>3, <2>1 DEF IInv, RevocationIsFinal
    <3>2. ~Valid(x)'
      BY <1>1, <1>2, <1>5, <2>1, <3>1 DEF IInv, TypeOK, Valid
    <3> QED
      BY <3>1, <3>2
  <2>2. CASE x # records[w]
    BY <1>1, <1>2, <1>5, <2>2 DEF IInv, TypeOK, Valid
  <2> QED
    BY <2>1, <2>2
<1> QED
  BY <1>1, <1>2, <1>3, <1>4, <1>5, StartOne

LEMMA LifeDeleteIndex ==
  ASSUME IInv, NEW w \in Workers, DeleteIndex(w) PROVE LifeStep
<1> USE PairingStoreAssumption
<1> DEFINE s == records[w]
<1>1. s \in Tokens /\ UNCHANGED <<records, delivered>>
  BY DEF DeleteIndex, IInv, TypeOK
<1>2. CASE index' = [index EXCEPT ![s] = None] /\ revoked' = revoked \cup {s}
  <2>1. ~Valid(s)'
    BY <1>1, <1>2 DEF IInv, TypeOK, Valid
  <2>2. \A x \in Tokens : x # s => (Valid(x) <=> Valid(x)')
    BY <1>1, <1>2 DEF IInv, TypeOK, Valid
  <2> QED
    BY <1>1, <1>2, <2>1, <2>2, RevokeOne DEF IInv
<1>3. CASE UNCHANGED <<index, revoked>>
  <2>1. \A x \in Tokens : Valid(x) <=> Valid(x)'
    BY <1>1, <1>3 DEF Valid
  <2> QED
    BY <1>1, <1>3, <2>1, LifeSame
<1> QED
  BY <1>2, <1>3 DEF DeleteIndex

LEMMA LifeDeleteRecord == ASSUME IInv, DeleteRecord PROVE LifeStep
<1> USE PairingStoreAssumption
<1>0. PICK t \in Tokens, w \in Workers : t = call.token /\ w = call.worker
  BY DEF DeleteRecord, IInv, TypeOK, Call
<1>1. /\ call # None /\ call.op = "deleteRecord"
      /\ records' = [records EXCEPT ![w] = None]
      /\ revoked' = revoked \cup {t}
      /\ UNCHANGED <<index, delivered>>
  BY <1>0 DEF DeleteRecord
<1>2. records[w] = t
  BY <1>0, <1>1 DEF IInv, Underway
<1>3. \A v \in Workers : records'[v] # t
  <2>1. \A v \in Workers : v # w => records[v] # t
    BY <1>2 DEF IInv, Unshared
  <2> QED
    BY <1>1, <1>2, <2>1 DEF IInv, TypeOK
<1>4. ~Valid(t)'
  <2>1. index'[t] \in Workers \cup {None}
    BY <1>1, <1>2 DEF IInv, TypeOK
  <2> QED
    BY <1>3, <2>1 DEF Valid
<1>5. \A x \in Tokens : x # t => (Valid(x) <=> Valid(x)')
  BY <1>1, <1>2 DEF IInv, TypeOK, Valid
<1>6. RevocationIsFinal
  BY DEF IInv
<1> QED
  BY <1>1, <1>2, <1>4, <1>5, <1>6, RevokeOne

\* An approved request that is taken out carries a token that works or did
\* until it was revoked, and none that was handed over before.
LEMMA LifePoll ==
  ASSUME IInv, NEW id \in Ids, PollPairingRequest(id) PROVE LifeStep
<1> USE PairingStoreAssumption
<1> DEFINE t == requests[id].token
<1>1. /\ requests[id] # None /\ t \in Tokens
      /\ UNCHANGED <<records, index, revoked>>
  BY OpenRequest DEF IInv, PollPairingRequest, Open, Request
<1>2. Working' = Working
  BY <1>1 DEF Working, Valid
<1>3. CASE requests[id].status = "approved"
  <2>1. delivered' = delivered \cup {t}
    BY <1>3 DEF PollPairingRequest
  <2>2. t \in Working \cup revoked
    BY <1>1, <1>3 DEF IInv, ApprovedTokenWorks, Shown, Working
  <2>3. t \notin delivered
    BY <1>1 DEF IInv, DeliveredOnce
  <2>4. Life!HandOver(t)
    BY <1>1, <1>2, <2>1, <2>2, <2>3 DEF Life!HandOver, Working
  <2> QED
    BY <1>1, <2>4 DEF LifeStep, Life!LifeNext
<1>4. CASE requests[id].status # "approved"
  BY <1>1, <1>2, <1>4 DEF PollPairingRequest, LifeStep
<1> QED
  BY <1>3, <1>4

LEMMA LifeStutter ==
  ASSUME UNCHANGED <<records, index, delivered, revoked>> PROVE LifeStep
<1>1. Working' = Working
  BY DEF Working, Valid
<1> QED
  BY <1>1 DEF LifeStep

LEMMA NextLife == IInv /\ [Next]_vars => LifeStep
<1> SUFFICES ASSUME IInv, [Next]_vars PROVE LifeStep
  OBVIOUS
<1>1. ASSUME NEW id \in Ids,
             CreatePairingRequest(id) \/ Age(id) \/ RejectPairingRequest(id)
      PROVE  LifeStep
  BY <1>1, LifeStutter DEF CreatePairingRequest, Age, RejectPairingRequest, history
<1>2. CASE ApproveRequest \/ Stop \/ UNCHANGED vars
  BY <1>2, LifeStutter DEF ApproveRequest, Stop, vars, history
<1>3. ASSUME NEW w \in Workers, RotateIndex(w) \/ DeleteIndex(w) PROVE LifeStep
  BY <1>3, LifeRotateIndex, LifeDeleteIndex
<1>4. ASSUME NEW id \in Ids, ApproveRecord(id) \/ PollPairingRequest(id)
      PROVE  LifeStep
  BY <1>4, LifeApproveRecord, LifePoll
<1>5. CASE ApproveIndex \/ RotateRecord \/ DeleteRecord
  BY <1>5, LifeApproveIndex, LifeRotateRecord, LifeDeleteRecord
<1> QED
  BY <1>1, <1>2, <1>3, <1>4, <1>5 DEF Next, Change

LEMMA InitLife == Init => Life!LifeInit
<1> SUFFICES ASSUME Init PROVE Life!LifeInit
  OBVIOUS
<1>1. \A t \in Tokens : ~Valid(t)
  BY DEF Init, Valid
<1> QED
  BY <1>1 DEF Init, Life!LifeInit, Working

(***************************************************************************)
(* The store is an implementation of TokenLife: whatever calls are         *)
(* interrupted and in whichever order they come, a token is accepted once, *)
(* until it is revoked, and is handed over once, after it has worked.      *)
(***************************************************************************)
THEOREM StoreImplementsTokenLife == Spec => ImplementsTokenLife
<1>1. IInv /\ [Next]_vars => [Life!LifeNext]_<<Working, delivered, revoked>>
  BY NextLife DEF LifeStep
<1> QED
  BY <1>1, InitLife, Invariant, PTL
     DEF Spec, ImplementsTokenLife, Life!LifeSpec, Life!lifeVars
=============================================================================
