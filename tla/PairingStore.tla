---------------------------- MODULE PairingStore ----------------------------
(***************************************************************************)
(* The gateway's store of pairing requests, workers and worker tokens      *)
(* (pkg/server/pairing_store.go, worker_config_store.go and the handlers   *)
(* over them).                                                             *)
(*                                                                         *)
(* WorkerConfigStore.mu admits one call at a time, but a call that changes *)
(* several files writes them one after the other, and may stop in between: *)
(* a write fails, or the gateway crashes.  writeJSONAtomic renames, so one *)
(* file is changed at once or not at all.  A token stands for its hash; a  *)
(* request is known by its identifier, which its user code and its secret  *)
(* stand for.                                                              *)
(***************************************************************************)
EXTENDS Naturals

CONSTANTS
  Ids,      \* bound: pairing requests ever made
  Workers,  \* bound: worker identifiers ever generated
  Tokens,   \* bound: worker tokens ever generated
  None

\* ExpiresAt compared with the clock: >, = and <.  The status "expired" is
\* answered to a poll and never stored.
Ages == {"fresh", "edge", "past"}

Request ==
  [status : {"pending", "approved", "rejected"},
   token : Tokens \cup {None},
   age : Ages]

Call ==
  [op : {"approveIndex", "approveRequest", "rotateRecord", "deleteRecord"},
   id : Ids \cup {None},
   worker : Workers,
   token : Tokens]

ASSUME PairingStoreAssumption ==
  None \notin Ids \cup Workers \cup Tokens \cup Request \cup Call

VARIABLES
  requests,  \* pairing_requests.json: [Ids -> request, or None]
  records,   \* workers/*.json: [Workers -> token of the record, or None]
  index,     \* worker_index.json: [Tokens -> worker, or None]
  call,      \* the call that holds the mutex between two of its writes
  used,      \* identifiers and tokens that have been generated
  returned,  \* history: tokens a poll has answered
  delivered, \* history: tokens a poll has answered as approved
  revoked,   \* history: tokens a rotation or deletion has begun to replace
  broken     \* history: some call stopped between two writes

vars == <<requests, records, index, call, used, returned, delivered, revoked,
          broken>>

TypeOK ==
  /\ requests \in [Ids -> Request \cup {None}]
  /\ records \in [Workers -> Tokens \cup {None}]
  /\ index \in [Tokens -> Workers \cup {None}]
  /\ call \in Call \cup {None}
  /\ used \in SUBSET (Ids \cup Workers \cup Tokens)
  /\ returned \in SUBSET Tokens
  /\ delivered \in SUBSET returned
  /\ revoked \in SUBSET Tokens
  /\ broken \in BOOLEAN
  /\ {id \in Ids : requests[id] # None} \subseteq used
  /\ {w \in Workers : records[w] # None} \subseteq used
  /\ {t \in Tokens : index[t] # None} \subseteq used

Init ==
  /\ requests = [id \in Ids |-> None]
  /\ records = [w \in Workers |-> None]
  /\ index = [t \in Tokens |-> None]
  /\ call = None
  /\ used = {}
  /\ returned = {}
  /\ delivered = {}
  /\ revoked = {}
  /\ broken = FALSE

history == <<returned, delivered, revoked, broken>>

\* ValidateWorkerToken, when it gets the mutex.
Valid(t) == index[t] # None /\ records[index[t]] = t

-----------------------------------------------------------------------------
\* Every other write of pairing_requests.json keeps expired requests.
CreatePairingRequest(id) ==
  /\ call = None
  /\ id \notin used
  /\ used' = used \cup {id}
  /\ requests' = [i \in Ids |->
       CASE i = id -> [status |-> "pending", token |-> None, age |-> "fresh"]
         [] i # id /\ requests[i] # None /\ requests[i].age = "fresh" -> requests[i]
         [] OTHER -> None]
  /\ UNCHANGED <<records, index, call, history>>

\* The clock.
Age(id) ==
  /\ requests[id] # None
  /\ \/ requests[id].age = "fresh" /\ requests' = [requests EXCEPT ![id].age = "edge"]
     \/ requests[id].age = "edge" /\ requests' = [requests EXCEPT ![id].age = "past"]
  /\ UNCHANGED <<records, index, call, used, history>>

\* Mutant: an approved request is kept, as the comment in the code considers.
PollPairingRequestKeep(id) ==
  /\ call = None
  /\ requests[id] # None
  /\ requests[id].age # "past"
  /\ requests[id].token # None
  /\ returned' = returned \cup {requests[id].token}
  /\ delivered' = IF requests[id].status = "approved"
                  THEN delivered \cup {requests[id].token} ELSE delivered
  /\ UNCHANGED <<requests, records, index, call, used, revoked, broken>>

\* The answer carries the token whatever the status; only an approved request
\* is taken out.  Other polls change nothing.
PollPairingRequest(id) ==
  /\ call = None
  /\ requests[id] # None
  /\ requests[id].age # "past"
  /\ requests[id].token # None
  /\ returned' = returned \cup {requests[id].token}
  /\ IF requests[id].status = "approved"
     THEN /\ requests' = [requests EXCEPT ![id] = None]
          /\ delivered' = delivered \cup {requests[id].token}
     ELSE UNCHANGED <<requests, delivered>>
  /\ UNCHANGED <<records, index, call, used, revoked, broken>>

\* Approval by identifier asks whether the request is approved already, by
\* user code whether it is pending.  Both then write three files.
Approvable(id) ==
  /\ requests[id] # None
  /\ requests[id].age # "past"
  /\ \/ requests[id].status # "approved"   \* ApprovePairingRequest
     \/ requests[id].status = "pending"    \* ApprovePairingRequestByCode

\* Mutant: the worker's identifier is not a new one.
ApproveRecordAgain(id) ==
  /\ call = None
  /\ Approvable(id)
  /\ \E w \in Workers, t \in Tokens \ used :
       /\ used' = used \cup {w, t}
       /\ records' = [records EXCEPT ![w] = t]
       /\ call' = [op |-> "approveIndex", id |-> id, worker |-> w, token |-> t]
  /\ UNCHANGED <<requests, index, history>>

ApproveRecord(id) ==
  /\ call = None
  /\ Approvable(id)
  /\ \E w \in Workers \ used, t \in Tokens \ used :
       /\ used' = used \cup {w, t}
       /\ records' = [records EXCEPT ![w] = t]
       /\ call' = [op |-> "approveIndex", id |-> id, worker |-> w, token |-> t]
  /\ UNCHANGED <<requests, index, history>>

\* Mutant: the index is not brought up to date.
ApproveIndexForgotten ==
  /\ call # None
  /\ call.op = "approveIndex"
  /\ call' = [call EXCEPT !.op = "approveRequest"]
  /\ UNCHANGED <<requests, records, index, used, history>>

ApproveIndex ==
  /\ call # None
  /\ call.op = "approveIndex"
  /\ index' = [index EXCEPT ![call.token] = call.worker]
  /\ call' = [call EXCEPT !.op = "approveRequest"]
  /\ UNCHANGED <<requests, records, used, history>>

ApproveRequest ==
  /\ call # None
  /\ call.op = "approveRequest"
  /\ requests' = [requests EXCEPT
       ![call.id] = [@ EXCEPT !.status = "approved", !.token = call.token]]
  /\ call' = None
  /\ UNCHANGED <<records, index, used, history>>

\* Whatever the status and the age; the token stays in the request.
RejectPairingRequest(id) ==
  /\ call = None
  /\ requests[id] # None
  /\ requests' = [requests EXCEPT ![id].status = "rejected"]
  /\ UNCHANGED <<records, index, call, used, history>>

-----------------------------------------------------------------------------
\* RotateWorkerToken: the index loses the old token and gains the new one,
\* then the record follows.
RotateIndex(w) ==
  /\ call = None
  /\ records[w] # None
  /\ \E t \in Tokens \ used :
       /\ used' = used \cup {t}
       /\ index' = [index EXCEPT ![records[w]] = None, ![t] = w]
       /\ call' = [op |-> "rotateRecord", id |-> None, worker |-> w, token |-> t]
  /\ revoked' = revoked \cup {records[w]}
  /\ UNCHANGED <<requests, records, returned, delivered, broken>>

RotateRecord ==
  /\ call # None
  /\ call.op = "rotateRecord"
  /\ records' = [records EXCEPT ![call.worker] = call.token]
  /\ call' = None
  /\ UNCHANGED <<requests, index, used, history>>

\* Mutant: the index is left to itself, the record's absence says enough.
DeleteIndexNever(w) ==
  /\ call = None
  /\ records[w] # None
  /\ call' = [op |-> "deleteRecord", id |-> None, worker |-> w,
              token |-> records[w]]
  /\ UNCHANGED <<requests, records, index, used, history>>

\* DeleteWorker goes on when the index cannot be read or written.
DeleteIndex(w) ==
  /\ call = None
  /\ records[w] # None
  /\ \/ /\ index' = [index EXCEPT ![records[w]] = None]
        /\ revoked' = revoked \cup {records[w]}
        /\ UNCHANGED broken
     \/ broken' = TRUE /\ UNCHANGED <<index, revoked>>
  /\ call' = [op |-> "deleteRecord", id |-> None, worker |-> w,
              token |-> records[w]]
  /\ UNCHANGED <<requests, records, used, returned, delivered>>

DeleteRecord ==
  /\ call # None
  /\ call.op = "deleteRecord"
  /\ records' = [records EXCEPT ![call.worker] = None]
  /\ revoked' = revoked \cup {call.token}
  /\ call' = None
  /\ UNCHANGED <<requests, index, used, returned, delivered, broken>>

\* A write fails and the call returns its error, or the gateway crashes.
Stop ==
  /\ call # None
  /\ call' = None
  /\ broken' = TRUE
  /\ UNCHANGED <<requests, records, index, used, returned, delivered, revoked>>

\* What administrators, the clock and failures do to the store.
Change ==
  \/ \E id \in Ids : Age(id) \/ ApproveRecord(id) \/ RejectPairingRequest(id)
  \/ ApproveIndex \/ ApproveRequest
  \/ \E w \in Workers : RotateIndex(w) \/ DeleteIndex(w)
  \/ RotateRecord \/ DeleteRecord
  \/ Stop

Next ==
  \/ \E id \in Ids : CreatePairingRequest(id) \/ PollPairingRequest(id)
  \/ Change

Spec == Init /\ [][Next]_vars

-----------------------------------------------------------------------------
(* Properties *)

(***************************************************************************)
(* A token that a worker has been given as approved, or will be at its     *)
(* next poll, opens the gateway unless somebody has rotated or deleted the *)
(* worker since, wherever calls were interrupted: approval writes the      *)
(* record and the index before it shows the token.                         *)
(***************************************************************************)
Shown(t) ==
  \/ t \in delivered
  \/ \E id \in Ids : /\ requests[id] # None
                     /\ requests[id].status = "approved"
                     /\ requests[id].token = t

ApprovedTokenWorks ==
  \A t \in Tokens : Shown(t) => Valid(t) \/ t \in revoked

(***************************************************************************)
(* From the first write of a rotation or a deletion on the old token is    *)
(* refused, and no later call, interrupted or not, brings it back.         *)
(***************************************************************************)
RevocationIsFinal == \A t \in revoked : ~Valid(t)

(***************************************************************************)
(* As long as no call was interrupted, the index and the records agree     *)
(* between calls: no token is left that names a worker which is gone or    *)
(* has another one, and every worker can be reached by its token.          *)
(***************************************************************************)
FilesAgree ==
  call = None /\ ~broken =>
    \A t \in Tokens, w \in Workers : index[t] = w <=> records[w] = t

(***************************************************************************)
(* A token handed over as approved is not in any request any more: neither *)
(* a rejection nor a second approval lets it be handed over again.         *)
(***************************************************************************)
DeliveredOnce ==
  \A t \in delivered, id \in Ids :
    requests[id] # None => requests[id].token # t

(***************************************************************************)
(* The three files keep the promise TokenLife makes of a token, although   *)
(* they are written one after the other and any call may stop in between:  *)
(* a token comes to be accepted at one write and at most once, no write    *)
(* takes another worker's token away, only rotation and deletion end a     *)
(* token, and an approved poll answers a token that has worked.            *)
(***************************************************************************)
Working == {t \in Tokens : Valid(t)}

Life == INSTANCE TokenLife WITH
  working <- Working,
  handed <- delivered,
  ended <- revoked

ImplementsTokenLife == Life!LifeSpec
=============================================================================
