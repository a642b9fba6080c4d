------------------------------- MODULE Mailbox -------------------------------
(***************************************************************************)
(* What the gateway promises of its control messages, whichever way they   *)
(* travel: an envelope that has been dispatched is outstanding until the   *)
(* worker it is addressed to receives it, once, or until it is lost.       *)
(***************************************************************************)
CONSTANTS Envelopes, Workers

VARIABLES
  outstanding,  \* [Workers -> the envelopes on their way to it]
  received,     \* [Workers -> the envelopes it got]
  lost          \* envelopes that will never arrive

mailboxVars == <<outstanding, received, lost>>

MailboxInit ==
  /\ outstanding = [w \in Workers |-> {}]
  /\ received = [w \in Workers |-> {}]
  /\ lost = {}

Dispatch(e, w) ==
  /\ e \notin lost
  /\ \A v \in Workers : e \notin outstanding[v] \cup received[v]
  /\ outstanding' = [outstanding EXCEPT ![w] = @ \cup {e}]
  /\ UNCHANGED <<received, lost>>

\* A frame or a reply to a poll hands over a batch; losses may come with it.
Resolve(w, batch, gone) ==
  /\ batch \subseteq outstanding[w] \ gone
  /\ outstanding' = [v \in Workers |-> outstanding[v] \ (batch \cup gone)]
  /\ received' = [received EXCEPT ![w] = @ \cup batch]
  /\ lost' = lost \cup gone

MailboxNext ==
  \/ \E e \in Envelopes, w \in Workers : Dispatch(e, w)
  \/ \E w \in Workers, gone \in SUBSET (UNION {outstanding[v] : v \in Workers}) :
       \E batch \in SUBSET outstanding[w] : Resolve(w, batch, gone)

MailboxSpec == MailboxInit /\ [][MailboxNext]_mailboxVars
=============================================================================
