------------------------------ MODULE EventFeed ------------------------------
(***************************************************************************)
(* What the gateway promises those who follow a run: a reader starts at    *)
(* most Window events back, then hears the events of its stream one after  *)
(* the other.  It may miss some only from an event on that was published   *)
(* when the reader was Slack or more events behind, and even then it never *)
(* hears one twice or too late.                                            *)
(***************************************************************************)
EXTENDS Naturals

CONSTANTS Streams, Clients, Window, Slack

VARIABLES
  published,  \* [Streams -> number of events there have been]
  listeners,  \* [Streams -> the clients that follow the stream]
  at,         \* [Clients -> number of the event heard last, or before it began]
  slow        \* clients that may miss events

feedVars == <<published, listeners, at, slow>>

FeedInit ==
  /\ published = [st \in Streams |-> 0]
  /\ listeners = [st \in Streams |-> {}]
  /\ at = [c \in Clients |-> 0]
  /\ slow = {}

Publish(st) ==
  /\ published' = [published EXCEPT ![st] = @ + 1]
  /\ slow \subseteq slow'
  /\ \A c \in slow' \ slow :
       c \in listeners[st] /\ published[st] >= at[c] + Slack
  /\ UNCHANGED <<listeners, at>>

Listen(c, st) ==
  /\ \A s \in Streams : c \notin listeners[s]
  /\ listeners' = [listeners EXCEPT ![st] = @ \cup {c}]
  /\ \E from \in 0..published[st] :
       /\ published[st] <= from + Window
       /\ at' = [at EXCEPT ![c] = from]
  /\ UNCHANGED <<published, slow>>

Hear(c, st) ==
  /\ c \in listeners[st]
  /\ \E n \in (at[c] + 1)..published[st] :
       /\ c \notin slow => n = at[c] + 1
       /\ at' = [at EXCEPT ![c] = n]
  /\ UNCHANGED <<published, listeners, slow>>

Leave(c, st) ==
  /\ c \in listeners[st]
  /\ listeners' = [listeners EXCEPT ![st] = @ \ {c}]
  /\ at' = [at EXCEPT ![c] = 0]
  /\ slow' = slow \ {c}
  /\ UNCHANGED published

FeedNext ==
  \E st \in Streams :
    \/ Publish(st)
    \/ \E c \in Clients : Listen(c, st) \/ Hear(c, st) \/ Leave(c, st)

FeedSpec == FeedInit /\ [][FeedNext]_feedVars
=============================================================================
