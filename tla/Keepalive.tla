------------------------------ MODULE Keepalive ------------------------------
(***************************************************************************)
(* Deadlines of one connection between the gateway and a worker            *)
(* (pkg/server/server.go: handleWorkerConnect, writeWorkerEnvelope;        *)
(* pkg/worker/worker.go: connectAndServe, heartbeatLoop, writeEnvelope).   *)
(*                                                                         *)
(* Time is counted in seconds from the handshake.  The network is at its   *)
(* best: it takes every frame at once and delivers it at once, so whatever *)
(* goes wrong here is the doing of the two programs.  What is external is  *)
(* the websocket library: the write deadline stays until it is set again,  *)
(* a write after it fails, and after one failure all writes fail, the      *)
(* pong that answers a ping included.                                      *)
(***************************************************************************)
EXTENDS Integers

CONSTANTS
  PongWait,         \* pongWait
  WriteWait,        \* writeWait
  HeartbeatPeriod,  \* of heartbeatLoop
  Horizon           \* bound: seconds looked at

\* Mutant: the fraction upside down.
PingPeriodInverted == (PongWait * 10) \div 9

PingPeriod == (PongWait * 9) \div 10

ASSUME KeepaliveAssumption ==
  /\ PongWait \in Nat /\ PongWait >= 2
  /\ WriteWait \in Nat \ {0}
  /\ HeartbeatPeriod \in Nat \ {0}
  /\ Horizon \in Nat

Ends == {"gateway", "worker"}
Peer(e) == IF e = "gateway" THEN "worker" ELSE "gateway"

VARIABLES
  now,
  up,             \* the connection is open
  readDeadline,   \* [Ends -> time]
  writeDeadline,  \* [Ends -> time]; 0 is no deadline, as in the library
  writable,       \* [Ends -> no write has failed yet]
  pinging,        \* [Ends -> the pinger's goroutine runs]
  nextPing,       \* [Ends -> when its ticker fires next]
  nextHeartbeat   \* when the worker's heartbeat ticker fires next

vars == <<now, up, readDeadline, writeDeadline, writable, pinging, nextPing,
          nextHeartbeat>>

\* No deadline and no ticker is further ahead than its period.
TypeOK ==
  /\ now \in Nat
  /\ up \in BOOLEAN
  /\ readDeadline \in [Ends -> 0..(now + PongWait)]
  /\ writeDeadline \in [Ends -> 0..(now + WriteWait)]
  /\ writable \in [Ends -> BOOLEAN]
  /\ pinging \in [Ends -> BOOLEAN]
  /\ nextPing \in [Ends -> 0..(now + PingPeriod)]
  /\ nextHeartbeat \in 0..(now + HeartbeatPeriod)

\* The hello has been exchanged, both read loops and tickers run.
Init ==
  /\ now = 0
  /\ up = TRUE
  /\ readDeadline = [e \in Ends |-> PongWait]
  /\ writeDeadline = [e \in Ends |-> 0]
  /\ writable = [e \in Ends |-> TRUE]
  /\ pinging = [e \in Ends |-> TRUE]
  /\ nextPing = [e \in Ends |-> PingPeriod]
  /\ nextHeartbeat = HeartbeatPeriod

-----------------------------------------------------------------------------
\* External: what the library makes of a write of e.
Accepts(e) ==
  /\ writable[e]
  /\ writeDeadline[e] = 0 \/ now < writeDeadline[e]

\* A data frame, and the peer's read loop that gives itself PongWait more.
WriteMessage(e) ==
  /\ writable' = [writable EXCEPT ![e] = Accepts(e)]
  /\ readDeadline' = [readDeadline EXCEPT
       ![Peer(e)] = IF Accepts(e) THEN now + PongWait ELSE @]

\* Mutant: the write is given the time of a read.
PingWithPongWait(e) ==
  /\ up
  /\ pinging[e]
  /\ now = nextPing[e]
  /\ nextPing' = [nextPing EXCEPT ![e] = now + PingPeriod]
  /\ writeDeadline' = [writeDeadline EXCEPT ![e] = now + PongWait]
  /\ pinging' = [pinging EXCEPT ![e] = writable[e]]
  /\ UNCHANGED <<now, up, readDeadline, writable, nextHeartbeat>>

\* SetWriteDeadline and the ping; its pong comes back if the peer can write.
Ping(e) ==
  /\ up
  /\ pinging[e]
  /\ now = nextPing[e]
  /\ nextPing' = [nextPing EXCEPT ![e] = now + PingPeriod]
  /\ writeDeadline' = [writeDeadline EXCEPT ![e] = now + WriteWait]
  /\ pinging' = [pinging EXCEPT ![e] = writable[e]]
  /\ readDeadline' = [readDeadline EXCEPT
       ![e] = IF writable[e] /\ writable[Peer(e)] THEN now + PongWait ELSE @]
  /\ UNCHANGED <<now, up, writable, nextHeartbeat>>

\* heartbeatLoop ignores the error of its write.
Heartbeat ==
  /\ up
  /\ now = nextHeartbeat
  /\ nextHeartbeat' = now + HeartbeatPeriod
  /\ WriteMessage("worker")
  /\ UNCHANGED <<now, up, writeDeadline, pinging, nextPing>>

\* A run or cancel request, or a run event, at any time.
Message(e) ==
  /\ up
  /\ WriteMessage(e)
  /\ UNCHANGED <<now, up, writeDeadline, pinging, nextPing, nextHeartbeat>>

\* A read loop fails, and its program closes the connection.
ReadTimeout(e) ==
  /\ up
  /\ now >= readDeadline[e]
  /\ up' = FALSE
  /\ UNCHANGED <<now, readDeadline, writeDeadline, writable, pinging, nextPing,
                 nextHeartbeat>>

\* Nothing that is due waits for a second.
Due ==
  \/ \E e \in Ends : (pinging[e] /\ now >= nextPing[e]) \/ now >= readDeadline[e]
  \/ now >= nextHeartbeat

Tick ==
  /\ up
  /\ ~Due
  /\ now < Horizon
  /\ now' = now + 1
  /\ UNCHANGED <<up, readDeadline, writeDeadline, writable, pinging, nextPing,
                 nextHeartbeat>>

Next ==
  \/ \E e \in Ends : Ping(e) \/ Message(e) \/ ReadTimeout(e)
  \/ Heartbeat
  \/ Tick

Spec == Init /\ [][Next]_vars

-----------------------------------------------------------------------------
(* Properties *)

(***************************************************************************)
(* The periods are chosen well: an end whose writes and whose peer's       *)
(* writes have all been accepted does not run into its read deadline, so   *)
(* the connection only breaks after a write was refused.                   *)
(***************************************************************************)
BreaksOnlyAfterRefusal == up \/ \E e \in Ends : ~writable[e]

(***************************************************************************)
(* What a new connection is good for: no write of either end is refused    *)
(* until WriteWait after its first ping, and the connection lasts a        *)
(* pongWait longer than that ping, whatever is sent on it in between: how  *)
(* long a worker serves between two reconnections at least.                *)
(***************************************************************************)
ServesAtFirst ==
  /\ now < PingPeriod + WriteWait => \A e \in Ends : writable[e]
  /\ now < PingPeriod + PongWait => up

(***************************************************************************)
(* server.go:69, "Time allowed to write a message to the peer" (writeWait, *)
(* ten seconds): a write to a peer that takes every frame at once is not   *)
(* refused.  The deadline is set by the pinger alone and stays: from       *)
(* WriteWait after a ping until the next one every message is refused.     *)
(***************************************************************************)
WritesAccepted == \A e \in Ends : writable[e]
=============================================================================
