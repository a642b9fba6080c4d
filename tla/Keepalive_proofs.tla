--------------------------- MODULE Keepalive_proofs ---------------------------
(***************************************************************************)
(* Theorems about Keepalive, for all periods the code could be given.      *)
(***************************************************************************)
EXTENDS Keepalive, TLAPS

\* server.go:72, "Must be less than pongWait."
LEMMA PingBeforePong ==
  /\ PongWait \in Nat /\ WriteWait \in Nat /\ HeartbeatPeriod \in Nat
  /\ PingPeriod \in Nat
  /\ PingPeriod < PongWait
BY KeepaliveAssumption DEF PingPeriod

LEMMA TypeInit == Init => TypeOK
BY PingBeforePong DEF Init, TypeOK

LEMMA TypeStep == TypeOK /\ [Next]_vars => TypeOK'
<1> SUFFICES ASSUME TypeOK, [Next]_vars PROVE TypeOK'
  OBVIOUS
<1> USE PingBeforePong DEF TypeOK
<1>1. ASSUME NEW e \in Ends, Ping(e) PROVE TypeOK'
  BY <1>1 DEF Ping
<1>2. ASSUME NEW e \in Ends, WriteMessage(e), now' = now
      PROVE  /\ readDeadline' \in [Ends -> 0..(now' + PongWait)]
             /\ writable' \in [Ends -> BOOLEAN]
  <2>1. writable' \in [Ends -> BOOLEAN]
    BY <1>2 DEF WriteMessage, Accepts
  <2>2. \/ readDeadline' = [readDeadline EXCEPT ![Peer(e)] = now + PongWait]
        \/ readDeadline' = readDeadline
    BY <1>2 DEF WriteMessage
  <2>3. readDeadline' \in [Ends -> 0..(now' + PongWait)]
    BY <1>2, <2>2
  <2> QED
    BY <2>1, <2>3
<1>3. ASSUME NEW e \in Ends, Message(e) PROVE TypeOK'
  BY <1>2, <1>3 DEF Message
<1>4. CASE Heartbeat
  BY <1>2, <1>4 DEF Heartbeat, Ends
<1>5. ASSUME NEW e \in Ends, ReadTimeout(e) PROVE TypeOK'
  BY <1>5 DEF ReadTimeout
<1>6. CASE Tick
  BY <1>6 DEF Tick
<1>7. CASE UNCHANGED vars
  BY <1>7 DEF vars
<1> QED
  BY <1>1, <1>3, <1>4, <1>5, <1>6, <1>7 DEF Next

(***************************************************************************)
(* No deadline and no ticker of a connection is ever further ahead than    *)
(* its period.                                                             *)
(***************************************************************************)
THEOREM TypeCorrect == Spec => []TypeOK
BY TypeInit, TypeStep, PTL DEF Spec

(***************************************************************************)
(* The inductive invariant: as long as no write has been refused, both     *)
(* pingers run, and each will ping before its end's read deadline.         *)
(***************************************************************************)
PingsInTime ==
  (\A e \in Ends : writable[e]) =>
    /\ up
    /\ \A e \in Ends : /\ pinging[e]
                       /\ now <= nextPing[e]
                       /\ nextPing[e] < readDeadline[e]

LEMMA PingsInTimeStep == TypeOK /\ PingsInTime /\ [Next]_vars => PingsInTime'
<1> SUFFICES ASSUME TypeOK, PingsInTime, [Next]_vars,
                    \A e \in Ends : writable'[e]
             PROVE  /\ up'
                    /\ \A e \in Ends : /\ pinging'[e]
                                       /\ now' <= nextPing'[e]
                                       /\ nextPing'[e] < readDeadline'[e]
  BY DEF PingsInTime
<1> USE PingBeforePong DEF TypeOK
<1>1. \A e \in Ends : writable[e]
  <2>1. ASSUME NEW e \in Ends, WriteMessage(e)
        PROVE  \A d \in Ends : writable'[d] => writable[d]
    BY <2>1 DEF WriteMessage, Accepts
  <2> QED
    BY <2>1 DEF Next, vars, Ping, Message, ReadTimeout, Heartbeat, Tick, Ends
<1>2. /\ up
      /\ \A e \in Ends : /\ pinging[e]
                         /\ now <= nextPing[e]
                         /\ nextPing[e] < readDeadline[e]
  BY <1>1 DEF PingsInTime
<1>3. ASSUME NEW e \in Ends, Ping(e) PROVE PingsInTime'
  <2>1. Peer(e) \in Ends
    BY DEF Peer, Ends
  <2> QED
    BY <1>1, <1>2, <1>3, <2>1 DEF Ping, PingsInTime
<1>4. ASSUME NEW e \in Ends, WriteMessage(e),
             UNCHANGED <<now, up, writeDeadline, pinging, nextPing>>
      PROVE  PingsInTime'
  <2>1. \A d \in Ends : readDeadline'[d] = readDeadline[d]
                        \/ readDeadline'[d] = now + PongWait
    BY <1>4 DEF WriteMessage
  <2> QED
    BY <1>2, <1>4, <2>1 DEF PingsInTime
<1>5. ASSUME NEW e \in Ends, ReadTimeout(e) PROVE FALSE
  BY <1>2, <1>5 DEF ReadTimeout
<1>6. ASSUME Tick PROVE PingsInTime'
  <2>1. \A e \in Ends : now < nextPing[e]
    BY <1>2, <1>6 DEF Tick, Due
  <2> QED
    BY <1>2, <1>6, <2>1 DEF Tick, PingsInTime
<1>7. ASSUME UNCHANGED vars PROVE PingsInTime'
  BY <1>2, <1>7 DEF vars, PingsInTime
<1>8. PingsInTime'
  <2>1. ASSUME NEW e \in Ends, Message(e) PROVE PingsInTime'
    BY <1>4, <2>1 DEF Message
  <2>2. ASSUME Heartbeat PROVE PingsInTime'
    BY <1>4, <2>2 DEF Heartbeat, Ends
  <2> QED
    BY <1>3, <1>5, <1>6, <1>7, <2>1, <2>2 DEF Next
<1> QED
  BY <1>8 DEF PingsInTime

(***************************************************************************)
(* Whatever pongWait is, a pinger at nine tenths of it keeps a connection  *)
(* open on which no write is refused: what breaks the connections of this  *)
(* code is the write deadline the pinger leaves behind, not its period.    *)
(***************************************************************************)
THEOREM KeptOpen == Spec => []BreaksOnlyAfterRefusal
<1>1. Init => PingsInTime
  BY PingBeforePong DEF Init, PingsInTime
<1>2. PingsInTime => BreaksOnlyAfterRefusal
  BY DEF PingsInTime, BreaksOnlyAfterRefusal
<1> QED
  BY <1>1, <1>2, TypeCorrect, PingsInTimeStep, PTL DEF Spec

-----------------------------------------------------------------------------
(* What a new connection is good for *)

(***************************************************************************)
(* The inductive invariant: write deadlines come from pings, of which none *)
(* is before PingPeriod, and an end waits for its first ping or has a read *)
(* deadline from that ping or from later.                                  *)
(***************************************************************************)
FirstPing(e) == now <= PingPeriod /\ nextPing[e] = PingPeriod /\ pinging[e]
Pinged(e) == now >= PingPeriod /\ readDeadline[e] >= PingPeriod + PongWait

YoungEnd(e) ==
  /\ writeDeadline[e] = 0 \/ writeDeadline[e] >= PingPeriod + WriteWait
  /\ writable[e] \/ now >= PingPeriod + WriteWait
  /\ nextPing[e] >= PingPeriod
  /\ readDeadline[e] >= PongWait
  /\ FirstPing(e) \/ Pinged(e)

Young ==
  /\ up \/ now >= PingPeriod + PongWait
  /\ \A e \in Ends : YoungEnd(e)

LEMMA YoungWrite ==
  ASSUME TypeOK, Young, NEW e \in Ends, WriteMessage(e),
         UNCHANGED <<now, up, writeDeadline, pinging, nextPing>>
  PROVE  Young'
<1> USE PingBeforePong DEF TypeOK
<1>1. ASSUME NEW d \in Ends PROVE YoungEnd(d)'
  <2>1. YoungEnd(d)
    BY DEF Young
  <2>2. writable'[d] \/ now >= PingPeriod + WriteWait
    <3>1. CASE d # e
      BY <2>1, <3>1 DEF WriteMessage, YoungEnd
    <3>2. CASE d = e /\ Accepts(e)
      BY <3>2 DEF WriteMessage
    <3>3. CASE d = e /\ ~Accepts(e)
      BY <2>1, <3>3 DEF YoungEnd, Accepts
    <3> QED
      BY <3>1, <3>2, <3>3
  <2>3. readDeadline'[d] = readDeadline[d] \/ readDeadline'[d] = now + PongWait
    BY DEF WriteMessage
  <2>4. readDeadline'[d] >= PongWait /\ (FirstPing(d) \/ Pinged(d))'
    BY <2>1, <2>3 DEF YoungEnd, FirstPing, Pinged
  <2> QED
    BY <2>1, <2>2, <2>4 DEF YoungEnd
<1> QED
  BY <1>1 DEF Young

LEMMA YoungPing ==
  ASSUME TypeOK, Young, NEW e \in Ends, Ping(e)
  PROVE  Young'
<1> USE PingBeforePong DEF TypeOK
<1>1. PingPeriod <= now /\ now = nextPing[e] /\ Peer(e) \in Ends
  BY DEF Ping, Young, YoungEnd, Peer, Ends
<1>2. ASSUME NEW d \in Ends, d # e PROVE YoungEnd(d)'
  BY <1>2 DEF Ping, Young, YoungEnd, FirstPing, Pinged
<1>3. YoungEnd(e)'
  <2>1. YoungEnd(e)
    BY DEF Young
  <2>2. /\ now' = now /\ writable' = writable
        /\ writeDeadline'[e] = now + WriteWait
        /\ nextPing'[e] = now + PingPeriod
    BY DEF Ping
  <2>3. /\ readDeadline'[e] \in Nat
        /\ readDeadline'[e] >= PingPeriod + PongWait
    <3>1. CASE writable[e] /\ writable[Peer(e)]
      <4>1. readDeadline'[e] = now + PongWait
        BY <3>1 DEF Ping
      <4> QED
        BY <1>1, <4>1
    <3>2. CASE ~(writable[e] /\ writable[Peer(e)])
      <4>1. readDeadline'[e] = readDeadline[e]
        BY <3>2 DEF Ping
      <4>2. now >= PingPeriod + WriteWait
        BY <1>1, <3>2 DEF Young, YoungEnd
      <4>3. WriteWait > 0
        BY KeepaliveAssumption
      <4> QED
        BY <2>1, <4>1, <4>2, <4>3 DEF YoungEnd, FirstPing, Pinged
    <3> QED
      BY <3>1, <3>2
  <2> QED
    BY <1>1, <2>1, <2>2, <2>3 DEF YoungEnd, Pinged
<1> QED
  BY <1>2, <1>3 DEF Young, Ping

LEMMA YoungStep == TypeOK /\ Young /\ [Next]_vars => Young'
<1> SUFFICES ASSUME TypeOK, Young, [Next]_vars PROVE Young'
  OBVIOUS
<1> USE PingBeforePong DEF TypeOK
<1>1. ASSUME NEW e \in Ends, Message(e) PROVE Young'
  BY <1>1, YoungWrite DEF Message
<1>2. CASE Heartbeat
  BY <1>2, YoungWrite DEF Heartbeat, Ends
<1>3. ASSUME NEW e \in Ends, ReadTimeout(e) PROVE Young'
  <2>1. now >= PingPeriod + PongWait
    BY <1>3 DEF ReadTimeout, Young, YoungEnd, FirstPing, Pinged
  <2> QED
    BY <1>3, <2>1 DEF ReadTimeout, Young, YoungEnd, FirstPing, Pinged
<1>4. CASE Tick
  <2>1. up' /\ now' = now + 1
    BY <1>4 DEF Tick
  <2>2. ASSUME NEW e \in Ends PROVE YoungEnd(e)'
    <3>1. YoungEnd(e)
      BY DEF Young
    <3>2. FirstPing(e) => now < PingPeriod
      BY <1>4 DEF Tick, Due, FirstPing
    <3> QED
      BY <1>4, <3>1, <3>2 DEF Tick, YoungEnd, FirstPing, Pinged
  <2> QED
    BY <2>1, <2>2 DEF Young
<1>5. CASE UNCHANGED vars
  BY <1>5 DEF vars, Young, YoungEnd, FirstPing, Pinged
<1> QED
  BY <1>1, <1>2, <1>3, <1>4, <1>5, YoungPing DEF Next

(***************************************************************************)
(* Whatever the periods are, and whatever is sent, no write is refused     *)
(* before WriteWait after the first ping and no connection breaks before   *)
(* PongWait after it.                                                      *)
(***************************************************************************)
THEOREM GoodForAWhile == Spec => []ServesAtFirst
<1>1. Init => Young
  BY PingBeforePong DEF Init, Young, YoungEnd, FirstPing
<1>2. TypeOK /\ Young => ServesAtFirst
  BY PingBeforePong DEF TypeOK, Young, YoungEnd, ServesAtFirst
<1> QED
  BY <1>1, <1>2, TypeCorrect, YoungStep, PTL DEF Spec
=============================================================================
