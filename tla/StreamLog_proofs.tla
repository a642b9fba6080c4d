--------------------------- MODULE StreamLog_proofs ---------------------------
(***************************************************************************)
(* Theorems about StreamLog, for any number of streams, readers and        *)
(* events, any capacities and any retention.                               *)
(***************************************************************************)
EXTENDS StreamLog, SequenceTheorems, TLAPS

\* KeepLast cuts a log at its old end and nowhere else.
LEMMA KeepLastType ==
  ASSUME NEW S, NEW s \in Seq(S), NEW max \in Nat
  PROVE  KeepLast(s, max) \in Seq(S)
BY DEF KeepLast

LEMMA KeepLastKeeps ==
  ASSUME NEW S, NEW s \in Seq(S), NEW max \in Nat \ {0}
  PROVE  LET k == KeepLast(s, max) IN
         /\ Len(s) <= max => k = s
         /\ Len(s) > max => Len(k) = max
         /\ s # <<>> => Len(k) > 0 /\ k[Len(k)] = s[Len(s)]
         /\ \A i \in 1..Len(k) : \E j \in 1..Len(s) : k[i] = s[j]
<1>1. CASE Len(s) <= max
  BY <1>1 DEF KeepLast
<1>2. CASE Len(s) > max
  <2> DEFINE m == Len(s) - max + 1
             k == SubSeq(s, m, Len(s))
  <2>1. KeepLast(s, max) = k
    BY <1>2 DEF KeepLast
  <2>2. m \in 1..Len(s) /\ Len(s) \in Nat
    BY <1>2
  <2>3. Len(k) = max /\ \A i \in 1..max : k[i] = s[m + i - 1]
    BY <1>2, <2>2
  <2>4. \A i \in 1..max : m + i - 1 \in 1..Len(s)
    BY <1>2, <2>2
  <2> HIDE DEF k
  <2>5. k[Len(k)] = s[Len(s)]
    BY <2>2, <2>3
  <2> QED
    BY <1>2, <2>1, <2>3, <2>4, <2>5
<1> QED
  BY <1>1, <1>2

LEMMA OlderType ==
  ASSUME NEW age \in Age \cup {None}
  PROVE  Older(age) \in Age \cup {None}
BY StreamLogAssumption DEF Older, Age

LEMMA OfferType ==
  ASSUME NEW r \in Reader, NEW e \in Event
  PROVE  Offer(r, e) \in Reader
<1>1. Append(r.ch, e) \in Seq(Event)
  BY DEF Reader
<1>2. [r EXCEPT !.ch = Append(@, e)] \in Reader
  BY <1>1 DEF Reader
<1>3. [r EXCEPT !.dropped = TRUE] \in Reader
  BY DEF Reader
<1> QED
  BY <1>2, <1>3 DEF Offer

LEMMA TypeInit == Init => TypeOK
<1> SUFFICES ASSUME Init PROVE TypeOK
  OBVIOUS
<1> DEFINE Fresh == [pc : {"idle"}, stream : Streams, history : {<<>>},
                     ch : {<<>>}, got : {<<>>}, dropped : {FALSE}, since : {0}]
<1>1. <<>> \in Seq(Event)
  OBVIOUS
<1>2. ASSUME NEW r \in Fresh PROVE r \in Reader
  <2>1. \E st \in Streams :
          r = [pc |-> "idle", stream |-> st, history |-> <<>>, ch |-> <<>>,
               got |-> <<>>, dropped |-> FALSE, since |-> 0]
    OBVIOUS
  <2> QED
    BY <1>1, <2>1 DEF Reader
<1>3. sse \in [Clients -> Fresh]
  BY DEF Init
<1>4. sse \in [Clients -> Reader]
  <2> HIDE DEF Fresh
  <2> QED
    BY <1>2, <1>3
<1> QED
  BY <1>1, <1>4, StreamLogAssumption DEF Init, TypeOK

LEMMA TypeStep == TypeOK /\ [Next]_vars => TypeOK'
<1> SUFFICES ASSUME TypeOK, [Next]_vars PROVE TypeOK'
  OBVIOUS
<1> USE StreamLogAssumption
<1>1. ASSUME NEW st \in Streams, RecordRun(st) PROVE TypeOK'
  BY <1>1 DEF TypeOK, RecordRun, Age
<1>2. ASSUME NEW st \in Streams, NEW kind \in Kinds, appendStreamEvent(st, kind)
      PROVE  TypeOK'
  <2> DEFINE e == [n |-> appended[st] + 1, kind |-> kind]
  <2>1. e \in Event
    BY DEF TypeOK, Event
  <2>2. streamEvents' \in [Streams -> Seq(Event)]
    <3>1. Append(streamEvents[st], e) \in Seq(Event)
      BY <2>1 DEF TypeOK
    <3>2. KeepLast(Append(streamEvents[st], e), MaxLog) \in Seq(Event)
      BY <3>1, KeepLastType
    <3> QED
      BY <1>2, <3>2 DEF appendStreamEvent, TypeOK
  <2>3. streamEventTimes' \in [Streams -> Nat]
    BY <1>2 DEF appendStreamEvent, TypeOK, AtMost
  <2>4. sse' \in [Clients -> Reader]
    <3>1. \A c \in Clients : Offer(sse[c], e) \in Reader
      BY <2>1, OfferType DEF TypeOK
    <3> QED
      BY <1>2, <3>1 DEF appendStreamEvent, TypeOK
  <2>5. /\ streamLastAt' \in [Streams -> Age \cup {None}]
        /\ streamDoneAt' \in [Streams -> Age \cup {None}]
    <3>1. 0 \in Age
      BY DEF Age
    <3>2. streamLastAt' = [streamLastAt EXCEPT ![st] = 0]
      BY <1>2 DEF appendStreamEvent
    <3>3. \/ streamDoneAt' = [streamDoneAt EXCEPT ![st] = 0]
          \/ streamDoneAt' = streamDoneAt
      BY <1>2 DEF appendStreamEvent
    <3> QED
      BY <3>1, <3>2, <3>3 DEF TypeOK
  <2>6. /\ streamSubs' \in [Streams -> SUBSET Clients]
        /\ runs' \in SUBSET Streams
        /\ recorded' \in SUBSET Streams
        /\ appended' \in [Streams -> Nat]
    BY <1>2 DEF appendStreamEvent, TypeOK
  <2>7. completion' \in [Streams -> Nat]
    <3>1. e.n \in Nat
      BY <2>1 DEF Event
    <3>2. \/ completion' = [completion EXCEPT ![st] = e.n]
          \/ completion' = completion
      BY <1>2 DEF appendStreamEvent
    <3> QED
      BY <3>1, <3>2 DEF TypeOK
  <2>8. ASSUME NEW s \in Streams
        PROVE  /\ Len(streamEvents'[s]) <= MaxLog
               /\ streamEventTimes'[s] = Len(streamEvents'[s])
    <3>1. CASE s # st
      BY <1>2, <3>1 DEF appendStreamEvent, TypeOK
    <3>2. CASE s = st
      <4> DEFINE long == Append(streamEvents[st], e)
      <4>1. long \in Seq(Event) /\ Len(long) = streamEventTimes[st] + 1
        BY <2>1 DEF TypeOK
      <4>2. /\ streamEvents'[st] = KeepLast(long, MaxLog)
            /\ streamEventTimes'[st] = AtMost(streamEventTimes[st] + 1, MaxLog)
        BY <1>2 DEF appendStreamEvent, TypeOK
      <4> HIDE DEF long
      <4>3. /\ Len(long) <= MaxLog => KeepLast(long, MaxLog) = long
            /\ Len(long) > MaxLog => Len(KeepLast(long, MaxLog)) = MaxLog
        BY <4>1, KeepLastKeeps
      <4>4. Len(long) \in Nat
        BY <4>1
      <4> QED
        BY <3>2, <4>1, <4>2, <4>3, <4>4 DEF AtMost
    <3> QED
      BY <3>1, <3>2
  <2> QED
    BY <2>2, <2>3, <2>4, <2>5, <2>6, <2>7, <2>8 DEF TypeOK
<1>3. ASSUME NEW c \in Clients, NEW st \in Streams, Subscribe(c, st) PROVE TypeOK'
  <2>1. streamEvents[st] \in Seq(Event) /\ appended[st] \in Nat
    BY DEF TypeOK
  <2>2. [pc |-> "history", stream |-> st, history |-> streamEvents[st],
         ch |-> <<>>, got |-> <<>>, dropped |-> FALSE, since |-> appended[st]]
          \in Reader
    BY <2>1 DEF Reader
  <2>3. sse' \in [Clients -> Reader]
    BY <1>3, <2>2 DEF TypeOK, Subscribe
  <2>4. streamSubs' \in [Streams -> SUBSET Clients]
    BY <1>3 DEF TypeOK, Subscribe
  <2> QED
    BY <1>3, <2>3, <2>4 DEF TypeOK, Subscribe
<1>4. ASSUME NEW c \in Clients, WriteHistory(c) PROVE TypeOK'
  <2>1. sse[c] \in Reader /\ sse[c].history \in Seq(Event) /\ sse[c].got \in Seq(Event)
    BY DEF TypeOK, Reader
  <2>2. [sse[c] EXCEPT !.pc = "live"] \in Reader
    BY <2>1 DEF Reader
  <2>3. CASE sse[c].history # <<>>
    <3>1. /\ Tail(sse[c].history) \in Seq(Event)
          /\ Append(sse[c].got, Head(sse[c].history)) \in Seq(Event)
      BY <2>1, <2>3
    <3>2. [sse[c] EXCEPT !.history = Tail(@), !.got = Append(@, Head(sse[c].history))]
            \in Reader
      BY <2>1, <3>1 DEF Reader
    <3>3. sse' \in [Clients -> Reader]
      BY <1>4, <2>3, <3>2 DEF WriteHistory, TypeOK
    <3> QED
      BY <1>4, <3>3 DEF TypeOK, WriteHistory
  <2>4. CASE sse[c].history = <<>>
    <3>1. sse' \in [Clients -> Reader]
      BY <1>4, <2>2, <2>4 DEF WriteHistory, TypeOK
    <3> QED
      BY <1>4, <3>1 DEF TypeOK, WriteHistory
  <2> QED
    BY <2>3, <2>4
<1>5. ASSUME NEW c \in Clients, WriteLive(c) PROVE TypeOK'
  <2>1. sse[c] \in Reader /\ sse[c].ch \in Seq(Event) /\ sse[c].got \in Seq(Event)
    BY DEF TypeOK, Reader
  <2>2. /\ Tail(sse[c].ch) \in Seq(Event)
        /\ Append(sse[c].got, Head(sse[c].ch)) \in Seq(Event)
    BY <1>5, <2>1 DEF WriteLive
  <2>3. [sse[c] EXCEPT !.ch = Tail(@), !.got = Append(@, Head(sse[c].ch))] \in Reader
    BY <2>1, <2>2 DEF Reader
  <2>4. sse' \in [Clients -> Reader]
    BY <1>5, <2>3 DEF WriteLive, TypeOK
  <2> QED
    BY <1>5, <2>4 DEF TypeOK, WriteLive
<1>6. ASSUME NEW c \in Clients, Unsubscribe(c) PROVE TypeOK'
  <2>1. [sse[c] EXCEPT !.pc = "unsubscribed", !.dropped = FALSE, !.since = 0] \in Reader
    <3>1. sse[c] \in Reader
      BY DEF TypeOK
    <3> QED
      BY <3>1 DEF Reader
  <2>2. sse' \in [Clients -> Reader]
    BY <1>6, <2>1 DEF Unsubscribe, TypeOK
  <2>3. streamSubs' \in [Streams -> SUBSET Clients]
    BY <1>6 DEF Unsubscribe, TypeOK
  <2> QED
    BY <1>6, <2>2, <2>3 DEF TypeOK, Unsubscribe
<1>7. ASSUME NEW c \in Clients, CloseChannel(c) PROVE TypeOK'
  <2>1. <<>> \in Seq(Event) /\ sse[c] \in Reader
    BY DEF TypeOK
  <2>2. [sse[c] EXCEPT !.pc = "closed", !.ch = <<>>, !.got = <<>>] \in Reader
    BY <2>1 DEF Reader
  <2>3. sse' \in [Clients -> Reader]
    BY <1>7, <2>2 DEF CloseChannel, TypeOK
  <2> QED
    BY <1>7, <2>3 DEF TypeOK, CloseChannel
<1>8. CASE cleanupLoop
  BY <1>8 DEF TypeOK, cleanupLoop
<1>9. CASE Tick
  <2>1. \A st \in Streams : /\ Older(streamLastAt[st]) \in Age \cup {None}
                            /\ Older(streamDoneAt[st]) \in Age \cup {None}
    BY OlderType DEF TypeOK
  <2> QED
    BY <1>9, <2>1 DEF TypeOK, Tick
<1>10. CASE UNCHANGED vars
  BY <1>10 DEF TypeOK, vars
<1> QED
  BY <1>1, <1>2, <1>3, <1>4, <1>5, <1>6, <1>7, <1>8, <1>9, <1>10 DEF Next

(***************************************************************************)
(* Type correctness of the gateway's stream maps and their readers.        *)
(***************************************************************************)
THEOREM TypeCorrect == Spec => []TypeOK
BY TypeInit, TypeStep, PTL DEF Spec
-----------------------------------------------------------------------------
(* A channel is closed only after it has left streamSubs *)

LEMMA ChannelStep ==
  TypeOK /\ NoSendOnClosedChannel /\ [Next]_vars => NoSendOnClosedChannel'
<1> SUFFICES ASSUME TypeOK, NoSendOnClosedChannel, [Next]_vars,
                    NEW s \in Streams, NEW d \in streamSubs'[s]
             PROVE  Subscribed(d)' /\ sse'[d].stream = s
  BY DEF NoSendOnClosedChannel
<1> USE DEF NoSendOnClosedChannel, Subscribed, TypeOK
<1>1. ASSUME NEW st \in Streams, NEW kind \in Kinds, appendStreamEvent(st, kind)
      PROVE  Subscribed(d)' /\ sse'[d].stream = s
  <2>1. d \in Clients /\ d \in streamSubs[s] /\ sse[d] \in Reader
    BY <1>1 DEF appendStreamEvent
  <2>2. ASSUME NEW e
        PROVE  Offer(sse[d], e).pc = sse[d].pc /\ Offer(sse[d], e).stream = sse[d].stream
    BY <2>1 DEF Offer, Reader
  <2>3. sse'[d].pc = sse[d].pc /\ sse'[d].stream = sse[d].stream
    BY <1>1, <2>1, <2>2 DEF appendStreamEvent
  <2> QED
    BY <2>1, <2>3
<1>2. ASSUME NEW c \in Clients, NEW st \in Streams, Subscribe(c, st)
      PROVE  Subscribed(d)' /\ sse'[d].stream = s
  BY <1>2 DEF Subscribe
<1>3. ASSUME NEW c \in Clients, WriteHistory(c) \/ WriteLive(c)
      PROVE  Subscribed(d)' /\ sse'[d].stream = s
  <2>1. c \in Clients /\ d \in Clients /\ d \in streamSubs[s]
    BY <1>3 DEF WriteHistory, WriteLive
  <2>2. sse[d] \in Reader
    BY <2>1
  <2>3. CASE WriteLive(c)
    <3>1. CASE d = c
      <4>1. sse'[d] = [sse[d] EXCEPT !.ch = Tail(@), !.got = Append(@, Head(sse[d].ch))]
        BY <2>1, <2>3, <3>1 DEF WriteLive
      <4>2. sse'[d].pc = sse[d].pc /\ sse'[d].stream = sse[d].stream
        BY <2>2, <4>1 DEF Reader
      <4> QED
        BY <2>1, <4>2
    <3>2. CASE d # c
      BY <2>1, <2>3, <3>2 DEF WriteLive
    <3> QED
      BY <3>1, <3>2
  <2>4. CASE WriteHistory(c)
    <3>1. CASE d = c
      <4>1. \/ sse'[d] = [sse[d] EXCEPT !.pc = "live"]
            \/ sse'[d] = [sse[d] EXCEPT !.history = Tail(@),
                                        !.got = Append(@, Head(sse[d].history))]
        <5>1. CASE sse[d].history = <<>>
          BY <2>1, <2>4, <3>1, <5>1 DEF WriteHistory
        <5>2. CASE sse[d].history # <<>>
          <6>1. sse' = [sse EXCEPT ![d].history = Tail(@),
                                   ![d].got = Append(@, Head(sse[d].history))]
            BY <2>4, <3>1, <5>2 DEF WriteHistory
          <6>2. sse \in [Clients -> Reader]
            OBVIOUS
          <6> QED
            BY <2>1, <6>1, <6>2
        <5> QED
          BY <5>1, <5>2
      <4>2. /\ sse'[d].pc = sse[d].pc \/ sse'[d].pc = "live"
            /\ sse'[d].stream = sse[d].stream
        <5>1. /\ DOMAIN sse[d] = DOMAIN [sse[d] EXCEPT !.pc = "live"]
              /\ "pc" \in DOMAIN sse[d] /\ "stream" \in DOMAIN sse[d]
          BY <2>2 DEF Reader
        <5> QED
          BY <4>1, <5>1
      <4> QED
        BY <2>1, <4>2
    <3>2. CASE d # c
      BY <2>1, <2>4, <3>2 DEF WriteHistory
    <3> QED
      BY <3>1, <3>2
  <2> QED
    BY <1>3, <2>3, <2>4
<1>4. ASSUME NEW c \in Clients, Unsubscribe(c)
      PROVE  Subscribed(d)' /\ sse'[d].stream = s
  <2>1. sse[c].stream \in Streams
    BY DEF Reader
  <2>2. d \in streamSubs[s] /\ (d = c => sse[c].stream # s)
    BY <1>4, <2>1 DEF Unsubscribe
  <2>3. d # c
    BY <2>2
  <2> QED
    BY <1>4, <2>2, <2>3 DEF Unsubscribe
<1>5. ASSUME NEW c \in Clients, CloseChannel(c)
      PROVE  Subscribed(d)' /\ sse'[d].stream = s
  BY <1>5 DEF CloseChannel
<1>6. ASSUME UNCHANGED <<streamSubs, sse>>
      PROVE  Subscribed(d)' /\ sse'[d].stream = s
  BY <1>6
<1> QED
  BY <1>1, <1>2, <1>3, <1>4, <1>5, <1>6 DEF Next, vars, RecordRun, cleanupLoop, Tick

(***************************************************************************)
(* The gateway never sends on a closed channel: every channel that         *)
(* appendStreamEvent finds in streamSubs belongs to a reader that has not  *)
(* left, whatever readers, events and clean-ups do at the same time.       *)
(***************************************************************************)
THEOREM ChannelsOpen == Spec => []NoSendOnClosedChannel
<1>1. Init => NoSendOnClosedChannel
  BY DEF Init, NoSendOnClosedChannel
<1> QED
  BY <1>1, TypeCorrect, ChannelStep, PTL DEF Spec

-----------------------------------------------------------------------------
(* Whatever the gateway keeps of a stream, cleanupLoop can find *)

LEMMA ReclaimableStep == TypeOK /\ Reclaimable /\ [Next]_vars => Reclaimable'
<1> SUFFICES ASSUME TypeOK, Reclaimable, [Next]_vars, NEW s \in Streams,
                    \/ streamEvents'[s] # <<>>
                    \/ streamEventTimes'[s] # 0
                    \/ streamDoneAt'[s] # None
                    \/ s \in runs'
             PROVE  streamLastAt'[s] # None
  BY DEF Reclaimable
<1> USE DEF TypeOK, Reclaimable
<1>1. 0 # None
  BY StreamLogAssumption
<1>2. ASSUME NEW st \in Streams, RecordRun(st) PROVE streamLastAt'[s] # None
  BY <1>1, <1>2 DEF RecordRun
<1>3. ASSUME NEW st \in Streams, NEW kind \in Kinds, appendStreamEvent(st, kind)
      PROVE  streamLastAt'[s] # None
  BY <1>1, <1>3 DEF appendStreamEvent
<1>4. CASE cleanupLoop
  <2>1. s \notin Collected
    BY <1>4 DEF cleanupLoop
  <2> QED
    BY <1>4, <2>1 DEF cleanupLoop
<1>5. CASE Tick
  <2>1. /\ Older(streamDoneAt[s]) # None => streamDoneAt[s] # None
        /\ streamLastAt[s] # None => Older(streamLastAt[s]) # None
    BY StreamLogAssumption DEF Older, Age
  <2> QED
    BY <1>5, <2>1 DEF Tick
<1>6. ASSUME UNCHANGED <<streamEvents, streamEventTimes, streamDoneAt, runs, streamLastAt>>
      PROVE  streamLastAt'[s] # None
  BY <1>6
<1> QED
  BY <1>2, <1>3, <1>4, <1>5, <1>6
     DEF Next, vars, Subscribe, WriteHistory, WriteLive, Unsubscribe, CloseChannel

(***************************************************************************)
(* No log and no runs entry is beyond the reach of cleanupLoop, in         *)
(* whatever order createRun, events and clean-ups touch a stream.          *)
(***************************************************************************)
THEOREM AllReclaimable == Spec => []Reclaimable
<1>1. Init => Reclaimable
  BY DEF Init, Reclaimable
<1> QED
  BY <1>1, TypeCorrect, ReclaimableStep, PTL DEF Spec
-----------------------------------------------------------------------------
LEMMA FeedTail ==
  ASSUME NEW a \in Seq(Event), NEW b \in Seq(Event), NEW c \in Seq(Event),
         b # <<>>
  PROVE  Append(a, Head(b)) \o Tail(b) \o c = a \o b \o c
<1> DEFINE x == Append(a, Head(b)) \o Tail(b)
           y == a \o b
<1>1. x \in Seq(Event) /\ y \in Seq(Event) /\ Len(x) = Len(y)
  OBVIOUS
<1>2. \A i \in 1..Len(x) : x[i] = y[i]
  OBVIOUS
<1>3. x = y
  <2> HIDE DEF x, y
  <2> QED
    BY <1>1, <1>2, SeqEqual
<1> QED
  BY <1>3

LEMMA FeedAppend ==
  ASSUME NEW a \in Seq(Event), NEW b \in Seq(Event), NEW e \in Event
  PROVE  a \o Append(b, e) = Append(a \o b, e)
<1> DEFINE x == a \o Append(b, e)
           y == Append(a \o b, e)
<1>1. x \in Seq(Event) /\ y \in Seq(Event) /\ Len(x) = Len(y)
  OBVIOUS
<1>2. \A i \in 1..Len(x) : x[i] = y[i]
  OBVIOUS
<1> HIDE DEF x, y
<1> QED
  BY <1>1, <1>2, SeqEqual

ReaderPhases ==
  \A c \in Clients :
    /\ sse[c].pc # "history" => sse[c].history = <<>>
    /\ sse[c].pc = "idle" => sse[c].ch = <<>> /\ sse[c].got = <<>>
    /\ Subscribed(c) => c \in streamSubs[sse[c].stream]

\* The log holds the newest events of its stream, with no gap.
Numbered(log, last) ==
  \A i \in 1..Len(log) : log[i].n = last - Len(log) + i

LogNumbered == \A st \in Streams : Numbered(streamEvents[st], appended[st])

\* What a step does to one reader, seen from its feed.
FeedStays(c) ==
  /\ Feed(c)' = Feed(c)
  /\ sse'[c].stream = sse[c].stream
  /\ appended'[sse[c].stream] >= appended[sse[c].stream]
  /\ Subscribed(c)' =>
       /\ Subscribed(c)
       /\ sse[c].dropped => sse'[c].dropped
       /\ \/ sse'[c].dropped
          \/ /\ appended'[sse[c].stream] = appended[sse[c].stream]
             /\ sse'[c].since = sse[c].since

FeedGrows(c) ==
  \E e \in Event :
    /\ e.n = appended[sse[c].stream] + 1
    /\ Feed(c)' = Append(Feed(c), e)
    /\ appended'[sse[c].stream] = e.n
    /\ Subscribed(c)
    /\ sse'[c].stream = sse[c].stream
    /\ sse'[c].dropped = sse[c].dropped
    /\ sse'[c].since = sse[c].since

FeedCopied(c) ==
  /\ Feed(c)' = streamEvents[sse'[c].stream]
  /\ sse'[c].since = appended[sse'[c].stream]
  /\ appended' = appended

FeedEnds(c) == Feed(c)' = <<>> /\ ~Subscribed(c)'

LEMMA FeedType ==
  ASSUME TypeOK, NEW c \in Clients
  PROVE  /\ sse[c].history \in Seq(Event) /\ sse[c].ch \in Seq(Event)
         /\ sse[c].got \in Seq(Event) /\ Feed(c) \in Seq(Event)
BY DEF TypeOK, Reader, Feed

LEMMA ReaderStep ==
  ASSUME TypeOK, NoSendOnClosedChannel, ReaderPhases, [Next]_vars,
         NEW d \in Clients
  PROVE  /\ FeedStays(d) \/ FeedGrows(d) \/ FeedCopied(d) \/ FeedEnds(d)
         /\ sse'[d].pc # "history" => sse'[d].history = <<>>
         /\ sse'[d].pc = "idle" => sse'[d].ch = <<>> /\ sse'[d].got = <<>>
         /\ Subscribed(d)' => d \in streamSubs'[sse'[d].stream]
<1> DEFINE Goal ==
         /\ FeedStays(d) \/ FeedGrows(d) \/ FeedCopied(d) \/ FeedEnds(d)
         /\ sse'[d].pc # "history" => sse'[d].history = <<>>
         /\ sse'[d].pc = "idle" => sse'[d].ch = <<>> /\ sse'[d].got = <<>>
         /\ Subscribed(d)' => d \in streamSubs'[sse'[d].stream]
           r == sse[d]
<1>0. /\ r \in Reader /\ r.stream \in Streams
      /\ \A st \in Streams : appended[st] \in Nat
      /\ sse \in [Clients -> Reader]
      /\ streamSubs \in [Streams -> SUBSET Clients]
  BY DEF TypeOK, Reader
<1>00. /\ r.pc # "history" => r.history = <<>>
       /\ r.pc = "idle" => r.ch = <<>> /\ r.got = <<>>
       /\ Subscribed(d) => d \in streamSubs[r.stream]
  BY DEF ReaderPhases
<1>1. ASSUME sse'[d] = r, appended' = appended,
             d \in streamSubs[r.stream] => d \in streamSubs'[r.stream]
      PROVE  Goal
  BY <1>0, <1>00, <1>1 DEF FeedStays, Subscribed, Feed
<1>2. ASSUME NEW st \in Streams, NEW kind \in Kinds, appendStreamEvent(st, kind)
      PROVE  Goal
  <2> DEFINE e == [n |-> appended[st] + 1, kind |-> kind]
  <2>1. e \in Event /\ e.n = appended[st] + 1
    BY <1>0 DEF Event
  <2>2. /\ appended' = [appended EXCEPT ![st] = @ + 1]
        /\ streamSubs' = streamSubs
        /\ sse'[d] = IF d \in streamSubs[st] THEN Offer(r, e) ELSE r
    BY <1>2 DEF appendStreamEvent
  <2>3. appended'[st] = appended[st] + 1 /\ appended'[r.stream] >= appended[r.stream]
    BY <1>0, <2>2 DEF TypeOK
  <2>4. CASE d \notin streamSubs[st]
    <3>1. sse'[d] = r
      BY <2>2, <2>4
    <3>2. Subscribed(d) => r.stream # st
      BY <1>00, <2>4
    <3>3. r.stream # st => appended'[r.stream] = appended[r.stream]
      BY <1>0, <2>2 DEF TypeOK
    <3>4. FeedStays(d)
      BY <2>3, <3>1, <3>2, <3>3 DEF FeedStays, Subscribed, Feed
    <3> QED
      BY <1>00, <2>2, <3>1, <3>4 DEF Subscribed
  <2>5. CASE d \in streamSubs[st]
    <3>1. Subscribed(d) /\ r.stream = st
      BY <2>5 DEF NoSendOnClosedChannel
    <3>2. CASE Len(r.ch) < ChanCap
      <4>1. sse'[d] = [r EXCEPT !.ch = Append(@, e)]
        BY <2>2, <2>5, <3>2 DEF Offer
      <4> HIDE DEF e, r
      <4>2. /\ sse'[d].pc = r.pc /\ sse'[d].stream = r.stream
            /\ sse'[d].history = r.history /\ sse'[d].got = r.got
            /\ sse'[d].ch = Append(r.ch, e) /\ sse'[d].dropped = r.dropped
            /\ sse'[d].since = r.since
        BY <1>0, <4>1 DEF Reader
      <4>3. Feed(d)' = Append(Feed(d), e)
        <5>1. /\ r.got \o r.history \in Seq(Event) /\ r.ch \in Seq(Event)
          BY FeedType DEF r
        <5>2. (r.got \o r.history) \o Append(r.ch, e)
                = Append((r.got \o r.history) \o r.ch, e)
          BY <2>1, <5>1, FeedAppend
        <5> QED
          BY <4>2, <5>2 DEF Feed, r
      <4>4. FeedGrows(d)
        <5>1. /\ appended'[sse[d].stream] = e.n
              /\ e.n = appended[sse[d].stream] + 1
          BY <2>1, <2>3, <3>1 DEF r
        <5> QED
          BY <2>1, <3>1, <4>2, <4>3, <5>1 DEF FeedGrows, r
      <4> QED
        BY <1>00, <2>2, <3>1, <4>2, <4>4 DEF Subscribed, r
    <3>3. CASE ~(Len(r.ch) < ChanCap)
      <4>1. sse'[d] = [r EXCEPT !.dropped = TRUE]
        BY <2>2, <2>5, <3>3 DEF Offer
      <4> HIDE DEF r
      <4>2. /\ sse'[d].pc = r.pc /\ sse'[d].stream = r.stream
            /\ sse'[d].history = r.history /\ sse'[d].got = r.got
            /\ sse'[d].ch = r.ch /\ sse'[d].dropped
        BY <1>0, <4>1 DEF Reader
      <4>3. FeedStays(d)
        BY <2>3, <3>1, <4>2 DEF FeedStays, Feed, Subscribed, r
      <4> QED
        BY <1>00, <2>2, <3>1, <4>2, <4>3 DEF Subscribed, r
    <3> QED
      BY <3>2, <3>3
  <2> QED
    BY <2>4, <2>5
<1>3. ASSUME NEW c \in Clients, NEW st \in Streams, Subscribe(c, st) PROVE Goal
  <2>1. CASE c # d
    <3>1. /\ sse'[d] = r /\ appended' = appended
          /\ d \in streamSubs[r.stream] => d \in streamSubs'[r.stream]
      BY <1>0, <1>3, <2>1 DEF Subscribe
    <3> QED
      BY <1>1, <3>1
  <2>2. CASE c = d
    <3>1. /\ sse'[d] = [pc |-> "history", stream |-> st,
                        history |-> streamEvents[st], ch |-> <<>>, got |-> <<>>,
                        dropped |-> FALSE, since |-> appended[st]]
          /\ d \in streamSubs'[st] /\ appended' = appended
      BY <1>0, <1>3, <2>2 DEF Subscribe
    <3>2. <<>> \o streamEvents[st] \o <<>> = streamEvents[st]
      <4>1. streamEvents[st] \in Seq(Event)
        BY DEF TypeOK
      <4> QED
        BY <4>1
    <3>3. FeedCopied(d)
      BY <3>1, <3>2 DEF FeedCopied, Feed
    <3> QED
      BY <3>1, <3>3
  <2> QED
    BY <2>1, <2>2
<1>4. ASSUME NEW c \in Clients, WriteHistory(c) PROVE Goal
  <2>1. CASE c # d
    <3>1. /\ sse'[d] = r /\ appended' = appended /\ streamSubs' = streamSubs
      BY <1>0, <1>4, <2>1 DEF WriteHistory
    <3> QED
      BY <1>1, <3>1
  <2>2. CASE c = d /\ r.history = <<>>
    <3>1. sse'[d] = [r EXCEPT !.pc = "live"]
      BY <1>0, <1>4, <2>2 DEF WriteHistory
    <3>2. r.pc = "history" /\ appended' = appended /\ streamSubs' = streamSubs
      BY <1>4, <2>2 DEF WriteHistory
    <3> HIDE DEF r
    <3>3. /\ sse'[d].pc = "live" /\ sse'[d].stream = r.stream
          /\ sse'[d].history = r.history /\ sse'[d].got = r.got
          /\ sse'[d].ch = r.ch /\ sse'[d].dropped = r.dropped
          /\ sse'[d].since = r.since
      BY <1>0, <3>1 DEF Reader
    <3>4. FeedStays(d)
      BY <1>0, <3>2, <3>3 DEF FeedStays, Feed, Subscribed, r
    <3> QED
      BY <1>00, <2>2, <3>2, <3>3, <3>4 DEF Subscribed, r
  <2>3. CASE c = d /\ r.history # <<>>
    <3>1. sse'[d] = [r EXCEPT !.history = Tail(@), !.got = Append(@, Head(r.history))]
      BY <1>0, <1>4, <2>3 DEF WriteHistory
    <3>2. r.pc = "history" /\ appended' = appended /\ streamSubs' = streamSubs
      BY <1>4, <2>3 DEF WriteHistory
    <3> HIDE DEF r
    <3>3. /\ sse'[d].pc = "history" /\ sse'[d].stream = r.stream
          /\ sse'[d].history = Tail(r.history)
          /\ sse'[d].got = Append(r.got, Head(r.history))
          /\ sse'[d].ch = r.ch /\ sse'[d].dropped = r.dropped
          /\ sse'[d].since = r.since
      BY <1>0, <3>1, <3>2 DEF Reader
    <3>4. Feed(d)' = Feed(d)
      <4>1. r.history \in Seq(Event) /\ r.got \in Seq(Event) /\ r.ch \in Seq(Event)
        BY FeedType DEF r
      <4>2. Append(r.got, Head(r.history)) \o Tail(r.history) \o r.ch
              = r.got \o r.history \o r.ch
        BY <2>3, <4>1, FeedTail
      <4> QED
        BY <3>3, <4>2 DEF Feed, r
    <3>5. FeedStays(d)
      BY <1>0, <3>2, <3>3, <3>4 DEF FeedStays, Subscribed, r
    <3> QED
      BY <1>00, <3>2, <3>3, <3>5 DEF Subscribed, r
  <2> QED
    BY <2>1, <2>2, <2>3
<1>5. ASSUME NEW c \in Clients, WriteLive(c) PROVE Goal
  <2>1. CASE c # d
    <3>1. /\ sse'[d] = r /\ appended' = appended /\ streamSubs' = streamSubs
      BY <1>0, <1>5, <2>1 DEF WriteLive
    <3> QED
      BY <1>1, <3>1
  <2>2. CASE c = d
    <3>1. sse'[d] = [r EXCEPT !.ch = Tail(@), !.got = Append(@, Head(r.ch))]
      BY <1>0, <1>5, <2>2 DEF WriteLive
    <3>2. /\ r.pc = "live" /\ r.ch # <<>> /\ r.history = <<>>
          /\ appended' = appended /\ streamSubs' = streamSubs
      BY <1>00, <1>5, <2>2 DEF WriteLive
    <3> HIDE DEF r
    <3>3. /\ sse'[d].pc = "live" /\ sse'[d].stream = r.stream
          /\ sse'[d].history = <<>>
          /\ sse'[d].got = Append(r.got, Head(r.ch))
          /\ sse'[d].ch = Tail(r.ch) /\ sse'[d].dropped = r.dropped
          /\ sse'[d].since = r.since
      BY <1>0, <3>1, <3>2 DEF Reader
    <3>4. Feed(d)' = Feed(d)
      <4>1. r.got \in Seq(Event) /\ r.ch \in Seq(Event) /\ <<>> \in Seq(Event)
        BY FeedType DEF r
      <4>2. Append(r.got, Head(r.ch)) \o Tail(r.ch) \o <<>> = r.got \o r.ch \o <<>>
        BY <3>2, <4>1, FeedTail
      <4>3. /\ Append(r.got, Head(r.ch)) \in Seq(Event)
            /\ Tail(r.ch) \in Seq(Event)
        BY <3>2, <4>1
      <4>4. /\ Append(r.got, Head(r.ch)) \o <<>> = Append(r.got, Head(r.ch))
            /\ r.got \o <<>> = r.got
            /\ (r.got \o r.ch) \o <<>> = r.got \o r.ch
            /\ (Append(r.got, Head(r.ch)) \o Tail(r.ch)) \o <<>>
                 = Append(r.got, Head(r.ch)) \o Tail(r.ch)
        BY <4>1, <4>3, ConcatEmptySeq, ConcatProperties
      <4> QED
        BY <3>2, <3>3, <4>2, <4>4 DEF Feed, r
    <3>5. FeedStays(d)
      BY <1>0, <3>2, <3>3, <3>4 DEF FeedStays, Subscribed, r
    <3> QED
      BY <1>00, <3>2, <3>3, <3>5 DEF Subscribed, r
  <2> QED
    BY <2>1, <2>2
<1>6. ASSUME NEW c \in Clients, Unsubscribe(c) PROVE Goal
  <2>1. CASE c # d
    <3>1. /\ sse'[d] = r /\ appended' = appended
          /\ d \in streamSubs[r.stream] => d \in streamSubs'[r.stream]
      BY <1>0, <1>6, <2>1 DEF Unsubscribe
    <3> QED
      BY <1>1, <3>1
  <2>2. CASE c = d
    <3>1. /\ sse'[d] = [r EXCEPT !.pc = "unsubscribed", !.dropped = FALSE, !.since = 0]
          /\ r.pc = "live" /\ appended' = appended
      BY <1>0, <1>6, <2>2 DEF Unsubscribe
    <3> HIDE DEF r
    <3>2. /\ sse'[d].pc = "unsubscribed" /\ sse'[d].stream = r.stream
          /\ sse'[d].history = r.history /\ sse'[d].got = r.got
          /\ sse'[d].ch = r.ch
      BY <1>0, <3>1 DEF Reader
    <3>3. appended' = appended /\ r.pc = "live"
      BY <3>1
    <3>4. FeedStays(d)
      BY <1>0, <3>2, <3>3 DEF FeedStays, Feed, Subscribed, r
    <3> QED
      BY <1>00, <3>2, <3>3, <3>4 DEF Subscribed, r
  <2> QED
    BY <2>1, <2>2
<1>7. ASSUME NEW c \in Clients, CloseChannel(c) PROVE Goal
  <2>1. CASE c # d
    <3>1. /\ sse'[d] = r /\ appended' = appended /\ streamSubs' = streamSubs
      BY <1>0, <1>7, <2>1 DEF CloseChannel
    <3> QED
      BY <1>1, <3>1
  <2>2. CASE c = d
    <3>1. /\ sse'[d] = [r EXCEPT !.pc = "closed", !.ch = <<>>, !.got = <<>>]
          /\ r.pc = "unsubscribed"
      BY <1>0, <1>7, <2>2 DEF CloseChannel
    <3>2. r.history = <<>>
      BY <1>00, <3>1
    <3> HIDE DEF r
    <3>3. /\ sse'[d].pc = "closed" /\ sse'[d].history = <<>>
          /\ sse'[d].got = <<>> /\ sse'[d].ch = <<>>
      BY <1>0, <3>1, <3>2 DEF Reader
    <3>4. <<>> \o <<>> \o <<>> = <<>>
      OBVIOUS
    <3>5. FeedEnds(d)
      BY <3>3, <3>4 DEF FeedEnds, Feed, Subscribed
    <3> QED
      BY <3>3, <3>5 DEF Subscribed
  <2> QED
    BY <2>1, <2>2
<1>8. ASSUME UNCHANGED <<sse, appended, streamSubs>> PROVE Goal
  BY <1>1, <1>8
<1> HIDE DEF Goal
<1>9. Goal
  BY <1>2, <1>3, <1>4, <1>5, <1>6, <1>7, <1>8
     DEF Next, vars, RecordRun, cleanupLoop, Tick
<1> QED
  BY <1>9 DEF Goal

LEMMA ReaderPhasesStep ==
  TypeOK /\ NoSendOnClosedChannel /\ ReaderPhases /\ [Next]_vars => ReaderPhases'
BY ReaderStep DEF ReaderPhases

\* The end of a numbered log is numbered.
LEMMA NumberedEnd ==
  ASSUME NEW log \in Seq(Event), NEW last \in Nat, Numbered(log, last),
         NEW k \in Nat \ {0}, Len(log) > k
  PROVE  Numbered(KeepLast(log, k), last)
<1>1. Len(log) \in Nat
  OBVIOUS
<1> DEFINE m == Len(log) - k + 1
           kept == SubSeq(log, m, Len(log))
<1>2. KeepLast(log, k) = kept
  BY <1>1 DEF KeepLast
<1>3. Len(kept) = k /\ \A i \in 1..k : kept[i] = log[m + i - 1]
  BY <1>1
<1>4. \A i \in 1..k : m + i - 1 \in 1..Len(log)
  BY <1>1
<1>5. \A i \in 1..Len(kept) : kept[i].n = last - Len(kept) + i
  <2> HIDE DEF kept
  <2> SUFFICES ASSUME NEW i \in 1..k
               PROVE  kept[i].n = last - k + i
    BY <1>3
  <2>1. kept[i] = log[m + i - 1]
    BY <1>3
  <2>2. log[m + i - 1].n = last - Len(log) + (m + i - 1)
    BY <1>4 DEF Numbered
  <2> QED
    BY <1>1, <2>1, <2>2
<1> QED
  BY <1>2, <1>5 DEF Numbered

\* A numbered log with the next entry added is numbered.
LEMMA NumberedAppend ==
  ASSUME NEW log \in Seq(Event), NEW last \in Nat, Numbered(log, last),
         NEW e \in Event, e.n = last + 1
  PROVE  Numbered(Append(log, e), last + 1)
<1>1. Len(log) \in Nat /\ Len(Append(log, e)) = Len(log) + 1
  OBVIOUS
<1> SUFFICES ASSUME NEW i \in 1..(Len(log) + 1)
             PROVE  Append(log, e)[i].n = last - Len(log) + i
  BY <1>1 DEF Numbered
<1>2. CASE i = Len(log) + 1
  <2>1. Append(log, e)[i] = e
    BY <1>2
  <2> QED
    BY <1>1, <1>2, <2>1
<1>3. CASE i # Len(log) + 1
  <2>1. i \in 1..Len(log) /\ Append(log, e)[i] = log[i]
    BY <1>1, <1>3
  <2> QED
    BY <2>1 DEF Numbered
<1> QED
  BY <1>2, <1>3

LEMMA LogNumberedStep == TypeOK /\ LogNumbered /\ [Next]_vars => LogNumbered'
<1> SUFFICES ASSUME TypeOK, [Next]_vars, NEW s \in Streams,
                    Numbered(streamEvents[s], appended[s])
             PROVE  Numbered(streamEvents'[s], appended'[s])
  BY DEF LogNumbered, Numbered
<1>1. streamEvents[s] \in Seq(Event) /\ appended[s] \in Nat
  BY DEF TypeOK
<1>2. ASSUME NEW st \in Streams, NEW kind \in Kinds, appendStreamEvent(st, kind)
      PROVE  Numbered(streamEvents'[s], appended'[s])
  <2>1. CASE st # s
    BY <1>2, <2>1 DEF appendStreamEvent, TypeOK
  <2>2. CASE st = s
    <3> DEFINE e == [n |-> appended[s] + 1, kind |-> kind]
               long == Append(streamEvents[s], e)
    <3>1. /\ streamEvents'[s] = KeepLast(long, MaxLog)
          /\ appended'[s] = appended[s] + 1
      BY <1>2, <2>2 DEF appendStreamEvent, TypeOK
    <3>2. e \in Event /\ e.n = appended[s] + 1
      BY <1>1 DEF Event
    <3> HIDE DEF e
    <3>3. long \in Seq(Event) /\ Numbered(long, appended[s] + 1)
      BY <1>1, <3>2, NumberedAppend
    <3> HIDE DEF long
    <3>4. CASE Len(long) > MaxLog
      BY <1>1, <3>1, <3>3, <3>4, NumberedEnd, StreamLogAssumption
    <3>5. CASE ~(Len(long) > MaxLog)
      <4>1. KeepLast(long, MaxLog) = long
        BY <3>3, <3>5, StreamLogAssumption DEF KeepLast
      <4> QED
        BY <3>1, <3>3, <4>1
    <3> QED
      BY <3>4, <3>5
  <2> QED
    BY <2>1, <2>2
<1>3. CASE cleanupLoop
  <2>1. \/ streamEvents'[s] = <<>>
        \/ streamEvents'[s] = streamEvents[s]
    BY <1>3 DEF cleanupLoop
  <2>2. appended' = appended
    BY <1>3 DEF cleanupLoop
  <2> QED
    BY <2>1, <2>2 DEF Numbered
<1>4. ASSUME UNCHANGED <<streamEvents, appended>>
      PROVE  Numbered(streamEvents'[s], appended'[s])
  BY <1>4
<1> QED
  BY <1>2, <1>3, <1>4
     DEF Next, vars, RecordRun, Subscribe, WriteHistory, WriteLive, Unsubscribe,
         CloseChannel, Tick

-----------------------------------------------------------------------------
(* A stream marked done replays its COMPLETED event *)

\* The log of one stream, its done mark, the number of its newest COMPLETED
\* and the number of its newest event.
Good(log, done, last, newest) ==
  /\ Has(log, "completed") => done # None
  /\ done # None =>
       \/ \E i \in 1..Len(log) : log[i] = [n |-> last, kind |-> "completed"]
       \/ newest - last >= MaxLog

\* Adding a COMPLETED: it is the newest event, and the cut keeps the newest.
LEMMA ReplayCompleted ==
  ASSUME NEW log \in Seq(Event), NEW newest \in Nat,
         NEW e \in Event, e = [n |-> newest + 1, kind |-> "completed"]
  PROVE  Good(KeepLast(Append(log, e), MaxLog), 0, newest + 1, newest + 1)
<1> DEFINE long == Append(log, e)
           kept == KeepLast(long, MaxLog)
<1>1. long \in Seq(Event) /\ long # <<>> /\ long[Len(long)] = e
  OBVIOUS
<1> HIDE DEF long
<1>2. Len(kept) > 0 /\ kept[Len(kept)] = e
  BY <1>1, KeepLastKeeps, StreamLogAssumption
<1>3. kept \in Seq(Event)
  BY <1>1, KeepLastType, StreamLogAssumption
<1> HIDE DEF kept
<1>4. Len(kept) \in 1..Len(kept)
  BY <1>2, <1>3
<1>5. Good(kept, 0, newest + 1, newest + 1)
  BY <1>2, <1>4, StreamLogAssumption DEF Good
<1> QED
  BY <1>5 DEF kept, long

\* Adding another event: a COMPLETED that the cut removes was the oldest event
\* of a full log, so MaxLog events have followed it.
LEMMA ReplayOther ==
  ASSUME NEW log \in Seq(Event), NEW newest \in Nat, NEW last \in Nat, NEW done,
         Good(log, done, last, newest), Numbered(log, newest),
         Len(log) <= MaxLog,
         NEW e \in Event, e.kind # "completed"
  PROVE  Good(KeepLast(Append(log, e), MaxLog), done, last, newest + 1)
<1> DEFINE long == Append(log, e)
           kept == KeepLast(long, MaxLog)
<1> USE StreamLogAssumption
<1>1. /\ long \in Seq(Event) /\ Len(long) = Len(log) + 1 /\ Len(log) \in Nat
      /\ long[Len(long)] = e
      /\ \A i \in 1..Len(log) : long[i] = log[i]
  OBVIOUS
<1>2. CASE Len(log) < MaxLog
  <2>1. kept = long
    BY <1>1, <1>2 DEF KeepLast
  <2> HIDE DEF long, kept
  <2>2. Has(long, "completed") => Has(log, "completed")
    <3> SUFFICES ASSUME NEW i \in 1..Len(long), long[i].kind = "completed"
                 PROVE  Has(log, "completed")
      BY DEF Has
    <3>1. i \in 1..Len(log)
      BY <1>1
    <3> QED
      BY <1>1, <3>1 DEF Has
  <2>3. ASSUME NEW i \in 1..Len(log), log[i] = [n |-> last, kind |-> "completed"]
        PROVE  i \in 1..Len(long) /\ long[i] = [n |-> last, kind |-> "completed"]
    BY <1>1, <2>3
  <2>4. Good(long, done, last, newest + 1)
    BY <2>2, <2>3 DEF Good
  <2> QED
    BY <2>1, <2>4 DEF long, kept
<1>3. CASE Len(log) = MaxLog
  <2>1. kept = SubSeq(long, 2, MaxLog + 1)
    BY <1>1, <1>3 DEF KeepLast
  <2>2. Len(kept) = MaxLog /\ \A i \in 1..MaxLog : kept[i] = long[i + 1]
    <3> HIDE DEF long
    <3>1. MaxLog \in Nat \ {0} /\ Len(long) = MaxLog + 1
      BY <1>1, <1>3
    <3> QED
      BY <1>1, <2>1, <3>1
  <2> HIDE DEF long, kept
  <2>3. Has(kept, "completed") => Has(log, "completed")
    <3> SUFFICES ASSUME NEW i \in 1..MaxLog, kept[i].kind = "completed"
                 PROVE  Has(log, "completed")
      BY <2>2 DEF Has
    <3>1. kept[i] = long[i + 1] /\ i + 1 \in 1..Len(log)
      BY <1>1, <1>3, <2>2
    <3> QED
      BY <1>1, <3>1 DEF Has
  <2>4. ASSUME NEW i \in 1..Len(log), log[i] = [n |-> last, kind |-> "completed"]
        PROVE  \/ \E k \in 1..Len(kept) : kept[k] = [n |-> last, kind |-> "completed"]
               \/ newest + 1 - last >= MaxLog
    <3>1. CASE i = 1
      <4>1. log[1].n = newest - Len(log) + 1
        BY <2>4, <3>1 DEF Numbered
      <4>2. last = newest - MaxLog + 1
        BY <1>3, <2>4, <3>1, <4>1
      <4> QED
        BY <4>2
    <3>2. CASE i # 1
      <4>1. i - 1 \in 1..MaxLog
        BY <1>1, <1>3, <3>2
      <4>2. kept[i - 1] = long[i]
        BY <2>2, <4>1
      <4> QED
        BY <1>1, <2>2, <2>4, <4>1, <4>2
    <3> QED
      BY <3>1, <3>2
  <2>5. Good(kept, done, last, newest + 1)
    BY <2>3, <2>4 DEF Good
  <2> QED
    BY <2>5 DEF long, kept
<1> QED
  BY <1>1, <1>2, <1>3

LEMMA ReplayStep ==
  TypeOK /\ LogNumbered /\ DoneReplaysCompletion /\ [Next]_vars
    => DoneReplaysCompletion'
<1> SUFFICES ASSUME TypeOK, [Next]_vars, NEW s \in Streams, LogNumbered,
                    Good(streamEvents[s], streamDoneAt[s], completion[s], appended[s])
             PROVE  Good(streamEvents'[s], streamDoneAt'[s], completion'[s],
                         appended'[s])
  BY DEF DoneReplaysCompletion, Replays, Good
<1>1. 0 # None /\ MaxLog \in Nat \ {0}
  BY StreamLogAssumption
<1>2. ASSUME NEW st \in Streams, NEW kind \in Kinds, appendStreamEvent(st, kind)
      PROVE  Good(streamEvents'[s], streamDoneAt'[s], completion'[s], appended'[s])
  <2>1. CASE st # s
    BY <1>2, <2>1 DEF appendStreamEvent, TypeOK
  <2>2. CASE st = s
    <3> DEFINE e == [n |-> appended[s] + 1, kind |-> kind]
               log == streamEvents[s]
    <3>1. /\ log \in Seq(Event) /\ Len(log) <= MaxLog
          /\ appended[s] \in Nat /\ completion[s] \in Nat
      BY DEF TypeOK
    <3>2. e \in Event /\ e.kind = kind /\ e.n = appended[s] + 1
      BY <3>1 DEF Event
    <3>3. /\ streamEvents'[s] = KeepLast(Append(log, e), MaxLog)
          /\ appended'[s] = appended[s] + 1
      BY <1>2, <2>2 DEF appendStreamEvent, TypeOK
    <3>4. CASE kind = "completed"
      <4>1. streamDoneAt'[s] = 0 /\ completion'[s] = appended[s] + 1
        BY <1>2, <2>2, <3>2, <3>4 DEF appendStreamEvent, TypeOK
      <4>2. e = [n |-> appended[s] + 1, kind |-> "completed"]
        BY <3>4
      <4> HIDE DEF e, log
      <4> QED
        BY <3>1, <3>2, <3>3, <4>1, <4>2, ReplayCompleted
    <3>5. CASE kind # "completed"
      <4>1. streamDoneAt'[s] = streamDoneAt[s] /\ completion'[s] = completion[s]
        BY <1>2, <2>2, <3>5 DEF appendStreamEvent, TypeOK
      <4>2. Numbered(log, appended[s])
        BY DEF LogNumbered
      <4>3. Good(log, streamDoneAt[s], completion[s], appended[s])
        OBVIOUS
      <4> HIDE DEF e, log
      <4> QED
        BY <3>1, <3>2, <3>3, <3>5, <4>1, <4>2, <4>3, ReplayOther
    <3> QED
      BY <3>4, <3>5
  <2> QED
    BY <2>1, <2>2
<1>3. CASE cleanupLoop
  <2>1. CASE s \in Collected
    <3>1. streamEvents'[s] = <<>> /\ streamDoneAt'[s] = None
      BY <1>3, <2>1 DEF cleanupLoop
    <3> QED
      BY <1>1, <3>1 DEF Good, Has
  <2>2. CASE s \notin Collected
    BY <1>3, <2>2 DEF cleanupLoop
  <2> QED
    BY <2>1, <2>2
<1>4. CASE Tick
  <2>1. Older(streamDoneAt[s]) # None <=> streamDoneAt[s] # None
    BY StreamLogAssumption DEF Older, Age
  <2>2. /\ streamEvents'[s] = streamEvents[s] /\ appended'[s] = appended[s]
        /\ completion'[s] = completion[s]
        /\ streamDoneAt'[s] = Older(streamDoneAt[s])
    BY <1>4 DEF Tick
  <2> QED
    BY <2>1, <2>2 DEF Good
<1>5. ASSUME UNCHANGED <<streamEvents, streamDoneAt, completion, appended>>
      PROVE  Good(streamEvents'[s], streamDoneAt'[s], completion'[s], appended'[s])
  BY <1>5
<1> QED
  BY <1>2, <1>3, <1>4, <1>5
     DEF Next, vars, RecordRun, Subscribe, WriteHistory, WriteLive, Unsubscribe,
         CloseChannel

(***************************************************************************)
(* The done mark and the log never disagree: a late reader of a finished   *)
(* run is shown its newest COMPLETED event, unless as many events as the   *)
(* log holds have come after it.  The cut removes the oldest event of a    *)
(* full log and the events are numbered without a gap, so a COMPLETED it   *)
(* removes is MaxLog events old.                                           *)
(***************************************************************************)
THEOREM CompletionReplayed == Spec => []DoneReplaysCompletion
<1>1. Init => DoneReplaysCompletion /\ LogNumbered
  BY StreamLogAssumption
     DEF Init, DoneReplaysCompletion, Has, LogNumbered, Numbered
<1> QED
  BY <1>1, TypeCorrect, LogNumberedStep, ReplayStep, PTL DEF Spec

-----------------------------------------------------------------------------
(* What a reader has and will write follows the log *)

\* A feed never runs ahead of its stream.
FeedBounded ==
  \A c \in Clients : \A i \in 1..Len(Feed(c)) :
    Feed(c)[i].n <= appended[sse[c].stream]

LEMMA LogIsGapFree ==
  ASSUME TypeOK, LogNumbered, NEW st \in Streams
  PROVE  LET log == streamEvents[st] IN
         /\ log \in Seq(Event)
         /\ Increasing(log) /\ Contiguous(log)
         /\ \A i \in 1..Len(log) : log[i].n <= appended[st]
         /\ log # <<>> => log[Len(log)].n = appended[st]
<1> DEFINE log == streamEvents[st]
<1>1. log \in Seq(Event) /\ Len(log) \in Nat /\ appended[st] \in Nat
  BY DEF TypeOK
<1>2. \A i \in 1..Len(log) : log[i].n = appended[st] - Len(log) + i
  BY DEF LogNumbered, Numbered
<1>3. log # <<>> => Len(log) \in 1..Len(log) /\ 1 \in 1..Len(log)
  BY <1>1
<1> HIDE DEF log
<1>4. Increasing(log) /\ Contiguous(log)
  BY <1>1, <1>2, <1>3 DEF Increasing, Contiguous
<1>5. /\ \A i \in 1..Len(log) : log[i].n <= appended[st]
      /\ log # <<>> => log[Len(log)].n = appended[st]
  BY <1>1, <1>2, <1>3
<1> QED
  BY <1>1, <1>4, <1>5 DEF log

LEMMA FeedTypes ==
  ASSUME TypeOK, TypeOK', NEW c \in Clients
  PROVE  /\ Feed(c) \in Seq(Event) /\ Feed(c)' \in Seq(Event)
         /\ sse[c].stream \in Streams /\ sse'[c].stream \in Streams
         /\ \A s \in Streams : appended[s] \in Nat /\ appended'[s] \in Nat
<1>1. sse[c] \in Reader /\ sse'[c] \in Reader
  BY DEF TypeOK
<1>2. /\ sse[c].stream \in Streams /\ sse'[c].stream \in Streams
      /\ \A s \in Streams : appended[s] \in Nat /\ appended'[s] \in Nat
  BY <1>1 DEF Reader, TypeOK
<1>3. /\ sse'[c].history \in Seq(Event) /\ sse'[c].ch \in Seq(Event)
      /\ sse'[c].got \in Seq(Event)
  BY <1>1 DEF Reader
<1>4. Feed(c)' \in Seq(Event)
  BY <1>3 DEF Feed
<1> QED
  BY <1>2, <1>4, FeedType

\* Events are numbered as they arrive, so a new one is ahead of any feed.
LEMMA FeedStep ==
  ASSUME TypeOK, TypeOK', NoSendOnClosedChannel, ReaderPhases, LogNumbered,
         FeedBounded, [Next]_vars, NEW c \in Clients
  PROVE  /\ Increasing(Feed(c)) => Increasing(Feed(c))'
         /\ \A i \in 1..Len(Feed(c)') : Feed(c)'[i].n <= appended'[sse'[c].stream]
<1> DEFINE f == Feed(c)
           g == Feed(c)'
           st == sse[c].stream
<1>0. /\ f \in Seq(Event) /\ g \in Seq(Event)
      /\ st \in Streams /\ sse'[c].stream \in Streams
      /\ \A s \in Streams : appended[s] \in Nat /\ appended'[s] \in Nat
  BY FeedTypes
<1>00. \A i \in 1..Len(f) : f[i].n <= appended[st] /\ f[i].n \in Nat
  <2>1. \A i \in 1..Len(f) : f[i].n <= appended[st]
    BY DEF FeedBounded
  <2> HIDE DEF f, st
  <2>2. \A i \in 1..Len(f) : f[i] \in Event
    BY <1>0
  <2> QED
    BY <2>1, <2>2 DEF Event
<1>1. CASE FeedStays(c)
  <2>1. /\ g = f /\ sse'[c].stream = st /\ appended'[st] >= appended[st]
    BY <1>1 DEF FeedStays
  <2> HIDE DEF f, g, st
  <2>2. \A i \in 1..Len(g) : g[i].n <= appended'[sse'[c].stream]
    BY <1>0, <1>00, <2>1
  <2>3. Increasing(f) => Increasing(g)
    BY <2>1
  <2> QED
    BY <2>2, <2>3 DEF f, g, Increasing
<1>2. CASE FeedGrows(c)
  <2>1. PICK e \in Event :
          /\ e.n = appended[st] + 1 /\ g = Append(f, e)
          /\ appended'[st] = e.n /\ sse'[c].stream = st
    BY <1>2 DEF FeedGrows
  <2> HIDE DEF f, g, st
  <2>2. /\ Len(g) = Len(f) + 1 /\ g[Len(g)] = e /\ Len(f) \in Nat
        /\ \A i \in 1..Len(f) : g[i] = f[i]
    BY <1>0, <2>1
  <2>3. \A i \in 1..Len(g) : i \in 1..Len(f) \/ i = Len(g)
    BY <2>2
  <2>4. \A i \in 1..Len(g) : g[i].n <= appended'[sse'[c].stream]
    BY <1>0, <1>00, <2>1, <2>2, <2>3
  <2>5. ASSUME Increasing(f) PROVE Increasing(g)
    <3> SUFFICES ASSUME NEW i \in 1..Len(g), NEW j \in 1..Len(g), i < j
                 PROVE  g[i].n < g[j].n
      BY DEF Increasing
    <3>1. i \in 1..Len(f)
      BY <2>2
    <3>2. CASE j \in 1..Len(f)
      BY <2>2, <2>5, <3>1, <3>2 DEF Increasing
    <3>3. CASE j = Len(g)
      BY <1>0, <1>00, <2>1, <2>2, <3>1, <3>3
    <3> QED
      BY <2>3, <3>2, <3>3
  <2> QED
    BY <2>4, <2>5 DEF f, g, Increasing
<1>3. CASE FeedCopied(c)
  <2>1. g = streamEvents[sse'[c].stream] /\ appended' = appended
    BY <1>3 DEF FeedCopied
  <2>2. /\ Increasing(streamEvents[sse'[c].stream])
        /\ \A i \in 1..Len(streamEvents[sse'[c].stream]) :
             streamEvents[sse'[c].stream][i].n <= appended[sse'[c].stream]
    BY <1>0, LogIsGapFree
  <2> HIDE DEF f, g
  <2>3. /\ Increasing(g)
        /\ \A i \in 1..Len(g) : g[i].n <= appended'[sse'[c].stream]
    BY <2>1, <2>2
  <2> QED
    BY <2>3 DEF g, Increasing
<1>4. CASE FeedEnds(c)
  BY <1>4 DEF FeedEnds, Increasing
<1> QED
  BY <1>1, <1>2, <1>3, <1>4, ReaderStep

LEMMA GapFreeStep ==
  ASSUME TypeOK, TypeOK', NoSendOnClosedChannel, ReaderPhases, LogNumbered,
         GapFree, [Next]_vars
  PROVE  GapFree'
<1> SUFFICES ASSUME NEW c \in Clients, Subscribed(c)', ~sse'[c].dropped
             PROVE  /\ Contiguous(Feed(c))'
                    /\ IF Feed(c)' = <<>>
                         THEN appended'[sse'[c].stream] = sse'[c].since
                         ELSE Feed(c)'[Len(Feed(c)')].n = appended'[sse'[c].stream]
  BY DEF GapFree
<1> DEFINE f == Feed(c)
           g == Feed(c)'
           st == sse[c].stream
<1>0. /\ f \in Seq(Event) /\ g \in Seq(Event)
      /\ st \in Streams /\ sse'[c].stream \in Streams
      /\ \A s \in Streams : appended[s] \in Nat /\ appended'[s] \in Nat
  BY FeedTypes
<1>1. CASE FeedStays(c)
  <2>1. /\ g = f /\ sse'[c].stream = st /\ appended'[st] = appended[st]
        /\ sse'[c].since = sse[c].since /\ Subscribed(c) /\ ~sse[c].dropped
    BY <1>1 DEF FeedStays
  <2>2. /\ Contiguous(f)
        /\ IF f = <<>> THEN appended[st] = sse[c].since
                       ELSE f[Len(f)].n = appended[st]
    BY <2>1 DEF GapFree
  <2> HIDE DEF f, g, st
  <2>3. /\ Contiguous(g)
        /\ IF g = <<>> THEN appended'[sse'[c].stream] = sse'[c].since
                       ELSE g[Len(g)].n = appended'[sse'[c].stream]
    BY <2>1, <2>2
  <2> QED
    BY <2>3 DEF g, Contiguous
<1>2. CASE FeedGrows(c)
  <2>1. PICK e \in Event :
          /\ e.n = appended[st] + 1 /\ g = Append(f, e)
          /\ appended'[st] = e.n /\ sse'[c].stream = st
          /\ Subscribed(c) /\ sse'[c].dropped = sse[c].dropped
    BY <1>2 DEF FeedGrows
  <2>2. /\ Contiguous(f)
        /\ f # <<>> => f[Len(f)].n = appended[st]
    BY <2>1 DEF GapFree
  <2> HIDE DEF f, g, st
  <2>3. /\ Len(g) = Len(f) + 1 /\ g[Len(g)] = e /\ Len(f) \in Nat
        /\ \A i \in 1..Len(f) : g[i] = f[i]
    BY <1>0, <2>1
  <2>4. Contiguous(g)
    <3> SUFFICES ASSUME NEW i \in 1..Len(g) PROVE g[i].n = g[1].n + i - 1
      BY DEF Contiguous
    <3>1. CASE f = <<>>
      <4>1. i = 1 /\ g[1] = e /\ e.n \in Nat
        BY <2>3, <3>1 DEF Event
      <4> QED
        BY <4>1
    <3>2. CASE f # <<>>
      <4>1. /\ 1 \in 1..Len(f) /\ Len(f) \in 1..Len(f) /\ f[1].n \in Nat
        <5>1. 1 \in 1..Len(f) /\ Len(f) \in 1..Len(f)
          BY <1>0, <3>2
        <5>2. f[1] \in Event
          BY <1>0, <5>1
        <5> QED
          BY <5>1, <5>2 DEF Event
      <4>2. f[Len(f)].n = f[1].n + Len(f) - 1 /\ f[Len(f)].n = appended[st]
        BY <2>2, <3>2, <4>1 DEF Contiguous
      <4>3. CASE i \in 1..Len(f)
        BY <2>2, <2>3, <4>1, <4>3 DEF Contiguous
      <4>4. CASE i = Len(g)
        BY <1>0, <2>1, <2>3, <4>1, <4>2, <4>4
      <4> QED
        BY <2>3, <4>3, <4>4
    <3> QED
      BY <3>1, <3>2
  <2>5. g # <<>> /\ g[Len(g)].n = appended'[sse'[c].stream]
    BY <1>0, <2>1, <2>3
  <2> QED
    BY <2>4, <2>5 DEF g, Contiguous
<1>3. CASE FeedCopied(c)
  <2> DEFINE log == streamEvents[sse'[c].stream]
  <2>1. /\ g = log /\ appended' = appended
        /\ sse'[c].since = appended[sse'[c].stream]
    BY <1>3 DEF FeedCopied
  <2>2. /\ Contiguous(log)
        /\ log # <<>> => log[Len(log)].n = appended[sse'[c].stream]
    BY <1>0, LogIsGapFree
  <2> HIDE DEF log, g
  <2>3. /\ Contiguous(g)
        /\ IF g = <<>> THEN appended'[sse'[c].stream] = sse'[c].since
                       ELSE g[Len(g)].n = appended'[sse'[c].stream]
    BY <2>1, <2>2
  <2> QED
    BY <2>3 DEF g, Contiguous
<1>4. CASE FeedEnds(c)
  BY <1>4 DEF FeedEnds
<1> QED
  BY <1>1, <1>2, <1>3, <1>4, ReaderStep

LEMMA FeedInit ==
  Init => ReaderPhases /\ LogNumbered /\ FeedBounded /\ InOrder /\ GapFree
<1> SUFFICES ASSUME Init
             PROVE  ReaderPhases /\ LogNumbered /\ FeedBounded /\ InOrder /\ GapFree
  OBVIOUS
<1>1. ASSUME NEW c \in Clients
      PROVE  /\ sse[c].pc = "idle" /\ sse[c].history = <<>>
             /\ sse[c].ch = <<>> /\ sse[c].got = <<>>
  BY DEF Init
<1>2. ASSUME NEW c \in Clients PROVE Feed(c) = <<>> /\ ~Subscribed(c)
  BY <1>1 DEF Feed, Subscribed
<1>3. ReaderPhases
  BY <1>1, <1>2 DEF ReaderPhases
<1>4. LogNumbered
  BY DEF LogNumbered, Numbered, Init
<1>5. FeedBounded /\ InOrder /\ GapFree
  BY <1>2 DEF FeedBounded, InOrder, GapFree, Increasing
<1> QED
  BY <1>3, <1>4, <1>5

LEMMA FeedsFollow ==
  Spec => [](TypeOK /\ NoSendOnClosedChannel /\ ReaderPhases /\ LogNumbered)
BY FeedInit, TypeCorrect, ChannelsOpen, ReaderPhasesStep, LogNumberedStep, PTL
   DEF Spec

(***************************************************************************)
(* No reader of a stream, however slow it is and whatever its channel has  *)
(* dropped, is ever written an event twice or before an earlier one.       *)
(***************************************************************************)
THEOREM ReadersInOrder == Spec => []InOrder
<1>1. ASSUME TypeOK, TypeOK', NoSendOnClosedChannel, ReaderPhases,
             LogNumbered, FeedBounded, InOrder, [Next]_vars
      PROVE  FeedBounded' /\ InOrder'
  <2>1. ASSUME NEW c \in Clients
        PROVE  /\ Increasing(Feed(c))'
               /\ \A i \in 1..Len(Feed(c)') :
                    Feed(c)'[i].n <= appended'[sse'[c].stream]
    BY <1>1, FeedStep DEF InOrder
  <2> QED
    BY <2>1 DEF FeedBounded, InOrder
<1> QED
  BY <1>1, FeedInit, FeedsFollow, PTL DEF Spec

(***************************************************************************)
(* A reader whose channel never overflowed is written every event from the *)
(* oldest one it was given to the newest one there is, for logs and        *)
(* channels of any length.                                                 *)
(***************************************************************************)
THEOREM ReadersGapFree == Spec => []GapFree
<1>1. ASSUME TypeOK, TypeOK', NoSendOnClosedChannel, ReaderPhases,
             LogNumbered, GapFree, [Next]_vars
      PROVE  GapFree'
  BY <1>1, GapFreeStep
<1> QED
  BY <1>1, FeedInit, FeedsFollow, PTL DEF Spec

-----------------------------------------------------------------------------
(* The refinement: where a reader stands in its stream *)

\* The two sides of a cut through a feed.
LEMMA ContiguousCut ==
  ASSUME NEW a \in Seq(Event), NEW b \in Seq(Event), NEW last \in Nat,
         Contiguous(a \o b), a \o b # <<>>,
         (a \o b)[Len(a \o b)].n = last
  PROVE  /\ a # <<>> => a[Len(a)].n = last - Len(b)
         /\ b # <<>> => b[1].n = last - Len(b) + 1
<1> DEFINE f == a \o b
<1>1. /\ f \in Seq(Event) /\ Len(f) = Len(a) + Len(b)
      /\ Len(a) \in Nat /\ Len(b) \in Nat
      /\ \A i \in 1..Len(a) : f[i] = a[i]
      /\ \A i \in 1..Len(b) : f[Len(a) + i] = b[i]
  BY ConcatProperties
<1> HIDE DEF f
<1>2. Len(f) > 0 /\ f[1].n \in Nat
  <2>1. Len(f) > 0
    BY <1>1 DEF f
  <2>2. f[1] \in Event
    BY <1>1, <2>1
  <2> QED
    BY <2>1, <2>2 DEF Event
<1>3. /\ \A i \in 1..Len(f) : f[i].n = f[1].n + i - 1
      /\ f[Len(f)].n = last
  BY DEF f, Contiguous
<1>4. f[1].n = last - Len(f) + 1
  <2>1. Len(f) \in 1..Len(f)
    BY <1>1, <1>2
  <2>2. last = f[1].n + Len(f) - 1
    BY <1>3, <2>1
  <2>3. Len(f) \in Nat
    BY <1>1
  <2>4. \A x, y \in Nat : last = x + y - 1 => x = last - y + 1
    OBVIOUS
  <2> QED
    BY <1>2, <2>2, <2>3, <2>4
<1>5. ASSUME a # <<>> PROVE a[Len(a)].n = last - Len(b)
  <2>1. Len(a) \in 1..Len(a) /\ Len(a) \in 1..Len(f)
    BY <1>1, <1>5
  <2>2. a[Len(a)].n = f[1].n + Len(a) - 1
    BY <1>1, <1>3, <2>1
  <2> QED
    BY <1>1, <1>4, <2>2
<1>6. ASSUME b # <<>> PROVE b[1].n = last - Len(b) + 1
  <2>1. 1 \in 1..Len(b) /\ Len(a) + 1 \in 1..Len(f)
    BY <1>1, <1>6
  <2>2. b[1].n = f[1].n + (Len(a) + 1) - 1
    BY <1>1, <1>3, <2>1
  <2> QED
    BY <1>1, <1>4, <2>2
<1> QED
  BY <1>5, <1>6

LEMMA IncreasingCut ==
  ASSUME NEW a \in Seq(Event), NEW b \in Seq(Event), Increasing(a \o b),
         a # <<>>, b # <<>>
  PROVE  a[Len(a)].n < b[1].n
<1> DEFINE f == a \o b
<1>1. /\ Len(f) = Len(a) + Len(b)
      /\ Len(a) \in 1..Len(a) /\ 1 \in 1..Len(b)
      /\ \A i \in 1..Len(a) : f[i] = a[i]
      /\ \A i \in 1..Len(b) : f[Len(a) + i] = b[i]
  BY ConcatProperties
<1>2. \A i, j \in 1..Len(f) : i < j => f[i].n < f[j].n
  BY DEF Increasing
<1> HIDE DEF f
<1>3. /\ Len(a) \in 1..Len(f) /\ Len(a) + 1 \in 1..Len(f) /\ Len(a) < Len(a) + 1
      /\ f[Len(a)] = a[Len(a)] /\ f[Len(a) + 1] = b[1]
  BY <1>1
<1> QED
  BY <1>2, <1>3

LEMMA FeedParts ==
  ASSUME TypeOK, NEW c \in Clients
  PROVE  /\ sse[c].got \in Seq(Event) /\ Unwritten(c) \in Seq(Event)
         /\ Feed(c) = sse[c].got \o Unwritten(c)
         /\ Len(Unwritten(c)) = Len(sse[c].history) + Len(sse[c].ch)
         /\ Len(sse[c].history) \in Nat /\ Len(sse[c].ch) \in Nat
         /\ sse[c].stream \in Streams
         /\ appended[sse[c].stream] \in Nat
<1>1. /\ sse[c].got \in Seq(Event) /\ sse[c].history \in Seq(Event)
      /\ sse[c].ch \in Seq(Event) /\ sse[c].stream \in Streams
      /\ appended[sse[c].stream] \in Nat
  BY DEF TypeOK, Reader
<1>2. Feed(c) = sse[c].got \o Unwritten(c)
  <2>1. \A x, y, z \in Seq(Event) : (x \o y) \o z = x \o (y \o z)
    BY ConcatAssociative
  <2> QED
    BY <1>1, <2>1 DEF Feed, Unwritten
<1>3. /\ Unwritten(c) \in Seq(Event)
      /\ Len(Unwritten(c)) = Len(sse[c].history) + Len(sse[c].ch)
  BY <1>1, ConcatProperties DEF Unwritten
<1> QED
  BY <1>1, <1>2, <1>3

\* A reader that has lost nothing is behind by what is still to be written.
LEMMA Behind ==
  ASSUME TypeOK, GapFree, NEW c \in Clients, Subscribed(c), ~sse[c].dropped
  PROVE  WrittenTo(c) = appended[sse[c].stream] - Len(Unwritten(c))
<1> DEFINE a == sse[c].got
           b == Unwritten(c)
           last == appended[sse[c].stream]
<1>1. /\ a \in Seq(Event) /\ b \in Seq(Event) /\ Feed(c) = a \o b /\ last \in Nat
  BY FeedParts
<1>2. /\ Contiguous(a \o b)
      /\ IF a \o b = <<>> THEN last = sse[c].since
                          ELSE (a \o b)[Len(a \o b)].n = last
  BY <1>1 DEF GapFree
<1>3. a \o b = <<>> <=> a = <<>> /\ b = <<>>
  BY <1>1, ConcatEqualIffEmpty
<1>4. WrittenTo(c) = CASE a # <<>> -> a[Len(a)].n
                       [] a = <<>> /\ b # <<>> -> b[1].n - 1
                       [] OTHER -> sse[c].since
  BY DEF WrittenTo
<1> DEFINE w == WrittenTo(c)
<1> HIDE DEF a, b, last, w
<1>5. ASSUME a # <<>> PROVE w = last - Len(b)
  BY <1>1, <1>2, <1>3, <1>4, <1>5, ContiguousCut DEF w
<1>6. ASSUME a = <<>>, b # <<>> PROVE w = last - Len(b)
  <2>0. /\ Len(b) \in Nat /\ Contiguous(a \o b) /\ a \o b # <<>>
        /\ (a \o b)[Len(a \o b)].n = last
    BY <1>1, <1>2, <1>3, <1>6
  <2>1. b[1].n = last - Len(b) + 1 /\ Len(b) \in Nat
    BY <1>1, <1>6, <2>0, ContiguousCut
  <2>2. w = b[1].n - 1
    BY <1>4, <1>6 DEF w
  <2> QED
    BY <1>1, <2>1, <2>2
<1>7. ASSUME a = <<>>, b = <<>> PROVE w = last - Len(b)
  <2>1. w = sse[c].since
    BY <1>4, <1>7 DEF w
  <2>2. last = sse[c].since /\ Len(b) = 0
    BY <1>2, <1>3, <1>7
  <2> QED
    BY <1>1, <2>1, <2>2
<1> QED
  BY <1>5, <1>6, <1>7 DEF a, b, last, w

\* The event to be written next, to any reader.
LEMMA NextEvent ==
  ASSUME TypeOK, GapFree, InOrder, FeedBounded,
         NEW c \in Clients, Subscribed(c), Unwritten(c) # <<>>
  PROVE  LET n == Unwritten(c)[1].n IN
         /\ n \in (WrittenTo(c) + 1)..appended[sse[c].stream]
         /\ ~sse[c].dropped => n = WrittenTo(c) + 1
<1> DEFINE a == sse[c].got
           b == Unwritten(c)
           last == appended[sse[c].stream]
           n == b[1].n
<1>1. /\ a \in Seq(Event) /\ b \in Seq(Event) /\ Feed(c) = a \o b /\ last \in Nat
      /\ Len(a) \in Nat /\ Len(b) \in Nat /\ Len(b) > 0
  <2>1. a \in Seq(Event) /\ b \in Seq(Event) /\ Feed(c) = a \o b /\ last \in Nat
    BY FeedParts
  <2>2. b # <<>>
    OBVIOUS
  <2> HIDE DEF a, b, last
  <2> QED
    BY <2>1, <2>2
<1>2. n \in Nat
  <2>1. b[1] \in Event
    BY <1>1
  <2> QED
    BY <2>1 DEF Event
<1>3. n <= last
  <2>1. \A i \in 1..Len(a \o b) : (a \o b)[i].n <= last
    BY <1>1 DEF FeedBounded
  <2> HIDE DEF a, b, last
  <2>2. /\ Len(a) + 1 \in 1..Len(a \o b) /\ (a \o b)[Len(a) + 1] = b[1]
    BY <1>1, ConcatProperties
  <2> QED
    BY <2>1, <2>2
<1>4. CASE a # <<>>
  <2>1. WrittenTo(c) = a[Len(a)].n /\ a[Len(a)].n \in Nat
    <3>1. a[Len(a)] \in Event
      BY <1>1, <1>4
    <3> QED
      BY <1>4, <3>1 DEF WrittenTo, Event
  <2>2. a[Len(a)].n < n
    <3>1. Increasing(a \o b)
      BY <1>1 DEF InOrder
    <3> HIDE DEF a, b
    <3> QED
      BY <1>1, <1>4, <3>1, IncreasingCut
  <2> HIDE DEF a, b, last, n
  <2>3. n \in (WrittenTo(c) + 1)..last
    BY <1>1, <1>2, <1>3, <2>1, <2>2
  <2>4. ASSUME ~sse[c].dropped PROVE n = WrittenTo(c) + 1
    <3>0. a \o b # <<>>
      BY <1>1, <1>4, ConcatEqualIffEmpty
    <3>1. Contiguous(a \o b) /\ (a \o b)[Len(a \o b)].n = last
      BY <1>1, <2>4, <3>0 DEF GapFree, last
    <3>2. a[Len(a)].n = last - Len(b) /\ n = last - Len(b) + 1
      BY <1>1, <1>4, <3>0, <3>1, ContiguousCut DEF n
    <3> QED
      BY <1>1, <2>1, <3>2
  <2> QED
    BY <2>3, <2>4 DEF n, b, last
<1>5. CASE a = <<>>
  <2>1. WrittenTo(c) = n - 1
    BY <1>5 DEF WrittenTo
  <2> QED
    BY <1>1, <1>2, <1>3, <2>1
<1> QED
  BY <1>4, <1>5

\* A log holds no more events than there have been.
LogWithin == \A st \in Streams : Len(streamEvents[st]) <= appended[st]

\* A reader loses an event only while it has others to write.
DropSeen ==
  \A c \in Clients : sse[c].dropped =>
    /\ Subscribed(c)
    /\ sse[c].got # <<>> \/ sse[c].history # <<>> \/ sse[c].ch # <<>>

LEMMA LogWithinStep == TypeOK /\ LogWithin /\ [Next]_vars => LogWithin'
<1> SUFFICES ASSUME TypeOK, [Next]_vars, NEW s \in Streams,
                    Len(streamEvents[s]) <= appended[s]
             PROVE  Len(streamEvents'[s]) <= appended'[s]
  BY DEF LogWithin
<1>1. streamEvents[s] \in Seq(Event) /\ appended[s] \in Nat
  BY DEF TypeOK
<1>2. ASSUME NEW st \in Streams, NEW kind \in Kinds, appendStreamEvent(st, kind)
      PROVE  Len(streamEvents'[s]) <= appended'[s]
  <2>1. CASE st # s
    BY <1>2, <2>1 DEF appendStreamEvent, TypeOK
  <2>2. CASE st = s
    <3> DEFINE e == [n |-> appended[s] + 1, kind |-> kind]
               long == Append(streamEvents[s], e)
    <3>1. /\ streamEvents'[s] = KeepLast(long, MaxLog)
          /\ appended'[s] = appended[s] + 1
      BY <1>2, <2>2 DEF appendStreamEvent, TypeOK
    <3>2. e \in Event
      BY <1>1 DEF Event
    <3> HIDE DEF e
    <3>3. long \in Seq(Event) /\ Len(long) = Len(streamEvents[s]) + 1
      BY <1>1, <3>2
    <3> HIDE DEF long
    <3>4. Len(KeepLast(long, MaxLog)) <= Len(long)
      BY <3>3, StreamLogAssumption DEF KeepLast
    <3>5. KeepLast(long, MaxLog) \in Seq(Event)
      BY <3>3, KeepLastType, StreamLogAssumption
    <3> QED
      BY <1>1, <3>1, <3>3, <3>4, <3>5
  <2> QED
    BY <2>1, <2>2
<1>3. CASE cleanupLoop
  <2>1. \/ streamEvents'[s] = <<>>
        \/ streamEvents'[s] = streamEvents[s]
    BY <1>3 DEF cleanupLoop
  <2>2. appended' = appended
    BY <1>3 DEF cleanupLoop
  <2> QED
    BY <1>1, <2>1, <2>2
<1>4. ASSUME UNCHANGED <<streamEvents, appended>>
      PROVE  Len(streamEvents'[s]) <= appended'[s]
  BY <1>4
<1> QED
  BY <1>2, <1>3, <1>4
     DEF Next, vars, RecordRun, Subscribe, WriteHistory, WriteLive, Unsubscribe,
         CloseChannel, Tick

LEMMA GoLive ==
  ASSUME NEW r \in Reader
  PROVE  LET l == [r EXCEPT !.pc = "live"] IN
         /\ l.pc = "live" /\ l.got = r.got /\ l.ch = r.ch
         /\ l.history = r.history /\ l.since = r.since /\ l.dropped = r.dropped
BY DEF Reader

LEMMA DropSeenStep ==
  TypeOK /\ NoSendOnClosedChannel /\ DropSeen /\ [Next]_vars => DropSeen'
<1> SUFFICES ASSUME TypeOK, NoSendOnClosedChannel, DropSeen, [Next]_vars,
                    NEW d \in Clients, sse'[d].dropped
             PROVE  /\ Subscribed(d)'
                    /\ \/ sse'[d].got # <<>> \/ sse'[d].history # <<>>
                       \/ sse'[d].ch # <<>>
  BY DEF DropSeen
<1> DEFINE r == sse[d]
           Goal == /\ Subscribed(d)'
                   /\ \/ sse'[d].got # <<>> \/ sse'[d].history # <<>>
                      \/ sse'[d].ch # <<>>
<1>0. /\ r \in Reader /\ sse \in [Clients -> Reader]
      /\ r.dropped => /\ Subscribed(d)
                      /\ r.got # <<>> \/ r.history # <<>> \/ r.ch # <<>>
  BY DEF TypeOK, DropSeen
<1>1. ASSUME sse'[d] = r PROVE Goal
  BY <1>0, <1>1 DEF Subscribed
<1>2. ASSUME NEW st \in Streams, NEW kind \in Kinds, appendStreamEvent(st, kind)
      PROVE  Goal
  <2> DEFINE e == [n |-> appended[st] + 1, kind |-> kind]
  <2>1. sse'[d] = IF d \in streamSubs[st] THEN Offer(r, e) ELSE r
    BY <1>2 DEF appendStreamEvent
  <2>2. CASE d \notin streamSubs[st]
    BY <1>1, <2>1, <2>2
  <2>3. CASE d \in streamSubs[st]
    <3>1. Subscribed(d)
      BY <2>3 DEF NoSendOnClosedChannel
    <3>2. e \in Event
      BY DEF TypeOK, Event
    <3> HIDE DEF e, r
    <3>3. CASE Len(r.ch) < ChanCap
      <4>1. sse'[d] = [r EXCEPT !.ch = Append(@, e)]
        BY <2>1, <2>3, <3>3 DEF Offer
      <4>2. sse'[d].pc = r.pc /\ sse'[d].ch = Append(r.ch, e)
        BY <1>0, <4>1 DEF Reader
      <4>3. r.ch \in Seq(Event)
        BY <1>0 DEF Reader
      <4>4. Append(r.ch, e) # <<>>
        BY <3>2, <4>3
      <4> QED
        BY <3>1, <4>2, <4>4 DEF Subscribed, r
    <3>4. CASE ~(Len(r.ch) < ChanCap)
      <4>1. sse'[d] = [r EXCEPT !.dropped = TRUE]
        BY <2>1, <2>3, <3>4 DEF Offer
      <4>2. sse'[d].pc = r.pc /\ sse'[d].ch = r.ch
        BY <1>0, <4>1 DEF Reader
      <4>3. r.ch # <<>>
        BY <3>4, StreamLogAssumption
      <4> QED
        BY <3>1, <4>2, <4>3 DEF Subscribed, r
    <3> QED
      BY <3>3, <3>4
  <2> QED
    BY <2>2, <2>3
<1>3. ASSUME NEW c \in Clients, NEW st \in Streams, Subscribe(c, st) PROVE Goal
  <2>1. CASE c = d
    BY <1>0, <1>3, <2>1 DEF Subscribe
  <2>2. CASE c # d
    <3>1. sse'[d] = r
      BY <1>0, <1>3, <2>2 DEF Subscribe
    <3> QED
      BY <1>1, <3>1
  <2> QED
    BY <2>1, <2>2
<1>4. ASSUME NEW c \in Clients, WriteHistory(c) \/ WriteLive(c) PROVE Goal
  <2>1. CASE c # d
    <3>1. sse'[d] = r
      BY <1>0, <1>4, <2>1 DEF WriteHistory, WriteLive
    <3> QED
      BY <1>1, <3>1
  <2>2. CASE c = d /\ WriteHistory(c) /\ r.history = <<>>
    <3>1. r.pc = "history" /\ sse'[d] = [r EXCEPT !.pc = "live"]
      BY <1>0, <2>2 DEF WriteHistory
    <3> HIDE DEF r
    <3>2. /\ sse'[d].pc = "live" /\ sse'[d].got = r.got /\ sse'[d].ch = r.ch
          /\ sse'[d].history = r.history /\ sse'[d].dropped = r.dropped
      <4>1. r \in Reader
        BY <1>0
      <4> DEFINE l == [r EXCEPT !.pc = "live"]
      <4>2. /\ l.pc = "live" /\ l.got = r.got /\ l.ch = r.ch
            /\ l.history = r.history /\ l.dropped = r.dropped
        BY <4>1, GoLive
      <4> HIDE DEF l
      <4>3. sse'[d] = l
        BY <3>1 DEF l
      <4> QED
        BY <4>2, <4>3
    <3> QED
      BY <1>0, <3>2 DEF Subscribed
  <2>3. ASSUME NEW e \in Event, c = d, Subscribed(d), sse'[d].pc = r.pc,
               sse'[d].got = Append(r.got, e)
        PROVE  Goal
    <3>1. r.got \in Seq(Event)
      BY <1>0 DEF Reader
    <3>2. sse'[d].got # <<>>
      BY <2>3, <3>1
    <3> QED
      BY <2>3, <3>2 DEF Subscribed
  <2>4. CASE c = d /\ WriteHistory(c) /\ r.history # <<>>
    <3>1. /\ r.pc = "history" /\ r.history \in Seq(Event)
          /\ sse'[d] = [r EXCEPT !.history = Tail(@),
                                 !.got = Append(@, Head(r.history))]
      BY <1>0, <2>4 DEF WriteHistory, Reader
    <3>2. Head(r.history) \in Event
      BY <2>4, <3>1
    <3> HIDE DEF r
    <3>3. sse'[d].pc = r.pc /\ sse'[d].got = Append(r.got, Head(r.history))
      BY <1>0, <3>1 DEF Reader
    <3> QED
      BY <2>3, <2>4, <3>1, <3>2, <3>3 DEF Subscribed, r
  <2>5. CASE c = d /\ WriteLive(c)
    <3>1. /\ r.pc = "live" /\ r.ch \in Seq(Event) /\ r.ch # <<>>
          /\ sse'[d] = [r EXCEPT !.ch = Tail(@), !.got = Append(@, Head(r.ch))]
      BY <1>0, <2>5 DEF WriteLive, Reader
    <3>2. Head(r.ch) \in Event
      BY <3>1
    <3> HIDE DEF r
    <3>3. sse'[d].pc = r.pc /\ sse'[d].got = Append(r.got, Head(r.ch))
      BY <1>0, <3>1 DEF Reader
    <3> QED
      BY <2>3, <2>5, <3>1, <3>2, <3>3 DEF Subscribed, r
  <2> QED
    BY <1>4, <2>1, <2>2, <2>4, <2>5
<1>5. ASSUME NEW c \in Clients, Unsubscribe(c) \/ CloseChannel(c) PROVE Goal
  <2>1. CASE c # d
    <3>1. sse'[d] = r
      BY <1>0, <1>5, <2>1 DEF Unsubscribe, CloseChannel
    <3> QED
      BY <1>1, <3>1
  <2>2. CASE c = d /\ Unsubscribe(c)
    <3>1. sse'[d].dropped = FALSE
      BY <1>0, <2>2 DEF Unsubscribe, Reader
    <3> QED
      BY <3>1
  <2>3. CASE c = d /\ CloseChannel(c)
    <3>1. r.pc = "unsubscribed" /\ sse'[d].dropped = r.dropped
      BY <1>0, <2>3 DEF CloseChannel, Reader
    <3> QED
      BY <1>0, <3>1 DEF Subscribed
  <2> QED
    BY <1>5, <2>1, <2>2, <2>3
<1>6. ASSUME UNCHANGED sse PROVE Goal
  BY <1>1, <1>6
<1> HIDE DEF Goal
<1>7. Goal
  BY <1>2, <1>3, <1>4, <1>5, <1>6 DEF Next, vars, RecordRun, cleanupLoop, Tick
<1> QED
  BY <1>7 DEF Goal

-----------------------------------------------------------------------------
(* The refinement: each step as a step of EventFeed *)

FeedSays == [Stream!FeedNext]_<<appended, streamSubs, Place, Overrun>>

FeedInv ==
  /\ TypeOK /\ NoSendOnClosedChannel /\ ReaderPhases /\ LogNumbered
  /\ FeedBounded /\ InOrder /\ GapFree
  /\ LogWithin /\ DropSeen

\* A reader whose buffers stay as they are stays where it is.
LEMMA PlaceKept ==
  ASSUME NEW c \in Clients,
         Subscribed(c)' <=> Subscribed(c),
         Subscribed(c) =>
           /\ sse'[c].got = sse[c].got /\ sse'[c].history = sse[c].history
           /\ sse'[c].ch = sse[c].ch /\ sse'[c].since = sse[c].since
  PROVE  Place'[c] = Place[c]
<1>1. CASE Subscribed(c)
  <2>1. Unwritten(c)' = Unwritten(c)
    BY <1>1 DEF Unwritten
  <2>2. WrittenTo(c)' = WrittenTo(c)
    BY <1>1, <2>1 DEF WrittenTo
  <2> QED
    BY <1>1, <2>2 DEF Place
<1>2. CASE ~Subscribed(c)
  BY <1>2 DEF Place
<1> QED
  BY <1>1, <1>2

LEMMA SamePlaces ==
  ASSUME UNCHANGED <<appended, streamSubs>>,
         \A c \in Clients : Place'[c] = Place[c] /\ (c \in Overrun' <=> c \in Overrun)
  PROVE  FeedSays
<1>1. Place' = Place
  BY DEF Place
<1>2. Overrun' = Overrun
  BY DEF Overrun
<1> QED
  BY <1>1, <1>2 DEF FeedSays

\* The readers a step does not touch.
LEMMA OtherPlaces ==
  ASSUME NEW c \in Clients, sse'[c] = sse[c]
  PROVE  Place'[c] = Place[c] /\ (c \in Overrun' <=> c \in Overrun)
<1>1. Subscribed(c)' <=> Subscribed(c)
  BY DEF Subscribed
<1> QED
  BY <1>1, PlaceKept DEF Overrun

LEMMA OneMoves ==
  ASSUME NEW c \in Clients, NEW n, Place'[c] = n,
         \A d \in Clients \ {c} : sse'[d] = sse[d]
  PROVE  Place' = [Place EXCEPT ![c] = n]
<1>1. \A d \in Clients \ {c} : Place'[d] = Place[d]
  BY OtherPlaces
<1> QED
  BY <1>1 DEF Place

LEMMA AppendLast ==
  ASSUME NEW q \in Seq(Event), NEW b \in Seq(Event), b # <<>>
  PROVE  /\ Append(q, Head(b)) # <<>>
         /\ Append(q, Head(b))[Len(Append(q, Head(b)))] = Head(b)
OBVIOUS

LEMMA ConcatHead ==
  ASSUME NEW a \in Seq(Event), NEW b \in Seq(Event), a # <<>>
  PROVE  a \o b # <<>> /\ (a \o b)[1] = Head(a)
<1>1. 1 \in 1..Len(a) /\ Head(a) = a[1]
  OBVIOUS
<1>2. (a \o b)[1] = a[1]
  BY <1>1
<1>3. a \o b # <<>>
  BY ConcatEqualIffEmpty
<1> QED
  BY <1>1, <1>2, <1>3

\* Writing the next event to a reader.
LEMMA HearStep ==
  ASSUME FeedInv, NEW c \in Clients, Subscribed(c), Unwritten(c) # <<>>,
         UNCHANGED <<appended, streamSubs>>,
         \A d \in Clients \ {c} : sse'[d] = sse[d],
         Subscribed(c)', sse'[c].dropped = sse[c].dropped,
         WrittenTo(c)' = Unwritten(c)[1].n
  PROVE  FeedSays
<1> DEFINE n == Unwritten(c)[1].n
           st == sse[c].stream
<1>1. /\ n \in (WrittenTo(c) + 1)..appended[st]
      /\ ~sse[c].dropped => n = WrittenTo(c) + 1
  BY NextEvent DEF FeedInv
<1>2. st \in Streams /\ c \in streamSubs[st]
  BY FeedParts DEF FeedInv, ReaderPhases
<1>3. Place[c] = WrittenTo(c) /\ Place'[c] = n
  BY DEF Place
<1>4. c \notin Overrun => ~sse[c].dropped
  BY DEF Overrun
<1>5. Overrun' = Overrun
  <2>1. c \in Overrun' <=> c \in Overrun
    BY DEF Overrun
  <2>2. \A d \in Clients : d \in Overrun' <=> d \in Overrun
    BY <2>1, OtherPlaces
  <2> QED
    BY <2>2 DEF Overrun
<1> HIDE DEF n, st
<1>6. Place' = [Place EXCEPT ![c] = n]
  BY <1>3, OneMoves
<1>7. Stream!Hear(c, st)
  BY <1>1, <1>2, <1>3, <1>4, <1>5, <1>6 DEF Stream!Hear
<1> QED
  BY <1>2, <1>7 DEF FeedSays, Stream!FeedNext

LEMMA FeedWriteHistory ==
  ASSUME FeedInv, NEW c \in Clients, WriteHistory(c) PROVE FeedSays
<1> DEFINE r == sse[c]
<1>1. /\ r \in Reader /\ sse \in [Clients -> Reader] /\ r.pc = "history"
      /\ Subscribed(c) /\ UNCHANGED <<appended, streamSubs>>
  BY DEF WriteHistory, FeedInv, TypeOK, Subscribed
<1>2. \A d \in Clients \ {c} : sse'[d] = sse[d]
  BY <1>1 DEF WriteHistory
<1>3. CASE r.history = <<>>
  <2>1. sse'[c] = [r EXCEPT !.pc = "live"]
    BY <1>1, <1>3 DEF WriteHistory
  <2> HIDE DEF r
  <2>2. /\ sse'[c].pc = "live" /\ sse'[c].got = r.got /\ sse'[c].ch = r.ch
        /\ sse'[c].history = r.history /\ sse'[c].since = r.since
        /\ sse'[c].dropped = r.dropped
    BY <1>1, <2>1, GoLive
  <2>3. Subscribed(c)'
    BY <2>2 DEF Subscribed
  <2>4. Place'[c] = Place[c] /\ (c \in Overrun' <=> c \in Overrun)
    BY <1>1, <2>2, <2>3, PlaceKept DEF Overrun, r
  <2> QED
    BY <1>1, <1>2, <2>4, OtherPlaces, SamePlaces
<1>4. CASE r.history # <<>>
  <2>1. sse'[c] = [r EXCEPT !.history = Tail(@), !.got = Append(@, Head(r.history))]
    BY <1>1, <1>4 DEF WriteHistory
  <2>2. r.history \in Seq(Event) /\ r.got \in Seq(Event) /\ r.ch \in Seq(Event)
    BY <1>1 DEF Reader
  <2>3. Unwritten(c) = r.history \o r.ch
    BY DEF Unwritten
  <2> HIDE DEF r
  <2>4. /\ sse'[c].pc = r.pc /\ sse'[c].dropped = r.dropped
        /\ sse'[c].got = Append(r.got, Head(r.history))
    BY <1>1, <2>1 DEF Reader
  <2>5. Unwritten(c) # <<>> /\ Unwritten(c)[1] = Head(r.history)
    <3>1. r.history \o r.ch # <<>> /\ (r.history \o r.ch)[1] = Head(r.history)
      BY <1>4, <2>2, ConcatHead
    <3> QED
      BY <2>3, <3>1
  <2>6. /\ sse'[c].got # <<>>
        /\ sse'[c].got[Len(sse'[c].got)] = Head(r.history)
    BY <1>4, <2>2, <2>4, AppendLast
  <2>7. WrittenTo(c)' = Unwritten(c)[1].n
    BY <2>5, <2>6 DEF WrittenTo
  <2>8. Subscribed(c)'
    BY <1>1, <2>4 DEF Subscribed
  <2> QED
    BY <1>1, <1>2, <2>4, <2>5, <2>7, <2>8, HearStep DEF r
<1> QED
  BY <1>3, <1>4

LEMMA FeedWriteLive ==
  ASSUME FeedInv, NEW c \in Clients, WriteLive(c) PROVE FeedSays
<1> DEFINE r == sse[c]
<1>1. /\ r \in Reader /\ sse \in [Clients -> Reader]
      /\ r.pc = "live" /\ r.ch # <<>>
      /\ Subscribed(c) /\ UNCHANGED <<appended, streamSubs>>
      /\ sse' = [sse EXCEPT ![c].ch = Tail(@), ![c].got = Append(@, Head(r.ch))]
  BY DEF WriteLive, FeedInv, TypeOK, Subscribed
<1>2. \A d \in Clients \ {c} : sse'[d] = sse[d]
  BY <1>1
<1>3. sse'[c] = [r EXCEPT !.ch = Tail(@), !.got = Append(@, Head(r.ch))]
  BY <1>1
<1>4. r.history = <<>> /\ r.got \in Seq(Event) /\ r.ch \in Seq(Event)
  BY <1>1 DEF FeedInv, ReaderPhases, Reader
<1>5. Unwritten(c) = r.ch
  BY <1>4, ConcatEmptySeq DEF Unwritten
<1> HIDE DEF r
<1>6. /\ sse'[c].pc = r.pc /\ sse'[c].dropped = r.dropped
      /\ sse'[c].got = Append(r.got, Head(r.ch))
  BY <1>1, <1>3 DEF Reader
<1>7. Unwritten(c) # <<>> /\ Unwritten(c)[1] = Head(r.ch)
  BY <1>1, <1>4, <1>5
<1>8. /\ sse'[c].got # <<>>
      /\ sse'[c].got[Len(sse'[c].got)] = Head(r.ch)
  BY <1>1, <1>4, <1>6, AppendLast
<1>9. WrittenTo(c)' = Unwritten(c)[1].n
  BY <1>7, <1>8 DEF WrittenTo
<1>10. Subscribed(c)'
  BY <1>1, <1>6 DEF Subscribed
<1> QED
  BY <1>1, <1>2, <1>6, <1>7, <1>9, <1>10, HearStep DEF r

\* The copied log reaches back as far as the log does.
LEMMA FeedSubscribe ==
  ASSUME FeedInv, NEW c \in Clients, NEW st \in Streams, Subscribe(c, st)
  PROVE  FeedSays
<1> DEFINE log == streamEvents[st]
           from == appended[st] - Len(log)
<1>1. /\ sse[c].pc = "idle" /\ UNCHANGED appended
      /\ streamSubs' = [streamSubs EXCEPT ![st] = @ \cup {c}]
      /\ sse' = [sse EXCEPT ![c] =
                   [pc |-> "history", stream |-> st, history |-> log,
                    ch |-> <<>>, got |-> <<>>, dropped |-> FALSE,
                    since |-> appended[st]]]
  BY DEF Subscribe
<1>2. /\ log \in Seq(Event) /\ appended[st] \in Nat /\ Len(log) \in Nat
      /\ Len(log) <= appended[st] /\ Len(log) <= MaxLog /\ MaxLog \in Nat
      /\ sse \in [Clients -> Reader]
  BY StreamLogAssumption DEF FeedInv, TypeOK, LogWithin
<1>3. \A d \in Clients \ {c} : sse'[d] = sse[d]
  BY <1>1, <1>2
<1>4. /\ sse'[c].pc = "history" /\ sse'[c].history = log
      /\ sse'[c].ch = <<>> /\ sse'[c].got = <<>> /\ sse'[c].dropped = FALSE
      /\ sse'[c].since = appended[st]
  BY <1>1, <1>2
<1>5. ~Subscribed(c) /\ Subscribed(c)'
  BY <1>1, <1>4 DEF Subscribed
<1>6. Unwritten(c)' = log
  BY <1>2, <1>4, ConcatEmptySeq DEF Unwritten
<1>7. WrittenTo(c)' = from
  <2>1. CASE log = <<>>
    <3>1. WrittenTo(c)' = appended[st]
      BY <1>4, <1>6, <2>1 DEF WrittenTo
    <3>2. Len(log) = 0
      BY <2>1
    <3> QED
      BY <1>2, <3>1, <3>2
  <2>2. CASE log # <<>>
    <3>1. log[1].n = appended[st] - Len(log) + 1
      <4>1. 1 \in 1..Len(log)
        BY <1>2, <2>2
      <4> QED
        BY <4>1 DEF FeedInv, LogNumbered, Numbered
    <3>2. WrittenTo(c)' = log[1].n - 1
      BY <1>4, <1>6, <2>2 DEF WrittenTo
    <3> QED
      BY <1>2, <3>1, <3>2
  <2> QED
    BY <2>1, <2>2
<1>8. Place'[c] = from
  BY <1>5, <1>7 DEF Place
<1>9. Overrun' = Overrun
  <2>1. c \in Overrun' <=> c \in Overrun
    BY <1>4, <1>5 DEF Overrun
  <2>2. \A d \in Clients : d \in Overrun' <=> d \in Overrun
    BY <1>3, <2>1, OtherPlaces
  <2> QED
    BY <2>2 DEF Overrun
<1>10. \A s \in Streams : c \notin streamSubs[s]
  BY <1>5 DEF FeedInv, NoSendOnClosedChannel
<1>11. from \in 0..appended[st] /\ appended[st] <= from + MaxLog
  BY <1>2
<1> HIDE DEF from
<1>12. Place' = [Place EXCEPT ![c] = from]
  BY <1>3, <1>8, OneMoves
<1>13. Stream!Listen(c, st)
  BY <1>1, <1>9, <1>10, <1>11, <1>12 DEF Stream!Listen
<1> QED
  BY <1>13 DEF FeedSays, Stream!FeedNext

LEMMA FeedUnsubscribe ==
  ASSUME FeedInv, NEW c \in Clients, Unsubscribe(c) PROVE FeedSays
<1> DEFINE st == sse[c].stream
<1>1. /\ sse[c].pc = "live" /\ UNCHANGED appended
      /\ streamSubs' = [streamSubs EXCEPT ![st] = @ \ {c}]
      /\ sse \in [Clients -> Reader]
      /\ sse' = [sse EXCEPT ![c].pc = "unsubscribed", ![c].dropped = FALSE,
                            ![c].since = 0]
  BY DEF Unsubscribe, FeedInv, TypeOK
<1>2. st \in Streams /\ c \in streamSubs[st]
  BY <1>1, FeedParts DEF FeedInv, ReaderPhases, Subscribed
<1>3. \A d \in Clients \ {c} : sse'[d] = sse[d]
  BY <1>1
<1>4. sse'[c].pc = "unsubscribed"
  BY <1>1 DEF Reader
<1>5. Place'[c] = 0
  BY <1>4 DEF Place, Subscribed
<1>6. Overrun' = Overrun \ {c}
  <2>1. c \notin Overrun'
    BY <1>4 DEF Overrun, Subscribed
  <2>2. \A d \in Clients \ {c} : d \in Overrun' <=> d \in Overrun
    BY <1>3, OtherPlaces
  <2> QED
    BY <2>1, <2>2 DEF Overrun
<1> HIDE DEF st
<1>7. Place' = [Place EXCEPT ![c] = 0]
  BY <1>3, <1>5, OneMoves
<1>8. Stream!Leave(c, st)
  BY <1>1, <1>2, <1>6, <1>7 DEF Stream!Leave
<1> QED
  BY <1>2, <1>8 DEF FeedSays, Stream!FeedNext

LEMMA FeedCloseChannel ==
  ASSUME FeedInv, NEW c \in Clients, CloseChannel(c) PROVE FeedSays
<1>1. /\ sse[c].pc = "unsubscribed" /\ UNCHANGED <<appended, streamSubs>>
      /\ sse \in [Clients -> Reader]
      /\ sse' = [sse EXCEPT ![c].pc = "closed", ![c].ch = <<>>, ![c].got = <<>>]
  BY DEF CloseChannel, FeedInv, TypeOK
<1>2. \A d \in Clients \ {c} : sse'[d] = sse[d]
  BY <1>1
<1>3. sse'[c].pc = "closed"
  BY <1>1 DEF Reader
<1>4. ~Subscribed(c) /\ ~Subscribed(c)'
  BY <1>1, <1>3 DEF Subscribed
<1>5. Place'[c] = Place[c] /\ (c \in Overrun' <=> c \in Overrun)
  BY <1>4 DEF Place, Overrun
<1> QED
  BY <1>1, <1>2, <1>5, OtherPlaces, SamePlaces

LEMMA AppendHead ==
  ASSUME NEW q \in Seq(Event), NEW e \in Event
  PROVE  /\ Append(q, e) # <<>>
         /\ q # <<>> => Append(q, e)[1] = q[1]
         /\ q = <<>> => Append(q, e)[1] = e
OBVIOUS

\* What a published event does to one reader.
LEMMA FeedOffer ==
  ASSUME FeedInv, NEW st \in Streams, NEW kind \in Kinds,
         appendStreamEvent(st, kind), NEW d \in Clients
  PROVE  /\ Place'[d] = Place[d]
         /\ d \in Overrun => d \in Overrun'
         /\ d \in Overrun' /\ d \notin Overrun =>
              d \in streamSubs[st] /\ appended[st] >= Place[d] + ChanCap
<1> DEFINE e == [n |-> appended[st] + 1, kind |-> kind]
           r == sse[d]
<1>1. /\ sse'[d] = IF d \in streamSubs[st] THEN Offer(r, e) ELSE r
      /\ r \in Reader /\ appended[st] \in Nat
  BY DEF appendStreamEvent, FeedInv, TypeOK
<1>2. CASE d \notin streamSubs[st]
  BY <1>1, <1>2, OtherPlaces
<1>3. CASE d \in streamSubs[st]
  <2>1. Subscribed(d) /\ r.stream = st
    BY <1>3 DEF FeedInv, NoSendOnClosedChannel
  <2>2. e \in Event /\ e.n = appended[st] + 1
    BY <1>1 DEF Event
  <2>3. /\ r.got \in Seq(Event) /\ r.history \in Seq(Event) /\ r.ch \in Seq(Event)
        /\ Unwritten(d) \in Seq(Event)
        /\ Len(Unwritten(d)) = Len(r.history) + Len(r.ch)
        /\ Len(r.history) \in Nat /\ Len(r.ch) \in Nat
    BY <1>1, FeedParts DEF FeedInv, Reader
  <2>4. CASE Len(r.ch) < ChanCap
    <3>1. sse'[d] = [r EXCEPT !.ch = Append(@, e)]
      BY <1>1, <1>3, <2>4 DEF Offer
    <3> HIDE DEF e, r
    <3>2. /\ sse'[d].pc = r.pc /\ sse'[d].dropped = r.dropped
          /\ sse'[d].got = r.got /\ sse'[d].history = r.history
          /\ sse'[d].ch = Append(r.ch, e) /\ sse'[d].since = r.since
      BY <1>1, <3>1 DEF Reader
    <3>3. Subscribed(d)' /\ (d \in Overrun' <=> d \in Overrun)
      BY <2>1, <3>2 DEF Subscribed, Overrun, r
    <3>4. Unwritten(d)' = Append(Unwritten(d), e)
      <4>1. r.history \o Append(r.ch, e) = Append(r.history \o r.ch, e)
        BY <2>2, <2>3, FeedAppend
      <4> QED
        BY <3>2, <4>1 DEF Unwritten, r
    <3>5. /\ Unwritten(d)' # <<>>
          /\ Unwritten(d) # <<>> => Unwritten(d)'[1] = Unwritten(d)[1]
          /\ Unwritten(d) = <<>> => Unwritten(d)'[1] = e
      <4>1. e \in Event /\ Unwritten(d) \in Seq(Event)
        BY <2>2, <2>3
      <4>2. /\ Append(Unwritten(d), e) # <<>>
            /\ Unwritten(d) # <<>> => Append(Unwritten(d), e)[1] = Unwritten(d)[1]
            /\ Unwritten(d) = <<>> => Append(Unwritten(d), e)[1] = e
        BY <4>1, AppendHead
      <4> QED
        BY <3>4, <4>2
    <3>6. WrittenTo(d)' = WrittenTo(d)
      <4>1. CASE r.got # <<>>
        BY <3>2, <4>1 DEF WrittenTo, r
      <4>2. CASE r.got = <<>> /\ Unwritten(d) # <<>>
        BY <3>2, <3>5, <4>2 DEF WrittenTo, r
      <4>3. CASE r.got = <<>> /\ Unwritten(d) = <<>>
        <5>1. r.history = <<>> /\ r.ch = <<>>
          <6>1. r.history \o r.ch = <<>>
            BY <4>3 DEF Unwritten, r
          <6> QED
            BY <2>3, <6>1, ConcatEqualIffEmpty
        <5>2. ~r.dropped
          BY <4>3, <5>1 DEF FeedInv, DropSeen, r
        <5>3. WrittenTo(d) = appended[st] - Len(Unwritten(d))
          BY <2>1, <5>2, Behind DEF FeedInv, r
        <5>4. WrittenTo(d) = appended[st]
          <6>1. Len(Unwritten(d)) = 0
            BY <4>3
          <6> QED
            BY <1>1, <5>3, <6>1
        <5>5. Unwritten(d)'[1] = e
          BY <3>5, <4>3
        <5>6. WrittenTo(d)' = e.n - 1
          BY <3>2, <3>5, <4>3, <5>5 DEF WrittenTo
        <5> QED
          BY <1>1, <2>2, <5>4, <5>6
      <4> QED
        BY <4>1, <4>2, <4>3
    <3> QED
      BY <2>1, <3>3, <3>6 DEF Place
  <2>5. CASE ~(Len(r.ch) < ChanCap)
    <3>1. sse'[d] = [r EXCEPT !.dropped = TRUE]
      BY <1>1, <1>3, <2>5 DEF Offer
    <3> HIDE DEF r
    <3>2. /\ sse'[d].pc = r.pc /\ sse'[d].dropped
          /\ sse'[d].got = r.got /\ sse'[d].history = r.history
          /\ sse'[d].ch = r.ch /\ sse'[d].since = r.since
      BY <1>1, <3>1 DEF Reader
    <3>3. Subscribed(d)' /\ d \in Overrun'
      BY <2>1, <3>2 DEF Subscribed, Overrun, r
    <3>4. Place'[d] = Place[d]
      BY <2>1, <3>2, <3>3, PlaceKept DEF r
    <3>5. ASSUME d \notin Overrun PROVE appended[st] >= Place[d] + ChanCap
      <4>1. WrittenTo(d) = appended[st] - Len(Unwritten(d))
        BY <2>1, <3>5, Behind DEF FeedInv, Overrun, r
      <4>2. Place[d] = WrittenTo(d)
        BY <2>1 DEF Place
      <4>3. \A a, h, k \in Nat : k >= ChanCap => a >= a - (h + k) + ChanCap
        BY StreamLogAssumption
      <4>4. Len(r.ch) >= ChanCap
        BY <2>3, <2>5, StreamLogAssumption
      <4>5. Place[d] = appended[st] - (Len(r.history) + Len(r.ch))
        BY <2>3, <4>1, <4>2
      <4> QED
        BY <1>1, <2>3, <4>3, <4>4, <4>5
    <3> QED
      BY <1>3, <3>3, <3>4, <3>5
  <2> QED
    BY <2>4, <2>5
<1> QED
  BY <1>2, <1>3

LEMMA FeedPublish ==
  ASSUME FeedInv, NEW st \in Streams, NEW kind \in Kinds,
         appendStreamEvent(st, kind)
  PROVE  FeedSays
<1>1. /\ appended' = [appended EXCEPT ![st] = @ + 1]
      /\ UNCHANGED streamSubs
  BY DEF appendStreamEvent
<1>2. Place' = Place
  <2>1. \A d \in Clients : Place'[d] = Place[d]
    BY FeedOffer
  <2> QED
    BY <2>1 DEF Place
<1>3. Overrun \subseteq Clients /\ Overrun' \subseteq Clients
  BY DEF Overrun
<1>4. /\ Overrun \subseteq Overrun'
      /\ \A d \in Overrun' \ Overrun :
           d \in streamSubs[st] /\ appended[st] >= Place[d] + ChanCap
  BY <1>3, FeedOffer
<1>5. Stream!Publish(st)
  BY <1>1, <1>2, <1>4 DEF Stream!Publish
<1> QED
  BY <1>5 DEF FeedSays, Stream!FeedNext

LEMMA NextFeed == FeedInv /\ [Next]_vars => FeedSays
<1> SUFFICES ASSUME FeedInv, [Next]_vars PROVE FeedSays
  OBVIOUS
<1>1. ASSUME UNCHANGED <<sse, appended, streamSubs>> PROVE FeedSays
  BY <1>1, OtherPlaces, SamePlaces
<1>2. CASE \E st \in Streams, kind \in Kinds : appendStreamEvent(st, kind)
  BY <1>2, FeedPublish
<1>3. CASE \E c \in Clients, st \in Streams : Subscribe(c, st)
  BY <1>3, FeedSubscribe
<1>4. CASE \E c \in Clients : WriteHistory(c) \/ WriteLive(c)
  BY <1>4, FeedWriteHistory, FeedWriteLive
<1>5. CASE \E c \in Clients : Unsubscribe(c) \/ CloseChannel(c)
  BY <1>5, FeedUnsubscribe, FeedCloseChannel
<1>6. CASE \/ \E st \in Streams : RecordRun(st)
           \/ cleanupLoop \/ Tick \/ UNCHANGED vars
  BY <1>1, <1>6 DEF RecordRun, cleanupLoop, Tick, vars
<1> QED
  BY <1>2, <1>3, <1>4, <1>5, <1>6 DEF Next

LEMMA InitFeed == Init => LogWithin /\ DropSeen /\ Stream!FeedInit
<1> SUFFICES ASSUME Init
             PROVE  LogWithin /\ DropSeen /\ Stream!FeedInit
  OBVIOUS
<1>1. ASSUME NEW c \in Clients PROVE ~Subscribed(c) /\ ~sse[c].dropped
  BY DEF Init, Subscribed
<1>2. LogWithin
  <2>1. \A st \in Streams : streamEvents[st] = <<>> /\ appended[st] = 0
    BY DEF Init
  <2>2. Len(<<>>) = 0 /\ 0 <= 0
    OBVIOUS
  <2> QED
    BY <2>1, <2>2 DEF LogWithin
<1>3. DropSeen
  BY <1>1 DEF DropSeen
<1>4. Place = [c \in Clients |-> 0] /\ Overrun = {}
  BY <1>1 DEF Place, Overrun
<1> QED
  BY <1>2, <1>3, <1>4 DEF Init, Stream!FeedInit

LEMMA AlwaysFeedInv == Spec => []FeedInv
<1>1. ASSUME TypeOK, TypeOK', NoSendOnClosedChannel, ReaderPhases,
             LogNumbered, FeedBounded, InOrder, [Next]_vars
      PROVE  FeedBounded'
  <2>1. ASSUME NEW c \in Clients
        PROVE  \A i \in 1..Len(Feed(c)') :
                 Feed(c)'[i].n <= appended'[sse'[c].stream]
    BY <1>1, FeedStep
  <2> QED
    BY <2>1 DEF FeedBounded
<1>2. Spec => []FeedBounded
  BY <1>1, FeedInit, FeedsFollow, ReadersInOrder, PTL DEF Spec
<1>3. Spec => []LogWithin
  BY InitFeed, TypeCorrect, LogWithinStep, PTL DEF Spec
<1>4. Spec => []DropSeen
  BY InitFeed, FeedsFollow, DropSeenStep, PTL DEF Spec
<1> QED
  BY <1>2, <1>3, <1>4, FeedsFollow, ReadersInOrder, ReadersGapFree, PTL
     DEF FeedInv

(***************************************************************************)
(* The event log, its copies and the channels implement EventFeed, for a   *)
(* log and channels of any length and any number of readers: a reader      *)
(* hears its stream from where the log began, event after event, and can   *)
(* miss one only when it had a channel full of others to be written.       *)
(***************************************************************************)
THEOREM LogImplementsEventFeed == Spec => ImplementsEventFeed
<1>1. FeedInv /\ [Next]_vars
        => [Stream!FeedNext]_<<appended, streamSubs, Place, Overrun>>
  BY NextFeed DEF FeedSays
<1>2. Init => Stream!FeedInit
  BY InitFeed
<1> QED
  BY <1>1, <1>2, AlwaysFeedInv, PTL
     DEF Spec, ImplementsEventFeed, Stream!FeedSpec, Stream!feedVars
=============================================================================
