------------------------------ MODULE StreamLog ------------------------------
(***************************************************************************)
(* The gateway's event log of a run and its server-sent-event readers      *)
(* (pkg/server/server.go: appendStreamEvent, handleRunEvents, cleanupLoop  *)
(* and the bookkeeping at the end of createRun).                           *)
(*                                                                         *)
(* Every action is one critical section of GatewayServer.mu, or one step   *)
(* of a reader's goroutine outside of it.  A map entry that is absent is   *)
(* the empty sequence or None.  A time stamp is kept as its age in ticks,  *)
(* saturated at Retention, because the code only asks whether it is older  *)
(* than the retention.                                                     *)
(***************************************************************************)
EXTENDS Integers, Sequences

CONSTANTS
  Streams,    \* stream (run) identifiers
  Clients,    \* goroutines running handleRunEvents
  MaxLog,     \* maxStreamEventsPerStream
  ChanCap,    \* capacity of a subscriber's channel
  Retention,  \* streamRetention, in ticks
  MaxEvents,  \* bound: events received for one stream
  None

ASSUME StreamLogAssumption ==
  /\ MaxLog \in Nat \ {0}
  /\ ChanCap \in Nat \ {0}
  /\ Retention \in Nat \ {0}
  /\ MaxEvents \in Nat
  /\ None \notin 0..Retention

VARIABLES
  streamEvents,      \* [Streams -> Seq(Event)]
  streamEventTimes,  \* [Streams -> length of the parallel slice of times]
  streamLastAt,      \* [Streams -> age of the last event, or None]
  streamDoneAt,      \* [Streams -> age of the COMPLETED event, or None]
  streamSubs,        \* [Streams -> set of subscribed readers]
  runs,              \* streams with an entry in the runs map
  recorded,          \* streams whose createRun has recorded its run
  sse,               \* [Clients -> state of the reader]
  appended,          \* history: events received per stream, numbers them
  completion         \* history: number of the stream's newest COMPLETED, or 0

vars == <<streamEvents, streamEventTimes, streamLastAt, streamDoneAt,
          streamSubs, runs, recorded, sse, appended, completion>>

Kinds == {"event", "completed"}
Event == [n : Nat, kind : Kinds]
Age == 0..Retention

\* "dropped" and "since" are history: whether the full channel ever cost the
\* reader an event, and how many events the stream had seen at subscription.
Reader ==
  [pc : {"idle", "history", "live", "unsubscribed", "closed"},
   stream : Streams, history : Seq(Event), ch : Seq(Event),
   got : Seq(Event), dropped : BOOLEAN, since : Nat]

\* The type, with the one bound the log has (maxStreamEventsPerStream) and
\* the two slices kept in parallel: the times are cut together with the
\* events, so that neither grows with what a run reports.
TypeOK ==
  /\ streamEvents \in [Streams -> Seq(Event)]
  /\ streamEventTimes \in [Streams -> Nat]
  /\ streamLastAt \in [Streams -> Age \cup {None}]
  /\ streamDoneAt \in [Streams -> Age \cup {None}]
  /\ streamSubs \in [Streams -> SUBSET Clients]
  /\ runs \in SUBSET Streams
  /\ recorded \in SUBSET Streams
  /\ sse \in [Clients -> Reader]
  /\ appended \in [Streams -> Nat]
  /\ completion \in [Streams -> Nat]
  /\ \A st \in Streams : /\ Len(streamEvents[st]) <= MaxLog
                         /\ streamEventTimes[st] = Len(streamEvents[st])

-----------------------------------------------------------------------------
\* Mutant: the cut is made one event early.
KeepLastFewer(s, max) ==
  IF Len(s) >= max THEN SubSeq(s, Len(s) - max + 2, Len(s)) ELSE s

KeepLast(s, max) ==
  IF Len(s) > max THEN SubSeq(s, Len(s) - max + 1, Len(s)) ELSE s

\* Mutant: the slice of times is not cut with the log.
AtMostUncut(len, max) == len

AtMost(len, max) == IF len > max THEN max ELSE len

Older(age) == IF age \in Age /\ age < Retention THEN age + 1 ELSE age

\* doneAt.After(cutoff) and lastAt.After(cutoff), negated.
Expired(age) == age = Retention

Init ==
  /\ streamEvents = [st \in Streams |-> <<>>]
  /\ streamEventTimes = [st \in Streams |-> 0]
  /\ streamLastAt = [st \in Streams |-> None]
  /\ streamDoneAt = [st \in Streams |-> None]
  /\ streamSubs = [st \in Streams |-> {}]
  /\ runs = {}
  /\ recorded = {}
  /\ appended = [st \in Streams |-> 0]
  /\ completion = [st \in Streams |-> 0]
  /\ sse \in [Clients -> [pc : {"idle"}, stream : Streams, history : {<<>>},
                        ch : {<<>>}, got : {<<>>}, dropped : {FALSE},
                        since : {0}]]

-----------------------------------------------------------------------------
\* The end of createRun, after the request has been dispatched: events of the
\* run may already be in the log.  A run identifier is used once.
RecordRun(st) ==
  /\ st \notin recorded
  /\ recorded' = recorded \cup {st}
  /\ runs' = runs \cup {st}
  /\ streamLastAt' = [streamLastAt EXCEPT ![st] = 0]
  /\ UNCHANGED <<streamEvents, streamEventTimes, streamDoneAt, streamSubs, sse,
                 appended, completion>>

\* Mutant: the last place of the channel is not used.
OfferEarly(r, e) ==
  IF Len(r.ch) + 1 < ChanCap
  THEN [r EXCEPT !.ch = Append(@, e)]
  ELSE [r EXCEPT !.dropped = TRUE]

\* The non-blocking send to one subscriber: a full channel drops the event.
Offer(r, e) ==
  IF Len(r.ch) < ChanCap
  THEN [r EXCEPT !.ch = Append(@, e)]
  ELSE [r EXCEPT !.dropped = TRUE]

appendStreamEvent(st, kind) ==
  LET e == [n |-> appended[st] + 1, kind |-> kind]
  IN  /\ appended[st] < MaxEvents
      /\ appended' = [appended EXCEPT ![st] = @ + 1]
      /\ streamEvents' =
           [streamEvents EXCEPT ![st] = KeepLast(Append(@, e), MaxLog)]
      /\ streamEventTimes' =
           [streamEventTimes EXCEPT ![st] = AtMost(@ + 1, MaxLog)]
      /\ streamLastAt' = [streamLastAt EXCEPT ![st] = 0]
      /\ IF kind = "completed"
         THEN /\ streamDoneAt' = [streamDoneAt EXCEPT ![st] = 0]
              /\ runs' = runs \ {st}
              /\ completion' = [completion EXCEPT ![st] = e.n]
         ELSE UNCHANGED <<streamDoneAt, runs, completion>>
      /\ sse' = [c \in Clients |->
                   IF c \in streamSubs[st] THEN Offer(sse[c], e) ELSE sse[c]]
      /\ UNCHANGED <<streamSubs, recorded>>

\* Mutant: the copy of the log stops one short of its end.
SubscribeShort(c, st) ==
  /\ sse[c].pc = "idle"
  /\ streamSubs' = [streamSubs EXCEPT ![st] = @ \cup {c}]
  /\ sse' = [sse EXCEPT ![c] =
               [pc |-> "history", stream |-> st,
                history |-> SubSeq(streamEvents[st], 1, Len(streamEvents[st]) - 1),
                ch |-> <<>>, got |-> <<>>, dropped |-> FALSE,
                since |-> appended[st]]]
  /\ UNCHANGED <<streamEvents, streamEventTimes, streamLastAt, streamDoneAt,
                 runs, recorded, appended, completion>>

\* handleRunEvents: subscription and the copy of the log in one critical
\* section.
Subscribe(c, st) ==
  /\ sse[c].pc = "idle"
  /\ streamSubs' = [streamSubs EXCEPT ![st] = @ \cup {c}]
  /\ sse' = [sse EXCEPT ![c] =
               [pc |-> "history", stream |-> st, history |-> streamEvents[st],
                ch |-> <<>>, got |-> <<>>, dropped |-> FALSE,
                since |-> appended[st]]]
  /\ UNCHANGED <<streamEvents, streamEventTimes, streamLastAt, streamDoneAt,
                 runs, recorded, appended, completion>>

WriteHistory(c) ==
  /\ sse[c].pc = "history"
  /\ IF sse[c].history = <<>>
     THEN sse' = [sse EXCEPT ![c].pc = "live"]
     ELSE sse' = [sse EXCEPT ![c].history = Tail(@),
                             ![c].got = Append(@, Head(sse[c].history))]
  /\ UNCHANGED <<streamEvents, streamEventTimes, streamLastAt, streamDoneAt,
                 streamSubs, runs, recorded, appended, completion>>

\* Mutant: the last waiting event is left in the channel.
WriteLiveAllButLast(c) ==
  /\ sse[c].pc = "live"
  /\ Len(sse[c].ch) > 1
  /\ sse' = [sse EXCEPT ![c].ch = Tail(@),
                        ![c].got = Append(@, Head(sse[c].ch))]
  /\ UNCHANGED <<streamEvents, streamEventTimes, streamLastAt, streamDoneAt,
                 streamSubs, runs, recorded, appended, completion>>

WriteLive(c) ==
  /\ sse[c].pc = "live"
  /\ sse[c].ch # <<>>
  /\ sse' = [sse EXCEPT ![c].ch = Tail(@),
                        ![c].got = Append(@, Head(sse[c].ch))]
  /\ UNCHANGED <<streamEvents, streamEventTimes, streamLastAt, streamDoneAt,
                 streamSubs, runs, recorded, appended, completion>>

\* Mutant: the channel is closed while the map still names it.
UnsubscribeLater(c) ==
  /\ sse[c].pc = "live"
  /\ sse' = [sse EXCEPT ![c].pc = "unsubscribed", ![c].dropped = FALSE,
                        ![c].since = 0]
  /\ UNCHANGED <<streamEvents, streamEventTimes, streamLastAt, streamDoneAt,
                 streamSubs, runs, recorded, appended, completion>>

\* The request's context is done.  It is looked at in the live loop only, and
\* select may prefer it to a waiting event.  The deferred function first takes
\* the channel out of the map, then closes it.
Unsubscribe(c) ==
  /\ sse[c].pc = "live"
  /\ streamSubs' = [streamSubs EXCEPT ![sse[c].stream] = @ \ {c}]
  /\ sse' = [sse EXCEPT ![c].pc = "unsubscribed", ![c].dropped = FALSE,
                        ![c].since = 0]
  /\ UNCHANGED <<streamEvents, streamEventTimes, streamLastAt, streamDoneAt,
                 runs, recorded, appended, completion>>

CloseChannel(c) ==
  /\ sse[c].pc = "unsubscribed"
  /\ sse' = [sse EXCEPT ![c].pc = "closed", ![c].ch = <<>>, ![c].got = <<>>]
  /\ UNCHANGED <<streamEvents, streamEventTimes, streamLastAt, streamDoneAt,
                 streamSubs, runs, recorded, appended, completion>>

\* Mutant: done streams are left to the pass for idle ones.
DoneNeverCollected(st) == FALSE

\* The two passes of cleanupLoop over the streams.
DoneCollected(st) == Expired(streamDoneAt[st]) /\ streamSubs[st] = {}
IdleCollected(st) ==
  /\ streamDoneAt[st] = None
  /\ Expired(streamLastAt[st])
  /\ streamSubs[st] = {}
Collected == {st \in Streams : DoneCollected(st) \/ IdleCollected(st)}

cleanupLoop ==
  /\ Collected # {}
  /\ streamEvents' = [st \in Streams |->
                        IF st \in Collected THEN <<>> ELSE streamEvents[st]]
  /\ streamEventTimes' = [st \in Streams |->
                        IF st \in Collected THEN 0 ELSE streamEventTimes[st]]
  /\ streamLastAt' = [st \in Streams |->
                        IF st \in Collected THEN None ELSE streamLastAt[st]]
  /\ streamDoneAt' = [st \in Streams |->
                        IF st \in Collected THEN None ELSE streamDoneAt[st]]
  /\ runs' = runs \ Collected
  /\ UNCHANGED <<streamSubs, recorded, sse, appended, completion>>

Tick ==
  /\ streamLastAt' = [st \in Streams |-> Older(streamLastAt[st])]
  /\ streamDoneAt' = [st \in Streams |-> Older(streamDoneAt[st])]
  /\ UNCHANGED <<streamEvents, streamEventTimes, streamSubs, runs, recorded,
                 sse, appended, completion>>

Next ==
  \/ \E st \in Streams : RecordRun(st)
  \/ \E st \in Streams, kind \in Kinds : appendStreamEvent(st, kind)
  \/ \E c \in Clients, st \in Streams : Subscribe(c, st)
  \/ \E c \in Clients :
       WriteHistory(c) \/ WriteLive(c) \/ Unsubscribe(c) \/ CloseChannel(c)
  \/ cleanupLoop
  \/ Tick

Spec == Init /\ [][Next]_vars

\* The clock runs, the ticker of cleanupLoop keeps firing, and a reader's
\* goroutine is scheduled and its writes return: a client that stays connected
\* reads what it is sent (or its connection fails the write, whose error the
\* handler ignores).  Nothing is assumed of workers, nor that a client ever
\* comes or goes.
Fairness ==
  /\ WF_vars(Tick)
  /\ WF_vars(cleanupLoop)
  /\ \A c \in Clients : WF_vars(WriteHistory(c)) /\ WF_vars(WriteLive(c))

FairSpec == Spec /\ Fairness

-----------------------------------------------------------------------------
(* Properties *)

Subscribed(c) == sse[c].pc \in {"history", "live"}

\* What the reader has written, is about to write and has waiting.
Feed(c) == sse[c].got \o sse[c].history \o sse[c].ch

Increasing(s) == \A i, j \in 1..Len(s) : i < j => s[i].n < s[j].n
Contiguous(s) == \A i \in 1..Len(s) : s[i].n = s[1].n + i - 1

(***************************************************************************)
(* The hand-over from the copied log to the live channel of handleRunEvents*)
(* loses nothing and repeats nothing: as long as the channel never         *)
(* overflowed, what a subscribed reader has and will write is a gap-free   *)
(* run of the stream's events up to the newest one.                        *)
(***************************************************************************)
GapFree ==
  \A c \in Clients : Subscribed(c) /\ ~sse[c].dropped =>
    LET f == Feed(c) IN
    /\ Contiguous(f)
    /\ IF f = <<>> THEN appended[sse[c].stream] = sse[c].since
                    ELSE f[Len(f)].n = appended[sse[c].stream]

(***************************************************************************)
(* Even a reader whose channel overflowed, or one that is leaving, never   *)
(* sees an event twice or out of order.                                    *)
(***************************************************************************)
InOrder == \A c \in Clients : Increasing(Feed(c))

(***************************************************************************)
(* The log, the copies of it and the channels keep the promise EventFeed   *)
(* makes to a reader: it starts no further back than the log reaches, it   *)
(* is written event after event, and it misses one only if it had as many  *)
(* events as the channel holds still to be written.                        *)
(***************************************************************************)
Unwritten(c) == sse[c].history \o sse[c].ch

WrittenTo(c) ==
  CASE sse[c].got # <<>> -> sse[c].got[Len(sse[c].got)].n
    [] sse[c].got = <<>> /\ Unwritten(c) # <<>> -> Unwritten(c)[1].n - 1
    [] OTHER -> sse[c].since

Place == [c \in Clients |-> IF Subscribed(c) THEN WrittenTo(c) ELSE 0]
Overrun == {c \in Clients : Subscribed(c) /\ sse[c].dropped}

Stream == INSTANCE EventFeed WITH
  Window <- MaxLog,
  Slack <- ChanCap,
  published <- appended,
  listeners <- streamSubs,
  at <- Place,
  slow <- Overrun

ImplementsEventFeed == Stream!FeedSpec

(***************************************************************************)
(* appendStreamEvent sends on every channel in streamSubs; a send on a     *)
(* closed channel panics the gateway.  Every channel in the map is open,   *)
(* and belongs to a reader of that stream.                                 *)
(***************************************************************************)
NoSendOnClosedChannel ==
  \A st \in Streams : \A c \in streamSubs[st] :
    Subscribed(c) /\ sse[c].stream = st

(***************************************************************************)
(* cleanupLoop finds streams only through streamDoneAt and streamLastAt:   *)
(* whatever a stream holds in the other maps, it has an entry in           *)
(* streamLastAt, so no log and no runs entry escapes the collection, in    *)
(* particular not the one createRun records after the run has finished.    *)
(***************************************************************************)
Reclaimable ==
  \A st \in Streams :
    \/ streamEvents[st] # <<>>
    \/ streamEventTimes[st] # 0
    \/ streamDoneAt[st] # None
    \/ st \in runs
    => streamLastAt[st] # None

(***************************************************************************)
(* streamDoneAt and the log agree: a log that holds a COMPLETED is marked  *)
(* done, and a stream marked done still replays its newest COMPLETED to a  *)
(* late reader, unless MaxLog events that came after it pushed it out.     *)
(***************************************************************************)
Has(s, kind) == \E i \in 1..Len(s) : s[i].kind = kind

Replays(st) ==
  \E i \in 1..Len(streamEvents[st]) :
    streamEvents[st][i] = [n |-> completion[st], kind |-> "completed"]

DoneReplaysCompletion ==
  \A st \in Streams :
    /\ Has(streamEvents[st], "completed") => streamDoneAt[st] # None
    /\ streamDoneAt[st] # None =>
         Replays(st) \/ appended[st] - completion[st] >= MaxLog

(***************************************************************************)
(* A stream nobody reads any more is eventually forgotten by every map:    *)
(* the gateway does not grow with the runs it has served.                  *)
(***************************************************************************)
Forgotten(st) ==
  /\ streamEvents[st] = <<>>
  /\ streamLastAt[st] = None
  /\ streamDoneAt[st] = None
  /\ st \notin runs

EventuallyForgotten ==
  \A st \in Streams : []<>(streamSubs[st] # {} \/ Forgotten(st))

(***************************************************************************)
(* A COMPLETED event that is waiting for a reader, in its copy of the log  *)
(* or in its channel, is written unless the reader leaves first.  One that *)
(* a full channel dropped is not waiting for anybody: that loss is the     *)
(* promise of EventFeed.                                                   *)
(***************************************************************************)
CompletionReachesReader ==
  \A c \in Clients :
    (Subscribed(c) /\ Has(Unwritten(c), "completed"))
      ~> (Has(sse[c].got, "completed") \/ ~Subscribed(c))
=============================================================================
