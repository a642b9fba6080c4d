# A TLA+ model of nano-cloud

nano-cloud is a gateway and a set of workers. A client asks the gateway for a
run of an agent; the gateway hands the request to a worker over a websocket the
worker has dialled; the worker starts the agent in a container and sends its
events back; the gateway keeps them in a log and replays them to readers. These
modules model the parts of it in which order, timing and failure decide whether
the result is right. File names below are relative to `pkg/` of the repository
unless they begin with `cmd/` or `docs/`.

## 1. Inventory

| Component | State | Operations | What is hard |
|---|---|---|---|
| **Control channel** (`server/server.go`) | `workers` (connected sessions), `workerQueue`, `seqCounter`, `runs` | `createRun`, `handleCancelRun`, `DispatchRun`, `DispatchCancel`, `enqueueControl`, `flushWorkerQueue`, `handleWorkerConnect`, `handleWorkerPoll` | Every operation lets go of the mutex between looking up a session, writing to it and falling back to the queue. Writes fail half-way through a flush. Two connections of one worker overlap. Polls compete with the websocket for the queue. The queue is cut at 1000. |
| **Event log and event streams** (`server/server.go`) | `streamEvents`, `streamEventTimes`, `streamLastAt`, `streamDoneAt`, `streamSubs`, one channel per reader | `appendStreamEvent`, `handleRunEvents`, the stream passes of `cleanupLoop`, the bookkeeping of `createRun` | A reader copies the log and goes over to a live channel while events arrive; the channel overflows; a reader leaves and closes a channel others send on; the log is cut; a run is recorded after it has ended. |
| **Keepalive** (`server/server.go`, `worker/worker.go`) | read and write deadlines of both ends, two ping tickers, the heartbeat ticker | pinger goroutines, pong handlers, `heartbeatLoop`, `writeWorkerEnvelope`, `writeEnvelope` | Deadlines persist on the connection and are shared by writers that do not know of each other. |
| **Pairing and worker tokens** (`server/pairing_store.go`, `server/worker_config_store.go`, and the handlers over them) | `pairing_requests.json`, `worker_index.json`, `workers/*.json` | create, poll, approve (by identifier or user code), reject, rotate, delete, validate | Calls change up to three files one after the other; a write fails or the gateway stops in between. Tokens must work once answered and never again once revoked. |
| **Run execution** (`worker/worker.go`, `worker/docker_runner.go`) | `runs`, one `runState` per run, and what the docker daemon holds | `handleRunRequest` in three modes (local process, container, container behind a policy proxy), `handleCancel` | The runner and a canceller race over one flag and over fields the runner fills as docker commands return; five docker commands can fail or be killed, the removals of what they made can fail and their errors are ignored; the connection that carries the run may break, or refuse a write and stay up. |
| **Worker connection** (`worker/worker.go`) | the current connection, the delay before the next attempt | `Start`, `connectAndServe` | Everything started on a connection has its context. |
| **Bootstrap and enrolment** (`worker/bootstrap_remote.go`, `cmd/worker/main.go`) | `state.json` with token and identifier | reuse the saved token, enrol with an enroll token, or create a pairing request and poll it | Lost answers, a stop between the answer and the file, an identifier that is never learnt. |
| **Policy proxy** (`cmd/net-policy-proxy`, `worker/net_allowlist.go`) | the loaded rules; per tunnel two connections and two copying goroutines | load, validate, match, `handleHTTP`, `handleConnect` | Worker and proxy read the same rules in two programs. A name is resolved for the decision and again by the dial. Each copier of a tunnel closes the connection the other one reads. |
| **Console** (`server/server.go`) | `consoleSessions` | login, logout, validation, expiry, creating runs | A session is checked under one lock and deleted under another, and expired ones are also deleted by the clean-up. |
| **Configuration editing** (`worker/config_edit.go`, `worker/config.go`, `cmd/worker/main.go`) | `worker-config.yaml`, `agent-config.yaml` | `config init`, `config set`, quickstart, load, save | The file is cut to nothing before it is written, and an empty file is a valid configuration. |
| **Command line and diagnosis** (`cmd/worker`, `worker/diagnose.go`) | none | start of the worker from a file, enrolment, probes | What the worker announces and what it later finds are computed in two places. |
| **Runtime adapters** (`worker/runtime`, `cmd/runtime-*`) | none | `BuildSpec`: command line, environment and mounts; wrappers that start the agent | A path that is absolute in one place and relative in another. |
| **Start-up, authorization** (`cmd/gateway`, `server/server.go`) | none | routes, token comparison, access log | None. |
| **Protocol messages** (`proto/runtime/v1`) | none | generated | None. |

How they interact: a client's HTTP request reaches the control channel, which
allocates a number, writes to a session or queues; the worker's connection
starts a goroutine per request; the run's goroutine sends events over whatever
connection the worker has at that moment; the gateway's read loop appends them
to the event log; the COMPLETED event takes the run out of `runs`, which a
cancel needs. The token store decides who may connect. The gateway's state is
guarded by one mutex (`GatewayServer.mu`) and the connection's writer mutex,
the store by its own, the worker's run table by another; almost all hazards
come from what is done between two critical sections.

What makes each component right: *control channel* — a request is in one place
at a time, is not doubled and disappears only where the code gives it up; *event
log* — a reader gets each event once and in order, everything is eventually
forgotten; *keepalive* — a healthy connection stays up and writable; *tokens* —
an answered token works, a revoked one never does, whatever interrupts a call;
*runs* — the end is reported once by runner and canceller together, and
everything a run has made is asked back from the docker daemon; *policy proxy* —
a container is connected only on account of a rule, and a tunnel loses nothing
of an answer and is given up on both sides; *console* — no session ends before
its time; *configuration* — no runtime is lost, and what the worker announces it
can start; *gateway as a whole* — a cancel finds the run it is for.
`PROJECT.json` lists the hazards behind these, line by line, with the properties
that would catch them.

## 2. Modules

### StreamLog and EventFeed
One action per critical section of the gateway's mutex, and one per step a
reader's goroutine makes outside it: `RecordRun` (end of `createRun`),
`appendStreamEvent` with its cut of the log and its non-blocking `Offer` to
subscribers, `Subscribe` (copy of the log and registration of the channel, one
critical section), `WriteHistory`, `WriteLive`, `Unsubscribe`, `CloseChannel`,
`cleanupLoop` (both passes in their order) and `Tick`. A time stamp is the age
of what it stamps, saturated at the retention, since the code only compares it
with the retention. Events carry the number of their arrival, which lets the
properties speak of gaps and order; the code has no such number. `completion`
remembers the number of the newest COMPLETED event, so that "pushed out by later
events" can be told from "lost from a full log".

`EventFeed` is the abstract specification, without a log and without channels:
events are published on a stream, a client begins to listen at most `Window`
events back, hears one event after the other, and may miss events only once one
was published when it was `Slack` or more behind. `StreamLog` implements it with
`Window <- MaxLog` and `Slack <- ChanCap`: a client is at the event written to it
last (`Place`), and is slow when its channel has overflowed (`Overrun`).

### ControlChannel and Mailbox
`ControlChannel` has a program counter per dispatched envelope
(`lookup`, `write`, `enqueue`, `record`) and per session
(`hello`, `registered`, `flush`, `requeue`, `read`, `closed`), so that each
unlock in `DispatchRun`, `DispatchCancel`, `flushWorkerQueue` and
`handleWorkerConnect` is a point where others may step in. A write succeeds or
fails freely while the connection is writable and always fails after it has
failed once; a frame on the wire is delivered or lost with the connection
(`PeerGone`), and the gateway's handler notices the end some time later
(`Unregister`). `handleWorkerPoll` takes its batch out and answers; the answer
may not arrive. Dispatch of a run and of a cancel share their steps, as their
code does word for word.

`Mailbox` is the abstract specification: an envelope is outstanding for one
worker until that worker receives it, once, or it is lost. `ControlChannel`
implements it with `outstanding <- Outstanding`, computed from the four places an
envelope can be and from the worker its handler looked up.

### WorkerRun
The goroutine of `handleRunRequest` and the goroutine of `handleCancel`, a step
per docker command and per access to shared fields, in the modes *exec*,
*plain* and *allowlist*. `docker` is what the daemon holds. A docker command
that began under an ended context fails; one whose context ends while it runs
fails too, but what it had asked of the daemon may have happened (`Remains`).
`docker rm` and `docker network rm` may fail as well, and the code ignores that:
each removal leaves the daemon in one of several states (`WithoutAgent`,
`WithoutProxy`, `WithoutNetwork`), and the history field `kept` says of what a
removal that was asked for has failed. A `docker run` that fails may leave its
container in state created. `Disconnect` ends the context of all runs of the
connection; events are written to whatever connection there is (`Send`). A write
may fail at any time, also on a live connection (finding 3), and after one has
failed all fail until the next connection; the code ignores the error, so the
event is gone, COMPLETED included (`refused`). Log lines, mounts, environment
and exit codes are left out.

### Keepalive
Both ends of one connection in seconds: two pingers, the heartbeat, messages at
any time, read deadlines. The network is perfect, so whatever breaks is the
programs' doing. The websocket library is external and modelled as the code
depends on it: a write deadline stays until it is set again, a write after it
fails, and all writes after a failed one fail.

### PairingStore and TokenLife
The three files, and the call that holds the store's mutex between two of its
writes. `Stop` ends a call between two writes: a write failed or the gateway
stopped. Hashes are the tokens they stand for. Ages of requests are three
values, before, at and after the expiry, because the code compares with `After`
in some places and with `Before` in others.

`TokenLife` is the abstract specification, without files: a token starts to
work once, may be handed over once after that, and ends for good. `PairingStore`
implements it with the tokens that `ValidateWorkerToken` accepts (`Working`),
those an approved poll has answered and those a rotation or deletion has revoked.

### Enrollment
Composes the store with the program of one worker. `Bootstrap` reads
`state.json` and decides whether to pair; `Create` and `Poll` are the two
requests of `pair` together with what the gateway does for them
(`CreatePairingRequest` and `PollPairingRequest` of `PairingStore`, in the same
step, followed by the program's use of the answer or by its loss); `Save` is
`writeBootstrapState`. `Dial` is the upgrade, at which `handleWorkerConnect`
looks up the token's worker, and `Hello` its comparison with the identifier in
the hello. These are two steps because the store may change in between.
`Others` is every other step of the store, and `Exit`, `Crash`, `Disconnect`
end the program or its connection at any point. `Reconfigure` is the operator
at rest: another `worker_id`, or a cleared state. The gateway's own token,
which is bound to no worker, is not among `Tokens`.

`PairingStore` is checked here, under the calls that a pairing machine and an
operator really make, and not alone.

### Service
The gateway as its clients see it, over the abstract `Mailbox` (`Mail ==
INSTANCE Mailbox`), which `ControlChannel` is proved to implement: `createRun`
from the API and from the console, the moment it records the run (`RecordRun`,
after the dispatch), `handleCancelRun`, workers that connect, drop and are
unregistered by a handler that is late, their events on the wire (`HandleEvent`)
if the write of them is accepted, both passes of `cleanupLoop` in one step, and
console sessions with the read lock and the write lock of `consoleSessionValid`
as two steps. Of `WorkerRun` only the beginning, the end and the report of a run
remain (`agent`), of `StreamLog` what decides when a run is forgotten. It shows
what no component shows alone: which cancels are accepted, where they go, and
what becomes of them.

### PolicyProxy and Launch
`PolicyProxy` is the proxy's program: `LoadRules`, the decision with whatever
the resolver answers (`Decide`), the connection to whatever it answers the
second time (`ConnectTo`, in `Dial` and in `handleHTTP`), the two copiers with
their half-closed ends, and the two ends themselves. Names and addresses are
plain values; the constants `Under` and `Block` say which name lies under which
and which address in which block, so that every hierarchy is covered by the
proofs.

`Launch` extends it with the way from the configuration file to a running agent.
The commands write in two steps (`SaveConfig`, `FinishSaving`) and may be
killed, or fail, between them, one command at a time; `StartWorker` loads what
is there; `handleRunRequest` finds the entry of the runtime, builds the mount of
the agent's configuration, checks the rules and chooses the network, refusing in
the order of the code with the code's error. What docker does after that is in
`WorkerRun`. A configuration keeps the fields these decisions read; the key of a
runtime is the runtime it is normalised to and the form it is written in (as the
gateway spells it, with dashes, or otherwise).

## 3. Runs

| Run | Instance | What it shows |
|---|---|---|
| `StreamLog` | 1 stream, 2 readers, a log of 2, channels of 1, 3 events | Type, gap-free hand-over, no send on a closed channel, COMPLETED replayed until as many later events as the log holds, refinement of `EventFeed`; under fairness, everything forgotten and COMPLETED written to a reader that stays. |
| `ControlChannel` | 1 worker, 2 sessions, 1 run and 2 cancels, a queue of 2, polls of 1 | Type, the registry names only live handlers, one copy of each request, refinement of `Mailbox`; under fairness, every dispatched request is received, given up, or rests in the queue with no connection that has still to flush it. 274,634 states, the slowest run with two minutes. |
| `Reconnect` | the same with 1 cancel and a queue of 1 | Finding: a worker that has reconnected is taken out of the map. |
| `WorkerRun` | 1 run in each mode, 2 connections | One attempt to send COMPLETED, and one unless the connection is lost, clean end and cancel but for what docker refused to remove and the named exceptions; under fairness, every run comes to its report. |
| `ProxyTornDown` | 1 run, 1 connection | Finding: a cancel can leave the proxy running. |
| `Keepalive` | the code's 60, 10 and 5 seconds, 130 seconds | A connection breaks only after a refused write, and serves until the first one can come. |
| `WriteDeadline` | the same | Finding: messages are refused from 10 s after a ping. |
| `Enrollment` | 2 requests, 1 worker record, 2 tokens, 1 machine | Types, approved tokens work, the files agree, a token is delivered once, refinement of `TokenLife`; a connection is registered only under the identifier of its token; a machine that polls stops polling. |
| `PairedWorker` | 2 requests, 2 worker records, 2 tokens, 1 machine | Finding: a machine that has paired says hello with another identifier. |
| `Service` | 1 worker that supports CUSTOM, 1 run with 1 cancel and 1 event before its end, 1 lost connection, 2 console sessions, 1 request, a retention of 2, a session of 1 | A recorded run is forgotten only when it is over or silent, a cancel follows its run, a console session lives its term; under fairness, a cancel its worker has received ends its run, unless it came before it. |
| `Launch` | 2 names, one under the other, 2 addresses, 1 block, ports 0, 443 and 8443, 11 rules, 4 sets of runtimes, 2 bytes from each end of a tunnel | Accepted rules load, a container is connected only on account of a rule, a routed run finds its runtime, runtimes are lost only by an interrupted command, an answer arrives whole; under fairness, a tunnel is given up. |
| `AgentConfig` | the same | Finding: the quickstart's path for the agent's configuration is relative. |

*Why the bounds are enough.* Streams share no state in `StreamLog` except the
readers, so one stream with two readers has every interaction; three events
overflow both a log of two and a channel of one, with one event to spare after
the cut. In `ControlChannel` two sessions are what an overlap of an old and a
new connection needs; three envelopes overflow a queue of two, and a poll limit
of one leaves some behind. Queues are per worker and a session belongs to one
worker, so a second worker adds nothing that interacts; that no request strays
to it is part of the refinement, which is proved for any number of workers. In
`WorkerRun` runs share only the connection, and a second connection is what a
lost one needs. In `Keepalive` 130 seconds contain two full ping periods of both
ends, after which the pattern repeats. In `Enrollment` two requests let the
machine pair a second time, or another machine compete with it; one worker
record and two tokens make one approval and one rotation, and the identifiers
`own` and `fresh` are the wrong ones a hello can carry. In `Service` one lost
connection makes a worker leave, return and be unregistered by its old handler;
a retention of two and a session of one let something be younger than, at and
past its limit; two sessions let a browser log in anew while a request still
holds the old one. In `Launch` the rules are one for each case of the
validation, the loading and the matching, and each is tried against every
destination; two bytes let a copier be behind by one. Runs of `Launch` and
connections of its proxy do not influence each other, so one of each is enough.
The safety properties of all these runs are proved for every instance (section
5), so that the bounds matter for liveness and for the findings. Deadlock is not
checked: all these systems may come to rest when the bounds are used up or when
everybody is done.

*Fairness.* Weak fairness with one exception, for what the scheduler or a ticker
guarantees and for what is said below of the environment. Goroutines that can
run do run (`RunnerStep`, `CancelStep`, `Handlers`, `Serve`, `ServeCancel`,
`Report`, the copiers of a tunnel and its `Dial`), the clock and the clean-up
ticker go on (`Tick`, `cleanupLoop`, `Age`), and a call that holds the store's
mutex finishes or fails. The one strong fairness is that of an answered poll in
`Enrollment`: the poller asks every two seconds, some answers arrive, and
`sync.Mutex` does not pass a waiting goroutine over forever, though the mutex is
taken again and again.

Of the environment this is assumed, because the code does not enforce it. A
connected worker reads (`Deliver` of `ControlChannel`; what it does not read is
lost when the connection ends). A client that stays connected to an event
stream reads, so that the writes to it return (`WriteHistory`, `WriteLive`).
Both ends of a tunnel read what they are sent (`CopyUp`, `CopyDown`). Agents end
(`AgentExits`): `docker wait` has no time limit and the run's `timeout_seconds`
is only passed to the agent; the nano agent's wrapper ends itself after it
(`cmd/runtime-nano-agent/main.go:51`), other images need not.

Not assumed: that anybody polls for a worker (the worker program never does, so
`Poll` has no fairness), that a request reaches its worker (`Receive` in
`Service` has none: a request enqueued after the flush rests in the queue of a
connected worker), that connections last or are made again, that clients come
or go, and that a worker's writes are accepted.

## 4. Findings

1. **A reconnected worker is taken out of the map** (`Reconnect`).
   `handleWorkerConnect` deletes `workers[workerID]` when its read loop ends
   (`server/server.go:487`) without asking whose session is there. A worker
   that reconnects before the gateway notices the end of the old connection is
   removed while its new connection is served; requests then go to the queue,
   and nothing flushes it until the next connection.
2. **A cancel can leave the proxy running** (`ProxyTornDown`). The canceller
   looks at `rs.netProc` while `docker run` of the proxy has not returned; the
   runner's error path removes only the network (`worker/worker.go:744`).
   `docs/SECURITY-HARDENING.md:164` says that the proxy is torn down.
3. **The ping's write deadline hits every other write** (`WriteDeadline`).
   Only the pingers set a write deadline, 10 s ahead every 54 s
   (`server/server.go:456`, `worker/worker.go:245`); between second 64 and 108
   every other write is refused for good, and the connection ends at a read
   deadline although both ends are alive.
4. **A paired worker cannot connect** (`PairedWorker`). Approval binds the
   token to a new UUID (`server/pairing_store.go:178`), but the answer to the
   poll has no identifier (`server/pairing_handlers.go:25`), so
   `worker/bootstrap_remote.go:216` stores the token alone, `Start` makes up
   `worker-<time>` (`worker/worker.go:170`) and the gateway hangs up on it
   (`server/server.go:431`) at every attempt. The comment of
   `BootstrapFromRemote` (line 49) says that the Config is populated with the
   worker's identifier. Only a `worker_id` copied from the console's list into
   the configuration, with a cleared state if that was saved with another
   identifier, makes the worker acceptable; `Reconfigure` is that repair.
5. **The quickstart's agent does not get its configuration** (`AgentConfig`).
   `BuildQuickstart` writes the relative `agent-config.yaml`
   (`worker/config_edit.go:167`), `handleRunRequest` keeps it
   (`worker/worker.go:541`), `BuildSpec` makes it the source of a mount
   (`worker/runtime/base.go:59`), and docker takes a source that is not a path
   for the name of a volume. `worker/runtime/interface.go:36` says that it is an
   absolute path.

Exceptions written into passing properties, because the code has them on paths
that nothing in the repository promises otherwise: a workspace that cannot be
made is reported without asking the flag `done` (`CompletedOnce`); what docker
refuses to remove stays, since nobody looks at those errors, and so do the
container that a failed `docker run` has created, the network when the allowlist
file cannot be written, and the agent's container, with its network, when
`docker wait` fails (`CleanEnd`); a cancel during a docker command or after a
lost connection may leave something behind (`CancelTearsDown`); a COMPLETED whose
write is refused is lost although the connection lives on, so that a run may be
over and the gateway not know (`NoSilentEnd` and `EveryRunReports` promise the
attempt, not the arrival); a request that was enqueued after its worker's flush,
or put back by a failed one, rests in the queue while the worker is connected
(`EventuallySettled`); the dial of a name resolves it again, so that under an
address rule a container may be connected to an address that the decision did
not see (`OnlyListed`); a worker that
supports CUSTOM attracts runs it has no entry for, and a key written in a way
the lookup does not try is announced but not found (`RoutedIsConfigured`), a
command killed while it writes, or whose write fails, loses the configuration
(`RuntimesLostOnlyByKill`). Not a property, because nothing in the repository
speaks of it: a request rejected after its approval keeps answering its token,
and two runs of one configured runtime that start together write one map of
environment variables without a lock (`worker/worker.go:518`).

## 5. Theorems

The proofs hold for every value of the constants that the modules' named
assumptions allow: positive capacities, poll sizes and retentions
(`StreamLogAssumption`, `ControlChannelAssumption`, `ServiceAssumption`), a
`None` or `Nobody` that is none of the values (`PairingStoreAssumption` and
others), periods of at least a second and `PongWait` of at least two
(`KeepaliveAssumption`), at least one connection (`WorkerRunAssumption`), two
identifiers of the machine that are not the store's (`EnrollmentAssumption`),
names that are not addresses and any relation between names, addresses and
blocks (`AddressesAssumption`), and
hand-written configurations that list at least one runtime (`LaunchAssumption`).
That nine tenths of `PongWait` is less than `PongWait` is proved. Nothing else
is assumed. Each module's `TypeOK` is proved first and used by everything that
follows.

**StreamLog_proofs.** `TypeCorrect` is inductive as it stands; its lemmas bound
what `KeepLast`, `Older` and `Offer` return. `ChannelsOpen`
(`NoSendOnClosedChannel`) is inductive together with the type: a reader is
subscribed only while its goroutine is in the history or live phase, and
unsubscribing and closing are separated by the mutex. `AllReclaimable` needs
the type only. `CompletionReplayed` (`DoneReplaysCompletion`) goes with
`LogNumbered` (below): the log holds the newest events of its stream without a
gap, and the cut removes the oldest of a full log (`KeepLastKeeps`), so a
COMPLETED it removes is as many events old as the log holds. `ReadersInOrder`
(`InOrder`) and `ReadersGapFree` (`GapFree`) are about a reader's feed, what it
has got followed by what still waits for it. `ReaderPhases` says where a reader
can be with which part of its feed, `LogNumbered` that the log holds the newest
events of its stream without a gap, and `FeedBounded` that no feed is ahead of
its stream; a step then leaves a feed alone, starts it from the log, or adds the
next event to it. `LogImplementsEventFeed` (`ImplementsEventFeed`) follows the
same feeds: each step of the model is one of `EventFeed` or a stutter
(`NextFeed`). It needs `LogWithin` (a log never holds more events than there
have been) and `DropSeen` (a reader that has missed an event has others behind
it or before it, so that its place is known); `Behind` computes from the feed
how far back a reader is when its channel is full.

**Keepalive_proofs.** `KeptOpen` (`BreaksOnlyAfterRefusal`) is not inductive:
that the connection is up says nothing of the next deadline. The strengthening
`PingsInTime` says that, while no write has been refused, both pingers run and
each will ping before the read deadline of its own end, which the pong then
moves. It holds for every `PongWait`, not just the 60 seconds of the run.
`GoodForAWhile` (`ServesAtFirst`) bounds from below what finding 3 leaves of a
connection. Its invariant `Young` says of each end that it has not pinged and
its write deadline is not set yet (`FirstPing`), or that it has, and then names
the earliest both deadlines can be (`Pinged`).

**PairingStore_proofs.** The three safety properties are proved together by
`IInv`. They need `Generated` (what is stored or handed out was generated, so a
new token is new everywhere), `Unshared` (a token is in one record and one
request at most, so revoking one worker's token cannot revoke another's) and
`Underway` (what the writes already made by an interrupted call have
established, and that an approval's or a rotation's token is in no request and
not revoked until the last write: without it the last write of an approval
could show a token that does not work). There is one lemma per action; polls,
creation, ageing and rejection share `ShrinkStep`, since they only take tokens
out of the requests. `IndexAgrees` (`FilesAgree`) adds `AgreeUnderway`, which
says how far the files differ at each point of a call.
`StoreImplementsTokenLife` (`ImplementsTokenLife`) shows for each write of each
call what it does to the accepted tokens: nothing, but for the index in an
approval and the record in a rotation, which make one token work that never
worked before, and the writes that end one. `IInv` excludes the rest: a token
that two workers share, or one that is new in one file and old in another.

**Enrollment_proofs.** Every step of `Enrollment` takes a step of the store or
leaves it alone, so `StoreKeepsPromises` gives the store's five properties again
under the calls that a pairing machine makes, from the lemmas of
`PairingStore_proofs`, and `EnrollmentImplementsTokenLife` the refinement.
`EnrollmentTypeCorrect` needs that an approved request
carries a token (`ApprovedWithToken`), or the machine would connect without one.
`ConnectionIsTokens` (`IdentityBound`) follows the token from its record to the
hello: it was made for the worker that the gateway looks up, unless it has been
revoked since (`MadeFor`), and from the upgrade on the gateway's expectation and
the machine's memory name that pair (`TokenBound`).

**ControlChannel_proofs.** Envelopes are held by queues, by the rest of a flush
and by the wire of a session (`Holders`). Every step makes two holders exchange
what they hold and perhaps take in something new (`Exchange`), so that no step
makes a copy; `Rank` and `EntriesAt` say what a poll takes out of a queue and
leaves in it, in order. `InPlace` adds to the shapes of the state (`Fits`) that
an envelope is with its dispatching handler or with one holder once
(`OnePlace`), that nothing in flight is settled, and that what was never
dispatched is nowhere. `NoSecondCopy` (`AtMostOneCopy`) is part of it.
`NamedHandlersServe` (`RegistryNamesLiveHandler`) is inductive together with
`InPlace`, and both are needed for `WorkersFit`, which is about whom a request is
for: every queue, session and receiver holds requests dispatched to its worker
(`Addressed`), a handler about to write has looked up a session of the worker it
dispatches to (`WritesFit`), and `runs` names the worker a stream was sent to
(`RunsFit`). `StreamsKeepTheirWorker` follows: a run request and its cancels are
received by one worker, which is what `Service` takes for granted when it gives
its envelopes a worker. For `ChannelImplementsMailbox` each action is shown to
leave the flight as it is, to start one envelope or to settle some (`Stays`,
`Starts`, `Settles`), and these are a stutter, a dispatch and a delivery or a loss
of `Mailbox`; that a delivery is to the right worker comes from `WorkersFit`
(`SettledForWorker`). The refinement holds for every number of workers,
connections and cancels.

**WorkerRun_proofs.** Each step is a step of one run's goroutine, of its
canceller, or of the connection (`OneRun`), so invariants are stated for one run.
`EndReportedOnce` (`CompletedOnce`) needs who may still report the end:
`ClaimsInv` ties the flag `done` to the goroutine that has claimed the end, and
`BudgetInv` counts the reports that are made and those that can still be made.
`NothingLeftAtEnd` (`CleanEnd`) and `CancelLeavesNothing` (`CancelTearsDown`)
follow from `TeardownInv`: how a run is started goes with where its goroutine is
(`ModeFits`), as long as nothing has ended its context its `runState` names
every container and network that docker has not refused to remove (`Tidy`), and
after a cancel that came outside a docker command what is left is named and
still to be removed (`Torn`). The three removal operators give sets of states;
`AgentRemovals`, `ProxyRemovals` and `NetworkRemovals` say what is true of each
state in them, a failed removal included. `EndAlwaysReported` (`NoSilentEnd`) is
the other half of `EndReportedOnce`. Its invariant `Told` says that an end that
has been claimed has come to its write, which succeeded or was refused, or that
the canceller is on its way there, and that a runner whose connection held
returns only when the end has been claimed or reported. `SendEffect` says what
a write leaves behind when only a prefix of what it should write gets through.

**Launch_proofs.** `RulesAccepted` (`AcceptedRulesLoad`) compares the validation
in the worker with the loading in the proxy rule by rule. `PolicyHolds`
(`OnlyListed`) rests on `RunStands` (a run has the network its policy calls for)
and `ProxyFollows` (the proxy serves the rules the run was accepted with, and
nothing passes without its decision), `ConnectionFollows` (a connection is made
for a request that was let through, to the address itself where one was asked
for), and `AllowedIsListed` says what a decision means, for every hierarchy of
names and blocks. The address that the dial of a name ends at is whatever the
resolver answers then, and nothing is claimed of it. `RoutedFindsEntry`
(`RoutedIsConfigured`) shows that the lookup finds what the hello announced,
apart from the two exceptions in section 4. `RuntimesKept`
(`RuntimesLostOnlyByKill`) needs that nothing which could lose them is about to
be written (`NothingLost`). `AnswersComplete` (`AnswerComplete`) needs the order
in which the two copiers may close (`AnswerCopied`).

**Service_proofs.** `CancelsFollow` (`CancelFollowsRun`): the worker a run is
recorded for is the one its request was sent to (`PlacedIsSent`).
`SessionsLast` (`SessionLivesItsTerm`) is an action property: identifiers are
given out once, so that the session a request has found expired is still the
expired one, or gone, when the request comes to delete it under the second lock
(`HeldIsExpired`). `KnownWhileHeard` (`KnownUntilSilent`): a run whose COMPLETED
is on its way is over (`CompletedIsOver`), and a stream at the end of the
retention has been noticed (`SilenceNoticed`).

**Only model-checked.** The liveness properties `EventuallyForgotten`,
`CompletionReachesReader`, `EventuallySettled`, `EveryRunReports`,
`PairingEnds`, `CancelSettles` and `TunnelReleased`, because the prover cannot
reason about fairness and `ENABLED`, and the findings, which are
counterexamples. Every safety property of the passing runs and the three
refinements are proved. What a recursive definition computes for all inputs
needs an induction over data that the installed provers cannot apply; no module
has such a definition.

**Only proved.** Some theorems state what no run checks by itself, because a
property that the runs do check says it too: `RevocationIsFinal` follows from
`ImplementsTokenLife`, `InOrder` from `ImplementsEventFeed` for what is written,
`Reclaimable` is the safety side of `EventuallyForgotten`, `EnrollmentTypeOK`
contains the `TypeOK` of `PairingStore`, and `OneWorkerPerRun` is about a second
worker.

## 6. What is not modelled

* *Console pages*: rendering. The sessions behind them are in `Service`.
* *Configuration files*: parsing and layout of YAML, and the agent's own file
  (`agent-init`, `agent-set`), which decides nothing about a run here.
* *Diagnosis*: probes and prints, and keeps no state.
* *Wrappers of runtimes*: each starts one process and passes its output on.
* *Start-up and authorization*: stateless per request.
* *Protocol messages*: generated.
* *Reconnection delay* (`worker/worker.go:190-213`): a local variable that grows
  and is never set back; no state of the system depends on it.
* *Enrolling with an enroll token*: the worker can ask for it, the gateway has
  no route for it, so that `Exit` is its only outcome. `LOCAL_DEBUG.md:41-55`
  still describes it; `docs/SECURITY-HARDENING.md:197` describes pairing.
* *Plain proxied requests*: the headers that are copied or dropped. The decision
  about them is that of a tunnel (`Decide`).
* *A rules file that the proxy cannot read or parse*
  (`cmd/net-policy-proxy/main.go:38-45`): the worker writes it and mounts it
  just before, and `AcceptedRulesLoad` is about the rules in it.
* *Configuration commands at the same time*: they run one after the other. A
  `os.WriteFile` that fails after cutting the file counts as an interrupted
  command (`KillCommand`).
* *A run's surroundings*: the lines of its log, its environment variables and
  its mounts apart from the agent's configuration, its exit code, and its time
  limit (see fairness). The map of environment variables that runs of one
  runtime share (`worker/worker.go:518`) is mentioned in section 4.

## 7. Plan

What could be added, in this order:

1. `Service` with the whole of `WorkerRun` and `StreamLog` in the place of what
   it keeps of them, as `Mailbox` stands for `ControlChannel`: an abstract run
   (accepted, started, one end, then forgotten) that `WorkerRun` is shown to
   implement.
2. Two runs of one configured runtime that start together, with the map they
   share.
3. Liveness on larger instances: two runs in `Service`, a second worker in
   `ControlChannel`.
