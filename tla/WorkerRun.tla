------------------------------ MODULE WorkerRun ------------------------------
(***************************************************************************)
(* A run on the worker (pkg/worker/worker.go: connectAndServe,             *)
(* handleRunRequest, handleCancel; pkg/worker/docker_runner.go).           *)
(*                                                                         *)
(* A run request and a cancel request are served by goroutines of their    *)
(* own, which share the run's runState: the flag done decides who reports  *)
(* the end, the other fields are written by the runner after the docker    *)
(* command that fills them has returned and read by the canceller whenever *)
(* it gets there.  The runner's context ends with the cancel or with the   *)
(* connection the request came on; docker commands then fail, but what the *)
(* killed command had asked of the daemon may still happen.                *)
(***************************************************************************)
EXTENDS Integers, Sequences, FiniteSets

CONSTANTS
  Runs,           \* stream identifiers; each is requested once
  MaxConnections  \* bound: connections of the worker to the gateway

ASSUME WorkerRunAssumption == MaxConnections \in Nat \ {0}

VARIABLES
  connected,    \* w.conn is a working connection
  connections,  \* how many there have been
  registered,   \* keys of w.runs
  run,          \* [Runs -> the goroutine of handleRunRequest and its runState]
  docker,       \* [Runs -> external: what the docker daemon holds for the run]
  canceller,    \* [Runs -> the goroutine of handleCancel]
  writable,     \* no write has failed on this connection yet
  sent,         \* [Runs -> kinds of the run events that were written to it]
  refused       \* history: runs of which a write of COMPLETED has failed

out == <<writable, sent, refused>>
vars == <<connected, connections, registered, run, docker, canceller, out>>

\* How runtimeCfg.Runner and the network policy have the agent started.
Modes == {"exec", "plain", "allowlist"}

RunnerPC ==
  {"idle", "spawned", "start", "workspace", "prepare", "execStart", "execWait",
   "netCreate", "allowlistFile", "proxyRun", "netConnect", "agentRun", "wait",
   "complete", "returned"}

\* History: "cut" says that the connection was lost during the run, "fault"
\* which of some error paths it took, "cancelledAt" where the runner was
\* when a cancel took effect.
RunState ==
  [pc : RunnerPC, mode : Modes,
   ctx : BOOLEAN,      \* ctx.Err() == nil
   doomed : BOOLEAN,   \* the docker command began after ctx had ended
   done : BOOLEAN,
   proc : BOOLEAN, netProc : BOOLEAN, netName : BOOLEAN,  \* field is set
   cut : BOOLEAN,
   fault : {"none", "workspace", "allowlist", "proxyRun", "agentRun", "wait"},
   cancelledAt : RunnerPC]

Container == {"absent", "created", "running", "exited"}

\* In exec mode "agent" is the local process.  History: "kept" says of what
\* a removal that the worker asked for has failed.
Daemon == [agent : Container, proxy : Container, network : BOOLEAN,
           kept : SUBSET {"agent", "proxy", "network"}]

CancelPC ==
  {"none", "spawned", "found", "agent", "proxy", "network", "report",
   "finished"}

EventKind == {"status", "error", "completed"}

TypeOK ==
  /\ connected \in BOOLEAN
  /\ connections \in 1..MaxConnections
  /\ registered = {r \in Runs :
                     run[r].pc \notin {"idle", "spawned", "returned"}}
  /\ run \in [Runs -> RunState]
  /\ docker \in [Runs -> Daemon]
  /\ canceller \in [Runs -> CancelPC]
  /\ writable \in BOOLEAN /\ (writable => connected)
  /\ sent \in [Runs -> Seq(EventKind)]
  /\ refused \subseteq Runs

Init ==
  /\ connected = TRUE
  /\ connections = 1
  /\ registered = {}
  /\ run \in [Runs -> [pc : {"idle"}, mode : Modes, ctx : {TRUE},
                       doomed : {FALSE}, done : {FALSE}, proc : {FALSE},
                       netProc : {FALSE}, netName : {FALSE}, cut : {FALSE},
                       fault : {"none"}, cancelledAt : {"idle"}]]
  /\ docker = [r \in Runs |->
                 [agent |-> "absent", proxy |-> "absent", network |-> FALSE,
                  kept |-> {}]]
  /\ canceller = [r \in Runs |-> "none"]
  /\ writable = TRUE
  /\ sent = [r \in Runs |-> <<>>]
  /\ refused = {}

-----------------------------------------------------------------------------
(* The connection *)

\* connectAndServe returns, which ends the context of every run it started.
Disconnect ==
  /\ connected
  /\ connected' = FALSE
  /\ run' = [r \in Runs |->
       IF run[r].pc = "idle" THEN run[r]
       ELSE [run[r] EXCEPT !.ctx = FALSE, !.cut = TRUE]]
  /\ writable' = FALSE
  /\ UNCHANGED <<connections, registered, docker, canceller, sent, refused>>

Reconnect ==
  /\ ~connected
  /\ connections < MaxConnections
  /\ connected' = TRUE
  /\ connections' = connections + 1
  /\ writable' = TRUE
  /\ UNCHANGED <<registered, run, docker, canceller, sent, refused>>

\* Goroutines write to whatever connection there is and ignore errors.  Any
\* write may fail, since the pinger's write deadline is still set between two
\* pings, and after one has failed all do until the next connection.
Send(r, kinds) ==
  \E n \in 0..Len(kinds) :
    LET lost == {kinds[i] : i \in (n + 1)..Len(kinds)}
    IN  /\ n = 0 \/ writable
        /\ writable' = (writable /\ lost = {})
        /\ sent' = [sent EXCEPT ![r] = @ \o SubSeq(kinds, 1, n)]
        /\ refused' = IF "completed" \in lost THEN refused \cup {r} ELSE refused

RunArrives(r) ==
  /\ connected
  /\ run[r].pc = "idle"
  /\ run' = [run EXCEPT ![r].pc = "spawned"]
  /\ UNCHANGED <<connected, connections, registered, docker, canceller, out>>

CancelArrives(r) ==
  /\ connected
  /\ canceller[r] = "none"
  /\ canceller' = [canceller EXCEPT ![r] = "spawned"]
  /\ UNCHANGED <<connected, connections, registered, run, docker, out>>

-----------------------------------------------------------------------------
(* Steps of handleRunRequest *)

\* ctx.Err() != nil || rs.done.Load()
Stopped(r) == ~run[r].ctx \/ run[r].done

Goto(r, pc) == [run[r] EXCEPT !.pc = pc, !.doomed = ~run[r].ctx]

\* Mutant: an early return without the deferred function.
ReturnRegistered(r) ==
  /\ run' = [run EXCEPT ![r].pc = "returned"]
  /\ registered' = registered

\* The deferred function takes the run out of w.runs.
Return(r) ==
  /\ run' = [run EXCEPT ![r].pc = "returned"]
  /\ registered' = registered \ {r}

\* sendError; reporting the end comes next.
Fail(r, state) ==
  /\ run' = [run EXCEPT ![r] = [state EXCEPT !.pc = "complete"]]
  /\ Send(r, <<"error">>)
  /\ UNCHANGED registered

\* What a docker command can have come to: it fails when the context had
\* ended before it began, and may have had its effect although it was killed.
CanSucceed(r) == ~run[r].doomed
CanBeKilledLate(r) == ~run[r].doomed /\ ~run[r].ctx

Remains(r) ==
  {"absent"} \cup (IF CanSucceed(r) THEN {"created"} ELSE {})
             \cup (IF CanBeKilledLate(r) THEN {"running"} ELSE {})

\* docker rm -f, which the canceller has follow a docker stop.  Errors are
\* ignored, so that each removal leaves the daemon in one of several states.
Removals(d, c) ==
  {[d EXCEPT ![c] = "absent"]}
  \cup {[d EXCEPT ![c] = s, !.kept = @ \cup {c}] :
          s \in {d[c]} \cup (IF d[c] = "running" THEN {"exited"} ELSE {})}

WithoutAgent(D) == UNION {Removals(d, "agent") : d \in D}
WithoutProxy(D) == UNION {Removals(d, "proxy") : d \in D}

\* docker network rm fails by itself, for a container that could not be
\* removed (both go into kept), or for one that is simply still running.
Users(d) == {c \in {"agent", "proxy"} : d[c] = "running"}

WithoutNetwork(D) ==
  {[d EXCEPT !.network = FALSE] : d \in {e \in D : Users(e) = {}}}
  \cup {[d EXCEPT !.kept = @ \cup {"network"}] : d \in D}
  \cup {d \in D : ~(Users(d) \subseteq d.kept)}

\* docker is left in one of the states D.
Settle(r, D) == \E d \in D : docker' = [docker EXCEPT ![r] = d]

Register(r) ==
  /\ run[r].pc = "spawned"
  /\ registered' = registered \cup {r}
  /\ run' = [run EXCEPT ![r].pc = "start"]
  /\ UNCHANGED <<docker, out>>

Begin(r) ==
  /\ run[r].pc = "start"
  /\ \/ Stopped(r) /\ Return(r) /\ UNCHANGED out
     \/ /\ ~Stopped(r)
        /\ run' = [run EXCEPT ![r].pc = "workspace"]
        /\ Send(r, <<"status">>)
        /\ UNCHANGED registered
  /\ UNCHANGED docker

\* A workspace that cannot be made is reported without a look at done.
MakeWorkspace(r) ==
  /\ run[r].pc = "workspace"
  /\ \/ /\ run' = [run EXCEPT ![r].pc = "prepare"]
        /\ UNCHANGED <<registered, out>>
     \/ /\ run' = [run EXCEPT ![r].pc = "returned", ![r].fault = "workspace"]
        /\ registered' = registered \ {r}
        /\ Send(r, <<"error", "completed">>)
  /\ UNCHANGED docker

\* Runtime lookup, adapter and spec, image, allowlist rules: each may fail.
Prepare(r) ==
  /\ run[r].pc = "prepare"
  /\ \/ Fail(r, run[r])
     \/ /\ run' = [run EXCEPT ![r] = Goto(r,
             CASE run[r].mode = "exec"      -> "execStart"
               [] run[r].mode = "plain"     -> "agentRun"
               [] run[r].mode = "allowlist" -> "netCreate")]
        /\ UNCHANGED <<registered, out>>
  /\ UNCHANGED docker

ExecStart(r) ==
  /\ run[r].pc = "execStart"
  /\ \/ Stopped(r) /\ Return(r) /\ UNCHANGED <<docker, out>>
     \/ ~Stopped(r) /\ Fail(r, run[r]) /\ UNCHANGED docker
     \/ /\ ~Stopped(r)
        /\ docker' = [docker EXCEPT ![r].agent = "running"]
        /\ run' = [run EXCEPT ![r].pc = "execWait"]
        /\ Send(r, <<"status">>)
        /\ UNCHANGED registered

ExecWait(r) ==
  /\ run[r].pc = "execWait"
  /\ docker[r].agent = "exited"
  /\ docker' = [docker EXCEPT ![r].agent = "absent"]
  /\ run' = [run EXCEPT ![r].pc = "complete"]
  /\ UNCHANGED <<registered, out>>

NetCreate(r) ==
  /\ run[r].pc = "netCreate"
  /\ \/ /\ CanSucceed(r)
        /\ docker' = [docker EXCEPT ![r].network = TRUE]
        /\ run' = [run EXCEPT ![r].pc = "allowlistFile", ![r].netName = TRUE]
        /\ UNCHANGED <<registered, out>>
     \/ /\ \/ UNCHANGED docker
           \/ /\ CanBeKilledLate(r)
              /\ docker' = [docker EXCEPT ![r].network = TRUE]
        /\ Fail(r, run[r])

\* The rules are written to the workspace; the network stays if that fails.
WriteAllowlist(r) ==
  /\ run[r].pc = "allowlistFile"
  /\ \/ Fail(r, [run[r] EXCEPT !.fault = "allowlist"])
     \/ run' = [run EXCEPT ![r] = Goto(r, "proxyRun")]
        /\ UNCHANGED <<registered, out>>
  /\ UNCHANGED docker

ProxyRun(r) ==
  /\ run[r].pc = "proxyRun"
  /\ \/ /\ CanSucceed(r)
        /\ docker[r].network
        /\ docker' = [docker EXCEPT ![r].proxy = "running"]
        /\ run' = [run EXCEPT ![r] = [Goto(r, "netConnect") EXCEPT !.netProc = TRUE]]
        /\ UNCHANGED <<registered, out>>
     \/ /\ \E left \in Remains(r) :
             Settle(r, WithoutNetwork({[docker[r] EXCEPT !.proxy = left]}))
        /\ Fail(r, [run[r] EXCEPT !.fault = "proxyRun"])

NetConnect(r) ==
  /\ run[r].pc = "netConnect"
  /\ \/ /\ CanSucceed(r)
        /\ docker[r].proxy = "running"
        /\ run' = [run EXCEPT ![r] = Goto(r, "agentRun")]
        /\ UNCHANGED <<registered, docker, out>>
     \/ /\ Settle(r, WithoutNetwork(WithoutProxy({docker[r]})))
        /\ Fail(r, run[r])

\* A cancelled or disconnected run returns at once and removes nothing.
AgentRun(r) ==
  /\ run[r].pc = "agentRun"
  /\ \/ /\ CanSucceed(r)
        /\ run[r].mode = "allowlist" => docker[r].network
        /\ docker' = [docker EXCEPT ![r].agent = "running"]
        /\ run' = [run EXCEPT ![r] = [Goto(r, "wait") EXCEPT !.proc = TRUE]]
        /\ Send(r, <<"status">>)
        /\ UNCHANGED registered
     \/ \E left \in Remains(r) :
          LET d == [docker[r] EXCEPT !.agent = left]
          IN  \/ /\ Stopped(r)
                 /\ docker' = [docker EXCEPT ![r] = d]
                 /\ Return(r)
                 /\ UNCHANGED out
              \/ /\ ~Stopped(r)
                 /\ Settle(r, IF run[r].mode = "allowlist"
                              THEN WithoutNetwork(WithoutProxy({d})) ELSE {d})
                 /\ Fail(r, [run[r] EXCEPT !.fault = "agentRun"])

\* Mutant: the proxy is left to docker.
WaitKeepsProxy(r) ==
  /\ run[r].pc = "wait"
  /\ CanSucceed(r)
  /\ docker[r].agent # "running"
  /\ Settle(r, WithoutNetwork(WithoutAgent({docker[r]})))
  /\ run' = [run EXCEPT ![r].pc = "complete"]
  /\ UNCHANGED <<registered, out>>

\* docker wait: a wait that fails by itself leaves the agent's container.
Wait(r) ==
  /\ run[r].pc = "wait"
  /\ \/ /\ CanSucceed(r)
        /\ docker[r].agent # "running"
        /\ Settle(r, WithoutNetwork(WithoutProxy(WithoutAgent({docker[r]}))))
        /\ run' = [run EXCEPT ![r].pc = "complete"]
        /\ UNCHANGED <<registered, out>>
     \/ Stopped(r) /\ Return(r) /\ UNCHANGED <<docker, out>>
     \/ /\ ~Stopped(r)
        /\ Settle(r, IF run[r].mode = "allowlist"
                     THEN WithoutNetwork(WithoutProxy({docker[r]}))
                     ELSE {docker[r]})
        /\ Fail(r, [run[r] EXCEPT !.fault = "wait"])

\* Mutant: the end is reported without claiming the flag first.
CompleteUnclaimed(r) ==
  /\ run[r].pc = "complete"
  /\ Send(r, <<"completed">>)
  /\ run' = [run EXCEPT ![r].pc = "returned", ![r].done = TRUE]
  /\ registered' = registered \ {r}
  /\ UNCHANGED docker

\* if rs.done.CompareAndSwap(false, true) { sendCompleted }
Complete(r) ==
  /\ run[r].pc = "complete"
  /\ Send(r, IF run[r].done THEN <<>> ELSE <<"completed">>)
  /\ run' = [run EXCEPT ![r].pc = "returned", ![r].done = TRUE]
  /\ registered' = registered \ {r}
  /\ UNCHANGED docker

\* External: the agent's container or process ends, by itself or, in exec
\* mode, killed with its context.
AgentExits(r) ==
  /\ docker[r].agent = "running"
  /\ docker' = [docker EXCEPT ![r].agent = "exited"]
  /\ UNCHANGED <<connected, connections, registered, run, canceller, out>>

RunnerStep(r) ==
  /\ \/ Register(r) \/ Begin(r) \/ MakeWorkspace(r) \/ Prepare(r)
     \/ ExecStart(r) \/ ExecWait(r)
     \/ NetCreate(r) \/ WriteAllowlist(r) \/ ProxyRun(r) \/ NetConnect(r)
     \/ AgentRun(r) \/ Wait(r) \/ Complete(r)
  /\ UNCHANGED <<connected, connections, canceller>>

-----------------------------------------------------------------------------
(* Steps of handleCancel *)

CancelLookup(r) ==
  /\ canceller[r] = "spawned"
  /\ canceller' = [canceller EXCEPT
                     ![r] = IF r \in registered THEN "found" ELSE "none"]
  /\ UNCHANGED <<run, docker, out>>

CancelClaim(r) ==
  /\ canceller[r] = "found"
  /\ \/ /\ run[r].done
        /\ canceller' = [canceller EXCEPT ![r] = "none"]
        /\ UNCHANGED run
     \/ /\ ~run[r].done
        /\ canceller' = [canceller EXCEPT ![r] = "agent"]
        /\ run' = [run EXCEPT ![r].done = TRUE, ![r].ctx = FALSE,
                              ![r].cancelledAt = run[r].pc]
  /\ UNCHANGED <<docker, out>>

\* Mutant: the canceller waits for the runner to have a container.
CancelAgentAwaitsProc(r) ==
  /\ canceller[r] = "agent"
  /\ run[r].proc
  /\ Settle(r, WithoutAgent({docker[r]}))
  /\ canceller' = [canceller EXCEPT ![r] = "proxy"]
  /\ UNCHANGED <<run, out>>

CancelAgent(r) ==
  /\ canceller[r] = "agent"
  /\ Settle(r, IF run[r].proc THEN WithoutAgent({docker[r]}) ELSE {docker[r]})
  /\ canceller' = [canceller EXCEPT ![r] = "proxy"]
  /\ UNCHANGED <<run, out>>

\* Mutant: handleCancel knows of the agent's container only.
CancelProxyNothing(r) ==
  /\ canceller[r] = "proxy"
  /\ canceller' = [canceller EXCEPT ![r] = "network"]
  /\ UNCHANGED <<run, docker, out>>

CancelProxy(r) ==
  /\ canceller[r] = "proxy"
  /\ Settle(r, IF run[r].netProc THEN WithoutProxy({docker[r]}) ELSE {docker[r]})
  /\ canceller' = [canceller EXCEPT ![r] = "network"]
  /\ UNCHANGED <<run, out>>

CancelNetwork(r) ==
  /\ canceller[r] = "network"
  /\ Settle(r, IF run[r].netName THEN WithoutNetwork({docker[r]}) ELSE {docker[r]})
  /\ canceller' = [canceller EXCEPT ![r] = "report"]
  /\ UNCHANGED <<run, out>>

\* Mutant: the end of a cancelled run is left to the runner.
CancelReportStatus(r) ==
  /\ canceller[r] = "report"
  /\ Send(r, <<"status">>)
  /\ canceller' = [canceller EXCEPT ![r] = "finished"]
  /\ UNCHANGED <<run, docker>>

\* The local process, if any, dies with its context.
CancelReport(r) ==
  /\ canceller[r] = "report"
  /\ Send(r, <<"status", "completed">>)
  /\ canceller' = [canceller EXCEPT ![r] = "finished"]
  /\ UNCHANGED <<run, docker>>

CancelStep(r) ==
  /\ \/ CancelLookup(r) \/ CancelClaim(r) \/ CancelAgent(r) \/ CancelProxy(r)
     \/ CancelNetwork(r) \/ CancelReport(r)
  /\ UNCHANGED <<connected, connections, registered>>

Next ==
  \/ Disconnect \/ Reconnect
  \/ \E r \in Runs : \/ RunArrives(r) \/ CancelArrives(r)
                     \/ RunnerStep(r) \/ CancelStep(r) \/ AgentExits(r)

Spec == Init /\ [][Next]_vars

\* Goroutines are scheduled, docker commands return, agents end.
Fairness ==
  \A r \in Runs :
    WF_vars(RunnerStep(r)) /\ WF_vars(CancelStep(r)) /\ WF_vars(AgentExits(r))

FairSpec == Spec /\ Fairness

-----------------------------------------------------------------------------
(* Properties *)

Over(r) == run[r].pc = "returned" /\ canceller[r] \in {"none", "finished"}

Completions(r) == {i \in DOMAIN sent[r] : sent[r][i] = "completed"}

\* COMPLETED was written to the connection, or the write of it has failed.
Reported(r) == Completions(r) # {} \/ r \in refused

\* Containers of the run in whatever state, and its network.
Left(r) ==
  {c \in {"agent", "proxy"} : docker[r][c] # "absent"}
  \cup (IF docker[r].network THEN {"network"} ELSE {})

\* A docker run that fails may leave a container, which nothing names.
Unnamed(r) ==
  CASE run[r].fault = "proxyRun" -> {"proxy"}
    [] run[r].fault = "agentRun" -> {"agent"}
    [] OTHER -> {}

\* The network stays when the allowlist cannot be written; the agent's
\* container, and its network with it, when docker wait fails.
Forgotten(r) ==
  CASE run[r].fault = "allowlist" -> {"network"}
    [] run[r].fault = "wait" -> {"agent", "network"}
    [] OTHER -> Unnamed(r)

(***************************************************************************)
(* The gateway takes COMPLETED for the end of a run.  However the runner   *)
(* and a canceller race, a run sends it at most once, except where the     *)
(* workspace could not be made: that path does not ask the flag done, and  *)
(* a cancel at the same time sends a second one.                           *)
(***************************************************************************)
CompletedOnce ==
  \A r \in Runs :
    Cardinality(Completions(r)) <= IF run[r].fault = "workspace" THEN 2 ELSE 1

(***************************************************************************)
(* A run that was neither cancelled nor cut off leaves no container, in    *)
(* whatever state, and no network behind, whichever of its docker commands *)
(* failed, except what docker itself refused to remove when the worker     *)
(* asked, and what four error paths do not ask for: a failed docker run of *)
(* the proxy or of the agent (the container it may have created), a failed *)
(* write of the allowlist (the network), and a failed docker wait.         *)
(***************************************************************************)
CleanEnd ==
  \A r \in Runs :
    Over(r) /\ run[r].ctx => Left(r) \subseteq docker[r].kept \cup Forgotten(r)

(***************************************************************************)
(* A cancel removes everything, except what docker refused to remove and   *)
(* the container of a docker run that had failed, unless it catches the    *)
(* runner inside a docker command whose result is not yet in the runState: *)
(* the creation of the network, of the proxy or of the agent's container.  *)
(* A run whose connection broke is excepted: its runner may have left      *)
(* before the cancel, with a container that nothing names any more.        *)
(***************************************************************************)
InDockerCommand == {"netCreate", "proxyRun", "agentRun"}

CancelTearsDown ==
  \A r \in Runs :
    Over(r) /\ canceller[r] = "finished" /\ ~run[r].cut
      /\ run[r].cancelledAt \notin InDockerCommand =>
        Left(r) \subseteq docker[r].kept \cup Unnamed(r)

(***************************************************************************)
(* Neither the runner nor a canceller leaves the report of the end to one  *)
(* that will not make it: when both have returned, COMPLETED has been      *)
(* written or its write has failed, also by way of the silent early        *)
(* returns of a runner that finds itself cancelled.  Only a run that broke *)
(* off with its connection and that nobody cancelled may end in silence.   *)
(***************************************************************************)
NoSilentEnd ==
  \A r \in Runs : Over(r) /\ (run[r].cut => run[r].done) => Reported(r)

(***************************************************************************)
(* A run that has reached the worker comes to the write of its COMPLETED,  *)
(* unless the connection breaks meanwhile.  The write may fail: the report *)
(* is then lost although the connection may live on.                       *)
(***************************************************************************)
EveryRunReports ==
  \A r \in Runs : run[r].pc = "spawned" ~> (Reported(r) \/ run[r].cut)

(***************************************************************************)
(* docs/SECURITY-HARDENING.md:164: "The proxy is a per-run sidecar and is  *)
(* torn down with the run (cancel and completion paths in                  *)
(* handleRunRequest/handleCancel)."  Not when the cancel comes while the   *)
(* proxy is being started, even if docker removes all it is asked to.      *)
(***************************************************************************)
ProxyTornDown ==
  \A r \in Runs :
    Over(r) /\ canceller[r] = "finished" /\ "proxy" \notin docker[r].kept =>
      docker[r].proxy # "running"
=============================================================================
