--------------------------- MODULE WorkerRun_proofs ---------------------------
(***************************************************************************)
(* Theorems about WorkerRun, for any number of runs in any mode and for    *)
(* any number of connections.  Runs share only the connection, so each     *)
(* invariant speaks of one run, and OneRun says what a step can be for it. *)
(***************************************************************************)
EXTENDS WorkerRun, FiniteSetTheorems, SequenceTheorems, TLAPS

(* A step of a runner touches its own run and containers only *)

\* A run of w.runs: between Register and the deferred function.
Listed(r) == run[r].pc \notin {"idle", "spawned", "returned"}

\* A step of one run's goroutine touches its own entry and containers only.
RunTo(r) ==
  /\ run' \in [Runs -> RunState]
  /\ \A q \in Runs \ {r} : run'[q] = run[q]
  /\ registered' = IF run'[r].pc = "returned" THEN registered \ {r}
                   ELSE registered \cup {r}
  /\ run'[r].pc \notin {"idle", "spawned"}

DockerTo(r) ==
  /\ docker' \in [Runs -> Daemon]
  /\ \A q \in Runs \ {r} : docker'[q] = docker[q]

LEMMA DaemonType ==
  ASSUME NEW d \in Daemon
  PROVE  /\ \A c \in Container : /\ [d EXCEPT !.agent = c] \in Daemon
                                 /\ [d EXCEPT !.proxy = c] \in Daemon
         /\ \A b \in BOOLEAN : [d EXCEPT !.network = b] \in Daemon
BY DEF Daemon

\* What removing the agent's container, the proxy or the network can make e
\* of d: what is still there afterwards is recorded in kept.
LessAgent(d, e) ==
  /\ e \in Daemon /\ e.proxy = d.proxy /\ e.network = d.network
  /\ e.kept \in {d.kept, d.kept \cup {"agent"}}
  /\ e.agent = "absent" \/ "agent" \in e.kept

LessProxy(d, e) ==
  /\ e \in Daemon /\ e.agent = d.agent /\ e.network = d.network
  /\ e.kept \in {d.kept, d.kept \cup {"proxy"}}
  /\ e.proxy = "absent" \/ "proxy" \in e.kept

LessNetwork(d, e) ==
  /\ e \in Daemon /\ e.agent = d.agent /\ e.proxy = d.proxy
  /\ e.kept \in {d.kept, d.kept \cup {"network"}}
  /\ e.network => d.network
  /\ e.network /\ "network" \notin e.kept => ~(Users(d) \subseteq d.kept)

LEMMA RemovalFails ==
  ASSUME NEW d \in Daemon, NEW c \in {"agent", "proxy"},
         NEW s \in {d[c]} \cup (IF d[c] = "running" THEN {"exited"} ELSE {})
  PROVE  s \in Container
BY DEF Daemon, Container

LEMMA AgentRemovals ==
  ASSUME NEW d \in Daemon, NEW e \in Removals(d, "agent")
  PROVE  LessAgent(d, e)
<1>1. CASE e = [d EXCEPT !.agent = "absent"]
  BY <1>1 DEF LessAgent, Daemon, Container
<1>2. ASSUME NEW s \in Container,
             e = [d EXCEPT !.agent = s, !.kept = d.kept \cup {"agent"}]
      PROVE  LessAgent(d, e)
  BY <1>2 DEF LessAgent, Daemon
<1>3. \/ e = [d EXCEPT !.agent = "absent"]
      \/ \E s \in {d["agent"]} \cup (IF d["agent"] = "running" THEN {"exited"} ELSE {}) :
           e = [d EXCEPT !.agent = s, !.kept = d.kept \cup {"agent"}]
  BY DEF Removals, Daemon
<1> QED
  BY <1>1, <1>2, <1>3, RemovalFails

LEMMA ProxyRemovals ==
  ASSUME NEW d \in Daemon, NEW e \in Removals(d, "proxy")
  PROVE  LessProxy(d, e)
<1>1. CASE e = [d EXCEPT !.proxy = "absent"]
  BY <1>1 DEF LessProxy, Daemon, Container
<1>2. ASSUME NEW s \in Container,
             e = [d EXCEPT !.proxy = s, !.kept = d.kept \cup {"proxy"}]
      PROVE  LessProxy(d, e)
  BY <1>2 DEF LessProxy, Daemon
<1>3. \/ e = [d EXCEPT !.proxy = "absent"]
      \/ \E s \in {d["proxy"]} \cup (IF d["proxy"] = "running" THEN {"exited"} ELSE {}) :
           e = [d EXCEPT !.proxy = s, !.kept = d.kept \cup {"proxy"}]
  BY DEF Removals, Daemon
<1> QED
  BY <1>1, <1>2, <1>3, RemovalFails

LEMMA NetworkRemovals ==
  ASSUME NEW D \in SUBSET Daemon, NEW e \in WithoutNetwork(D)
  PROVE  \E d \in D : LessNetwork(d, e)
<1>1. ASSUME NEW d \in D, Users(d) = {}, e = [d EXCEPT !.network = FALSE]
      PROVE  LessNetwork(d, e)
  BY <1>1 DEF LessNetwork, Daemon
<1>2. ASSUME NEW d \in D, e = [d EXCEPT !.kept = d.kept \cup {"network"}]
      PROVE  LessNetwork(d, e)
  BY <1>2 DEF LessNetwork, Daemon
<1>3. ASSUME e \in D, ~(Users(e) \subseteq e.kept)
      PROVE  LessNetwork(e, e)
  BY <1>3 DEF LessNetwork
<1> QED
  BY <1>1, <1>2, <1>3 DEF WithoutNetwork

\* The proxy and the network, after which only the agent can hold the network.
RestDown(d, e) ==
  /\ e \in Daemon /\ e.agent = d.agent
  /\ "agent" \in e.kept <=> "agent" \in d.kept
  /\ e.proxy = "absent" \/ "proxy" \in e.kept
  /\ e.network => d.network
  /\ "network" \in d.kept => "network" \in e.kept
  /\ e.network /\ "network" \notin e.kept =>
       e.agent = "running" /\ "agent" \notin e.kept

LEMMA RestRemovals ==
  ASSUME NEW D \in SUBSET Daemon, NEW e \in WithoutNetwork(WithoutProxy(D))
  PROVE  \E d \in D : RestDown(d, e)
<1>1. \A p \in WithoutProxy(D) : \E d \in D : LessProxy(d, p)
  BY ProxyRemovals DEF WithoutProxy
<1>2. WithoutProxy(D) \subseteq Daemon
  BY <1>1 DEF LessProxy
<1>3. PICK p \in WithoutProxy(D) : LessNetwork(p, e)
  BY <1>2, NetworkRemovals
<1>4. PICK d \in D : LessProxy(d, p)
  BY <1>1
<1>5. ~(Users(p) \subseteq p.kept) => p.agent = "running" /\ "agent" \notin p.kept
  BY <1>4 DEF Users, LessProxy
<1>6. RestDown(d, e)
  BY <1>3, <1>4, <1>5 DEF RestDown, LessProxy, LessNetwork
<1> QED
  BY <1>6

\* All three.
LEMMA AllRemovals ==
  ASSUME NEW D \in SUBSET Daemon,
         NEW e \in WithoutNetwork(WithoutProxy(WithoutAgent(D)))
  PROVE  \E d \in D : \E a \in Daemon : LessAgent(d, a) /\ RestDown(a, e)
<1>1. \A a \in WithoutAgent(D) : \E d \in D : LessAgent(d, a)
  BY AgentRemovals DEF WithoutAgent
<1>2. WithoutAgent(D) \subseteq Daemon
  BY <1>1 DEF LessAgent
<1> QED
  BY <1>1, <1>2, RestRemovals

\* One removal or two of a canceller or of an error path.
LEMMA OneRemoval ==
  ASSUME NEW d \in Daemon
  PROVE  /\ \A e \in WithoutAgent({d}) : LessAgent(d, e)
         /\ \A e \in WithoutProxy({d}) : LessProxy(d, e)
         /\ \A e \in WithoutNetwork({d}) : LessNetwork(d, e)
         /\ \A e \in WithoutNetwork(WithoutProxy({d})) : RestDown(d, e)
<1>1. {d} \in SUBSET Daemon
  OBVIOUS
<1>2. \A e \in WithoutAgent({d}) : LessAgent(d, e)
  BY AgentRemovals DEF WithoutAgent
<1>3. \A e \in WithoutProxy({d}) : LessProxy(d, e)
  BY ProxyRemovals DEF WithoutProxy
<1>4. \A e \in WithoutNetwork({d}) : LessNetwork(d, e)
  BY <1>1, NetworkRemovals
<1>5. \A e \in WithoutNetwork(WithoutProxy({d})) : RestDown(d, e)
  BY <1>1, RestRemovals
<1> QED
  BY <1>2, <1>3, <1>4, <1>5

LEMMA RemainsType ==
  ASSUME NEW r PROVE Remains(r) \subseteq Container
BY DEF Remains, Container

LEMMA SetDocker ==
  ASSUME TypeOK, NEW r \in Runs, NEW d \in Daemon,
         docker' = [docker EXCEPT ![r] = d]
  PROVE  DockerTo(r)
BY DEF DockerTo, TypeOK

LEMMA SettleDocker ==
  ASSUME TypeOK, NEW r \in Runs, NEW D \in SUBSET Daemon, Settle(r, D)
  PROVE  DockerTo(r) /\ docker'[r] \in D
BY SetDocker DEF Settle, TypeOK

LEMMA KeepDocker == ASSUME TypeOK, NEW r \in Runs, UNCHANGED docker
                    PROVE  DockerTo(r)
BY DEF DockerTo, TypeOK

LEMMA SetRun ==
  ASSUME TypeOK, NEW r \in Runs, Listed(r), NEW n \in RunState,
         n.pc \notin {"idle", "spawned", "returned"},
         run' = [run EXCEPT ![r] = n], UNCHANGED registered
  PROVE  RunTo(r)
BY DEF RunTo, TypeOK, Listed

LEMMA LeaveRun ==
  ASSUME TypeOK, NEW r \in Runs, NEW n \in RunState, n.pc = "returned",
         run' = [run EXCEPT ![r] = n], registered' = registered \ {r}
  PROVE  RunTo(r)
BY DEF RunTo, TypeOK

LEMMA SetField ==
  ASSUME TypeOK, NEW r \in Runs
  PROVE  /\ \A pc \in RunnerPC : /\ [run[r] EXCEPT !.pc = pc] \in RunState
                                 /\ [run[r] EXCEPT !.pc = pc].pc = pc
         /\ [run[r] EXCEPT !.pc = "returned", !.fault = "workspace"] \in RunState
         /\ \A f \in {"allowlist", "proxyRun", "agentRun", "wait"} :
              [run[r] EXCEPT !.fault = f] \in RunState
         /\ [run[r] EXCEPT !.pc = "returned", !.done = TRUE] \in RunState
         /\ [run[r] EXCEPT !.pc = "allowlistFile", !.netName = TRUE] \in RunState
<1>1. run[r] \in RunState
  BY DEF TypeOK
<1> QED
  BY <1>1 DEF RunState, RunnerPC

LEMMA ReturnRun ==
  ASSUME TypeOK, NEW r \in Runs, Return(r) PROVE RunTo(r)
<1>1. run' = [run EXCEPT ![r] = [run[r] EXCEPT !.pc = "returned"]]
  BY DEF Return
<1> QED
  BY <1>1, SetField, LeaveRun DEF Return, RunnerPC

LEMMA FailRun ==
  ASSUME TypeOK, NEW r \in Runs, Listed(r), NEW n \in RunState, Fail(r, n)
  PROVE  RunTo(r)
<1>1. [n EXCEPT !.pc = "complete"] \in RunState
  BY DEF RunState, RunnerPC
<1> QED
  BY <1>1, SetRun DEF Fail, RunState

LEMMA GotoType ==
  ASSUME TypeOK, NEW r \in Runs, NEW pc \in RunnerPC
  PROVE  Goto(r, pc) \in RunState /\ Goto(r, pc).pc = pc
<1>1. run[r] \in RunState
  BY DEF TypeOK
<1>2. run[r].ctx \in BOOLEAN
  BY <1>1 DEF RunState
<1> QED
  BY <1>1, <1>2 DEF Goto, RunState

LEMMA RunnerSteps ==
  ASSUME TypeOK, NEW r \in Runs, RunnerStep(r)
  PROVE  RunTo(r) /\ DockerTo(r)
<1>1. /\ run[r] \in RunState /\ run \in [Runs -> RunState]
      /\ docker[r] \in Daemon
      /\ \A p \in RunnerPC : [run[r] EXCEPT !.pc = p] \in RunState
  BY DEF TypeOK, RunState
<1>2. CASE Register(r)
  <2>1. run' = [run EXCEPT ![r] = [run[r] EXCEPT !.pc = "start"]]
    BY <1>2 DEF Register
  <2>2. /\ [run[r] EXCEPT !.pc = "start"] \in RunState
        /\ [run[r] EXCEPT !.pc = "start"].pc = "start"
    BY SetField DEF RunnerPC
  <2>3. run'[r].pc = "start" /\ run' \in [Runs -> RunState]
    BY <1>1, <2>1, <2>2
  <2>4. DockerTo(r)
    BY <1>2, KeepDocker DEF Register
  <2> QED
    BY <1>2, <2>1, <2>3, <2>4 DEF Register, RunTo
<1>3. CASE Begin(r)
  <2>1. CASE Return(r)
    BY <1>3, <2>1, ReturnRun, KeepDocker DEF Begin
  <2>2. CASE ~Return(r)
    <3> DEFINE n == [run[r] EXCEPT !.pc = "workspace"]
    <3>1. n \in RunState /\ n.pc = "workspace"
      BY SetField DEF RunnerPC
    <3>2. run' = [run EXCEPT ![r] = n] /\ UNCHANGED registered /\ Listed(r)
      BY <1>3, <2>2 DEF Begin, Listed
    <3> HIDE DEF n
    <3> QED
      BY <1>3, <3>1, <3>2, SetRun, KeepDocker DEF Begin
  <2> QED
    BY <2>1, <2>2
<1>4. CASE MakeWorkspace(r)
  <2>1. Listed(r) /\ DockerTo(r)
    BY <1>4, KeepDocker DEF MakeWorkspace, Listed
  <2>2. CASE run' = [run EXCEPT ![r].pc = "prepare"] /\ UNCHANGED registered
    <3>1. run' = [run EXCEPT ![r] = [run[r] EXCEPT !.pc = "prepare"]]
      BY <2>2
    <3> QED
      BY <2>1, <2>2, <3>1, SetField, SetRun DEF RunnerPC
  <2>3. CASE /\ run' = [run EXCEPT ![r].pc = "returned", ![r].fault = "workspace"]
             /\ registered' = registered \ {r}
    <3>1. run' = [run EXCEPT ![r] =
                    [run[r] EXCEPT !.pc = "returned", !.fault = "workspace"]]
      BY <1>1, <2>3
    <3>2. [run[r] EXCEPT !.pc = "returned", !.fault = "workspace"].pc = "returned"
      BY <1>1 DEF RunState
    <3> QED
      BY <2>1, <2>3, <3>1, <3>2, SetField, LeaveRun
  <2> QED
    BY <1>4, <2>1, <2>2, <2>3 DEF MakeWorkspace
<1>5. CASE Prepare(r)
  <2>1. Listed(r) /\ DockerTo(r)
    BY <1>5, KeepDocker DEF Prepare, Listed
  <2>2. CASE Fail(r, run[r])
    BY <1>1, <2>1, <2>2, FailRun
  <2>3. ASSUME NEW pc \in {"execStart", "agentRun", "netCreate"},
               run' = [run EXCEPT ![r] = Goto(r, pc)], UNCHANGED registered
        PROVE  RunTo(r)
    BY <2>1, <2>3, GotoType, SetRun DEF RunnerPC
  <2>4. run[r].mode \in Modes
    BY <1>1 DEF RunState
  <2> QED
    BY <1>5, <2>1, <2>2, <2>3, <2>4 DEF Prepare, Modes
<1>6. CASE ExecStart(r)
  <2>1. Listed(r)
    BY <1>6 DEF ExecStart, Listed
  <2>2. CASE Return(r) /\ UNCHANGED docker
    BY <2>2, ReturnRun, KeepDocker
  <2>3. CASE Fail(r, run[r]) /\ UNCHANGED docker
    BY <1>1, <2>1, <2>3, FailRun, KeepDocker
  <2>4. ASSUME docker' = [docker EXCEPT ![r].agent = "running"],
               run' = [run EXCEPT ![r].pc = "execWait"], UNCHANGED registered
        PROVE  RunTo(r) /\ DockerTo(r)
    <3>1. RunTo(r)
      <4>1. run' = [run EXCEPT ![r] = [run[r] EXCEPT !.pc = "execWait"]]
        BY <2>4
      <4> QED
        BY <2>1, <2>4, <4>1, SetField, SetRun DEF RunnerPC
    <3>2. [docker[r] EXCEPT !.agent = "running"] \in Daemon
      BY <1>1, DaemonType DEF Container
    <3>3. docker' = [docker EXCEPT ![r] = [docker[r] EXCEPT !.agent = "running"]]
      BY <2>4
    <3> QED
      BY <3>1, <3>2, <3>3, SetDocker
  <2> QED
    BY <1>6, <2>2, <2>3, <2>4 DEF ExecStart
<1>7. CASE ExecWait(r)
  <2>1. [docker[r] EXCEPT !.agent = "absent"] \in Daemon
    BY <1>1, DaemonType DEF Container
  <2>2. docker' = [docker EXCEPT ![r] = [docker[r] EXCEPT !.agent = "absent"]]
    BY <1>7 DEF ExecWait
  <2>3. DockerTo(r)
    BY <2>1, <2>2, SetDocker
  <2>4. run' = [run EXCEPT ![r] = [run[r] EXCEPT !.pc = "complete"]]
    BY <1>7 DEF ExecWait
  <2>5. Listed(r) /\ UNCHANGED registered
    BY <1>7 DEF ExecWait, Listed
  <2> QED
    BY <2>3, <2>4, <2>5, SetField, SetRun DEF RunnerPC
<1>8. CASE NetCreate(r)
  <2>1. Listed(r)
    BY <1>8 DEF NetCreate, Listed
  <2>2. DockerTo(r)
    <3>1. [docker[r] EXCEPT !.network = TRUE] \in Daemon
      BY <1>1, DaemonType
    <3>2. \/ docker' = [docker EXCEPT ![r] = [docker[r] EXCEPT !.network = TRUE]]
          \/ UNCHANGED docker
      BY <1>8 DEF NetCreate
    <3> QED
      BY <3>1, <3>2, SetDocker, KeepDocker
  <2>3. CASE Fail(r, run[r])
    BY <1>1, <2>1, <2>2, <2>3, FailRun
  <2>4. CASE ~Fail(r, run[r])
    <3>1. /\ run' = [run EXCEPT ![r].pc = "allowlistFile", ![r].netName = TRUE]
          /\ UNCHANGED registered
      BY <1>8, <2>4 DEF NetCreate
    <3>2. run' = [run EXCEPT ![r] =
                    [run[r] EXCEPT !.pc = "allowlistFile", !.netName = TRUE]]
      BY <1>1, <3>1
    <3>3. [run[r] EXCEPT !.pc = "allowlistFile", !.netName = TRUE].pc = "allowlistFile"
      BY <1>1 DEF RunState
    <3> QED
      BY <2>1, <2>2, <3>1, <3>2, <3>3, SetField, SetRun
  <2> QED
    BY <2>3, <2>4
<1>9. CASE WriteAllowlist(r)
  <2>1. Listed(r) /\ DockerTo(r)
    BY <1>9, KeepDocker DEF WriteAllowlist, Listed
  <2>2. CASE Fail(r, [run[r] EXCEPT !.fault = "allowlist"])
    BY <2>1, <2>2, SetField, FailRun
  <2>3. CASE run' = [run EXCEPT ![r] = Goto(r, "proxyRun")] /\ UNCHANGED registered
    BY <2>1, <2>3, GotoType, SetRun DEF RunnerPC
  <2> QED
    BY <1>9, <2>1, <2>2, <2>3 DEF WriteAllowlist
<1>10. CASE ProxyRun(r)
  <2>1. Listed(r)
    BY <1>10 DEF ProxyRun, Listed
  <2>2. ASSUME NEW c \in Container PROVE [docker[r] EXCEPT !.proxy = c] \in Daemon
    BY <1>1, DaemonType
  <2>3. CASE /\ docker' = [docker EXCEPT ![r].proxy = "running"]
             /\ run' = [run EXCEPT ![r] = [Goto(r, "netConnect") EXCEPT !.netProc = TRUE]]
             /\ UNCHANGED registered
    <3>1. docker' = [docker EXCEPT ![r] = [docker[r] EXCEPT !.proxy = "running"]]
      BY <2>3
    <3>2. DockerTo(r)
      BY <2>2, <3>1, SetDocker DEF Container
    <3>3. /\ [Goto(r, "netConnect") EXCEPT !.netProc = TRUE] \in RunState
          /\ [Goto(r, "netConnect") EXCEPT !.netProc = TRUE].pc = "netConnect"
      <4>1. /\ Goto(r, "netConnect") \in RunState
            /\ Goto(r, "netConnect").pc = "netConnect"
        BY GotoType DEF RunnerPC
      <4> QED
        BY <4>1 DEF RunState
    <3> QED
      BY <2>1, <2>3, <3>2, <3>3, SetRun
  <2>4. ASSUME NEW left \in Remains(r),
               Settle(r, WithoutNetwork({[docker[r] EXCEPT !.proxy = left]})),
               Fail(r, [run[r] EXCEPT !.fault = "proxyRun"])
        PROVE  RunTo(r) /\ DockerTo(r)
    <3>1. [docker[r] EXCEPT !.proxy = left] \in Daemon
      BY <2>2, RemainsType
    <3>2. WithoutNetwork({[docker[r] EXCEPT !.proxy = left]}) \subseteq Daemon
      BY <3>1, OneRemoval DEF LessNetwork
    <3> QED
      BY <2>1, <2>4, <3>2, SetField, FailRun, SettleDocker
  <2> QED
    BY <1>10, <2>3, <2>4 DEF ProxyRun
<1>11. CASE NetConnect(r)
  <2>1. Listed(r)
    BY <1>11 DEF NetConnect, Listed
  <2>2. CASE /\ run' = [run EXCEPT ![r] = Goto(r, "agentRun")]
             /\ UNCHANGED <<registered, docker>>
    BY <2>1, <2>2, GotoType, SetRun, KeepDocker DEF RunnerPC
  <2>3. CASE /\ Settle(r, WithoutNetwork(WithoutProxy({docker[r]})))
             /\ Fail(r, run[r])
    <3>1. WithoutNetwork(WithoutProxy({docker[r]})) \subseteq Daemon
      BY <1>1, OneRemoval DEF RestDown
    <3> QED
      BY <1>1, <2>1, <2>3, <3>1, FailRun, SettleDocker
  <2> QED
    BY <1>11, <2>2, <2>3 DEF NetConnect
<1>12. CASE AgentRun(r)
  <2>1. Listed(r)
    BY <1>12 DEF AgentRun, Listed
  <2>2. ASSUME NEW c \in Container PROVE [docker[r] EXCEPT !.agent = c] \in Daemon
    BY <1>1, DaemonType
  <2>3. CASE /\ docker' = [docker EXCEPT ![r].agent = "running"]
             /\ run' = [run EXCEPT ![r] = [Goto(r, "wait") EXCEPT !.proc = TRUE]]
             /\ UNCHANGED registered
    <3>1. docker' = [docker EXCEPT ![r] = [docker[r] EXCEPT !.agent = "running"]]
      BY <2>3
    <3>2. DockerTo(r)
      BY <2>2, <3>1, SetDocker DEF Container
    <3>3. /\ [Goto(r, "wait") EXCEPT !.proc = TRUE] \in RunState
          /\ [Goto(r, "wait") EXCEPT !.proc = TRUE].pc = "wait"
      <4>1. /\ Goto(r, "wait") \in RunState
            /\ Goto(r, "wait").pc = "wait"
        BY GotoType DEF RunnerPC
      <4> QED
        BY <4>1 DEF RunState
    <3> QED
      BY <2>1, <2>3, <3>2, <3>3, SetRun
  <2>4. ASSUME NEW left \in Remains(r),
               docker' = [docker EXCEPT ![r] = [docker[r] EXCEPT !.agent = left]],
               Return(r)
        PROVE  RunTo(r) /\ DockerTo(r)
    BY <2>2, <2>4, ReturnRun, SetDocker, RemainsType
  <2>5. ASSUME NEW left \in Remains(r),
               Settle(r, IF run[r].mode = "allowlist"
                         THEN WithoutNetwork(WithoutProxy(
                                {[docker[r] EXCEPT !.agent = left]}))
                         ELSE {[docker[r] EXCEPT !.agent = left]}),
               Fail(r, [run[r] EXCEPT !.fault = "agentRun"])
        PROVE  RunTo(r) /\ DockerTo(r)
    <3> DEFINE d == [docker[r] EXCEPT !.agent = left]
    <3>1. d \in Daemon
      BY <2>2, RemainsType
    <3> HIDE DEF d
    <3>2. /\ WithoutNetwork(WithoutProxy({d})) \subseteq Daemon
          /\ {d} \subseteq Daemon
      BY <3>1, OneRemoval DEF RestDown
    <3>3. DockerTo(r)
      BY <2>5, <3>2, SettleDocker DEF d
    <3> QED
      BY <2>1, <2>5, <3>3, SetField, FailRun
  <2> QED
    BY <1>12, <2>3, <2>4, <2>5 DEF AgentRun
<1>13. CASE Wait(r)
  <2>1. Listed(r)
    BY <1>13 DEF Wait, Listed
  <2>2. CASE /\ Settle(r, WithoutNetwork(WithoutProxy(WithoutAgent({docker[r]}))))
             /\ run' = [run EXCEPT ![r].pc = "complete"]
             /\ UNCHANGED registered
    <3>1. DockerTo(r)
      <4>1. {docker[r]} \in SUBSET Daemon
        BY <1>1
      <4>2. WithoutNetwork(WithoutProxy(WithoutAgent({docker[r]}))) \subseteq Daemon
        BY <4>1, AllRemovals DEF RestDown
      <4> QED
        BY <2>2, <4>2, SettleDocker
    <3> QED
      <4>1. run' = [run EXCEPT ![r] = [run[r] EXCEPT !.pc = "complete"]]
        BY <2>2
      <4> QED
        BY <2>1, <2>2, <3>1, <4>1, SetField, SetRun DEF RunnerPC
  <2>3. CASE Return(r) /\ UNCHANGED docker
    BY <2>3, ReturnRun, KeepDocker
  <2>4. CASE /\ Settle(r, IF run[r].mode = "allowlist"
                          THEN WithoutNetwork(WithoutProxy({docker[r]}))
                          ELSE {docker[r]})
             /\ Fail(r, [run[r] EXCEPT !.fault = "wait"])
    <3>1. /\ WithoutNetwork(WithoutProxy({docker[r]})) \subseteq Daemon
          /\ {docker[r]} \subseteq Daemon
      BY <1>1, OneRemoval DEF RestDown
    <3>2. DockerTo(r)
      BY <2>4, <3>1, SettleDocker
    <3> QED
      BY <2>1, <2>4, <3>2, SetField, FailRun
  <2> QED
    BY <1>13, <2>2, <2>3, <2>4 DEF Wait
<1>14. CASE Complete(r)
  <2>1. run' = [run EXCEPT ![r] = [run[r] EXCEPT !.pc = "returned", !.done = TRUE]]
    BY <1>1, <1>14 DEF Complete
  <2>2. [run[r] EXCEPT !.pc = "returned", !.done = TRUE].pc = "returned"
    BY <1>1 DEF RunState
  <2> QED
    BY <1>14, <2>1, <2>2, SetField, LeaveRun, KeepDocker DEF Complete
<1> QED
  BY <1>2, <1>3, <1>4, <1>5, <1>6, <1>7, <1>8, <1>9, <1>10, <1>11, <1>12,
     <1>13, <1>14 DEF RunnerStep

-----------------------------------------------------------------------------
(* The types *)

\* What a run's goroutines send, and what of it can get through.
Quiets == {<<>>, <<"status">>, <<"error">>}
Endings == {<<"completed">>, <<"error", "completed">>, <<"status", "completed">>}
Messages == Quiets \cup Endings

LEMMA KindsType == Messages \subseteq Seq(EventKind)
BY DEF Messages, Quiets, Endings, EventKind

LEMMA Prefixes ==
  ASSUME NEW kinds \in Messages, NEW n \in 0..Len(kinds)
  PROVE  /\ SubSeq(kinds, 1, n) \in Messages
         /\ kinds \in Quiets => SubSeq(kinds, 1, n) \in Quiets
         /\ kinds \in Endings =>
              \/ SubSeq(kinds, 1, n) \in Endings
              \/ "completed" \in {kinds[i] : i \in (n + 1)..Len(kinds)}
<1>1. ASSUME NEW s, kinds = s, s = <<>> PROVE SubSeq(kinds, 1, n) = <<>>
  BY <1>1
<1>2. ASSUME NEW a \in EventKind, kinds = <<a>>
      PROVE  \/ n = 0 /\ SubSeq(kinds, 1, n) = <<>>
             \/ n = 1 /\ SubSeq(kinds, 1, n) = <<a>>
  <2>1. Len(<<a>>) = 1 /\ n \in {0, 1}
    BY <1>2
  <2>2. SubSeq(kinds, 1, 0) = <<>> /\ SubSeq(kinds, 1, 1) = kinds
    <3>1. SubSeq(kinds, 1, 0) = <<>>
      BY SubSeqEmpty, 0 \in Int, 1 \in Int, 0 < 1
    <3>2. kinds \in Seq(EventKind)
      BY <1>2
    <3>3. SubSeq(kinds, 1, Len(kinds)) = kinds
      BY <3>2, SubSeqFull
    <3>4. Len(kinds) = 1
      BY <1>2
    <3> QED
      BY <3>1, <3>3, <3>4, Zenon
  <2> QED
    BY <1>2, <2>1, <2>2
<1>3. ASSUME NEW a \in EventKind, NEW b \in EventKind, kinds = <<a, b>>
      PROVE  \/ n = 0 /\ SubSeq(kinds, 1, n) = <<>>
             \/ n = 1 /\ SubSeq(kinds, 1, n) = <<a>>
             \/ n = 2 /\ SubSeq(kinds, 1, n) = <<a, b>>
  <2>1. Len(<<a, b>>) = 2 /\ n \in {0, 1, 2}
    BY <1>3
  <2>2. SubSeq(kinds, 1, 0) = <<>> /\ SubSeq(kinds, 1, 2) = kinds
    <3>1. SubSeq(kinds, 1, 0) = <<>>
      BY SubSeqEmpty, 0 \in Int, 1 \in Int, 0 < 1
    <3>2. kinds \in Seq(EventKind)
      BY <1>3
    <3>3. SubSeq(kinds, 1, Len(kinds)) = kinds
      BY <3>2, SubSeqFull
    <3>4. Len(kinds) = 2
      BY <1>3
    <3> QED
      BY <3>1, <3>3, <3>4, Zenon
  <2>3. SubSeq(kinds, 1, 1) = <<a>>
    <3>1. \A i \in 1..1 : kinds[i] \in EventKind
      BY <1>3
    <3>2. /\ SubSeq(kinds, 1, 1) \in Seq(EventKind)
          /\ Len(SubSeq(kinds, 1, 1)) = 1
          /\ SubSeq(kinds, 1, 1)[1] = kinds[1]
      BY <3>1, SubSeqProperties, Z3
    <3>3. <<a>> \in Seq(EventKind) /\ Len(<<a>>) = 1 /\ <<a>>[1] = kinds[1]
      BY <1>3
    <3> DEFINE s == SubSeq(kinds, 1, 1)
    <3>4. Len(s) = Len(<<a>>) /\ \A i \in 1..Len(s) : s[i] = <<a>>[i]
      BY <3>2, <3>3
    <3> HIDE DEF s
    <3>5. s \in Seq(EventKind)
      BY <3>2 DEF s
    <3>6. s = <<a>>
      BY <3>3, <3>4, <3>5, SeqEqual, Zenon
    <3> QED
      BY <3>6 DEF s
  <2> QED
    BY <1>3, <2>1, <2>2, <2>3
<1>4. CASE kinds \in Quiets
  <2>1. SubSeq(kinds, 1, n) \in Quiets /\ kinds \notin Endings
    BY <1>1, <1>2, <1>4 DEF Quiets, Endings, EventKind
  <2> QED
    BY <2>1 DEF Messages
<1>5. CASE kinds \in Endings
  <2>1. kinds \notin Quiets
    BY <1>5 DEF Quiets, Endings
  <2>2. CASE kinds = <<"completed">>
    <3>1. n = 0 => "completed" \in {kinds[i] : i \in (n + 1)..Len(kinds)}
      BY <2>2
    <3> QED
      BY <1>2, <2>1, <2>2, <3>1 DEF Messages, Quiets, Endings, EventKind
  <2>3. ASSUME NEW a \in {"error", "status"}, kinds = <<a, "completed">>
        PROVE  /\ SubSeq(kinds, 1, n) \in Messages
               /\ \/ SubSeq(kinds, 1, n) \in Endings
                  \/ "completed" \in {kinds[i] : i \in (n + 1)..Len(kinds)}
    <3>1. n \in {0, 1} => "completed" \in {kinds[i] : i \in (n + 1)..Len(kinds)}
      <4>1. Len(kinds) = 2 /\ kinds[2] = "completed"
        BY <2>3
      <4> QED
        BY <4>1
    <3> QED
      BY <1>3, <2>3, <3>1 DEF Messages, Quiets, Endings, EventKind
  <2> QED
    BY <1>5, <2>1, <2>2, <2>3 DEF Endings
<1> QED
  BY <1>4, <1>5 DEF Messages

\* What is written is part of what was to be sent; an end of it that is
\* missing has been refused.
LEMMA SendEffect ==
  ASSUME TypeOK, NEW r \in Runs, NEW kinds \in Messages, Send(r, kinds)
  PROVE  /\ writable' \in BOOLEAN /\ (writable' => writable)
         /\ refused' \in {refused, refused \cup {r}}
         /\ \E k \in Messages :
              /\ sent' = [sent EXCEPT ![r] = sent[r] \o k]
              /\ kinds \in Quiets => k \in Quiets
              /\ kinds \in Endings => k \in Endings \/ r \in refused'
<1>1. PICK n \in 0..Len(kinds) :
        LET lost == {kinds[i] : i \in (n + 1)..Len(kinds)}
        IN  /\ writable' = (writable /\ lost = {})
            /\ sent' = [sent EXCEPT ![r] = @ \o SubSeq(kinds, 1, n)]
            /\ refused' = IF "completed" \in lost THEN refused \cup {r}
                          ELSE refused
  BY DEF Send
<1>2. /\ sent' = [sent EXCEPT ![r] = sent[r] \o SubSeq(kinds, 1, n)]
      /\ refused' \in {refused, refused \cup {r}}
      /\ "completed" \in {kinds[i] : i \in (n + 1)..Len(kinds)} => r \in refused'
  BY <1>1
<1>3. writable' \in BOOLEAN /\ (writable' => writable)
  BY <1>1
<1> QED
  BY <1>2, <1>3, Prefixes

LEMMA SendType ==
  ASSUME TypeOK, NEW r \in Runs, NEW kinds \in Messages, Send(r, kinds)
  PROVE  /\ writable' \in BOOLEAN /\ (writable' => writable)
         /\ sent' \in [Runs -> Seq(EventKind)]
         /\ refused' \subseteq Runs
<1>1. ASSUME NEW k \in Messages PROVE sent[r] \o k \in Seq(EventKind)
  BY KindsType DEF TypeOK
<1>2. PICK k \in Messages : sent' = [sent EXCEPT ![r] = sent[r] \o k]
  BY SendEffect
<1>3. sent' \in [Runs -> Seq(EventKind)]
  BY <1>1, <1>2 DEF TypeOK
<1>4. refused' \subseteq Runs
  <2>1. refused' \in {refused, refused \cup {r}} /\ refused \subseteq Runs
    BY SendEffect DEF TypeOK
  <2> QED
    BY <2>1
<1> QED
  BY <1>3, <1>4, SendEffect

LEMMA RunnerSends ==
  ASSUME NEW r \in Runs, RunnerStep(r)
  PROVE  UNCHANGED out \/ \E kinds \in Messages : Send(r, kinds)
<1> USE DEF Messages, Quiets, Endings
<1>1. CASE Register(r) \/ Begin(r) \/ MakeWorkspace(r)
  BY <1>1 DEF Register, Begin, MakeWorkspace
<1>2. CASE Prepare(r) \/ WriteAllowlist(r)
  BY <1>2 DEF Prepare, WriteAllowlist, Fail
<1>3. CASE ExecStart(r) \/ ExecWait(r)
  BY <1>3 DEF ExecStart, ExecWait, Fail
<1>4. CASE NetCreate(r) \/ ProxyRun(r) \/ NetConnect(r)
  BY <1>4 DEF NetCreate, ProxyRun, NetConnect, Fail
<1>5. CASE AgentRun(r) \/ Wait(r)
  BY <1>5 DEF AgentRun, Wait, Fail
<1>6. CASE Complete(r)
  BY <1>6 DEF Complete
<1> QED
  BY <1>1, <1>2, <1>3, <1>4, <1>5, <1>6 DEF RunnerStep

LEMMA CancelKeepsPlace ==
  ASSUME TypeOK, NEW r \in Runs, CancelStep(r)
  PROVE  /\ run' \in [Runs -> RunState]
         /\ \A q \in Runs : run'[q].pc = run[q].pc
         /\ \A q \in Runs \ {r} : run'[q] = run[q] /\ canceller'[q] = canceller[q]
         /\ canceller' \in [Runs -> CancelPC]
         /\ DockerTo(r)
<1>1. /\ run[r] \in RunState /\ run \in [Runs -> RunState]
      /\ docker[r] \in Daemon /\ canceller \in [Runs -> CancelPC]
  BY DEF TypeOK
<1>2. CASE CancelLookup(r)
  BY <1>1, <1>2, KeepDocker DEF CancelLookup, CancelPC
<1>3. CASE CancelClaim(r)
  <2>1. /\ canceller' \in [Runs -> CancelPC] /\ DockerTo(r)
        /\ \A q \in Runs \ {r} : canceller'[q] = canceller[q]
    BY <1>1, <1>3, KeepDocker DEF CancelClaim, CancelPC
  <2>2. CASE UNCHANGED run
    BY <1>1, <2>1, <2>2
  <2>3. CASE run' = [run EXCEPT ![r].done = TRUE, ![r].ctx = FALSE,
                                ![r].cancelledAt = run[r].pc]
    <3> DEFINE n == [run[r] EXCEPT !.done = TRUE, !.ctx = FALSE,
                                   !.cancelledAt = run[r].pc]
    <3>1. run' = [run EXCEPT ![r] = n]
      BY <1>1, <2>3
    <3>2. n \in RunState /\ n.pc = run[r].pc
      BY <1>1 DEF RunState
    <3> QED
      BY <1>1, <2>1, <3>1, <3>2
  <2> QED
    BY <1>3, <2>2, <2>3 DEF CancelClaim
<1>4. ASSUME NEW D, D \in {{docker[r]}, WithoutAgent({docker[r]}),
                           WithoutProxy({docker[r]}), WithoutNetwork({docker[r]})},
             Settle(r, D)
      PROVE  DockerTo(r)
  <2>1. /\ {docker[r]} \in SUBSET Daemon
        /\ WithoutAgent({docker[r]}) \in SUBSET Daemon
        /\ WithoutProxy({docker[r]}) \in SUBSET Daemon
        /\ WithoutNetwork({docker[r]}) \in SUBSET Daemon
    BY <1>1, OneRemoval DEF LessAgent, LessProxy, LessNetwork
  <2> QED
    BY <1>4, <2>1, SettleDocker
<1>5. CASE CancelAgent(r) \/ CancelProxy(r) \/ CancelNetwork(r)
  <2>1. DockerTo(r)
    BY <1>4, <1>5 DEF CancelAgent, CancelProxy, CancelNetwork
  <2> QED
    BY <1>1, <1>5, <2>1 DEF CancelAgent, CancelProxy, CancelNetwork, CancelPC
<1>7. CASE CancelReport(r)
  BY <1>1, <1>7, KeepDocker DEF CancelReport, CancelPC
<1> QED
  BY <1>2, <1>3, <1>5, <1>7 DEF CancelStep

LEMMA CancelSends ==
  ASSUME NEW r \in Runs, CancelStep(r)
  PROVE  UNCHANGED out \/ \E kinds \in Messages : Send(r, kinds)
BY DEF CancelStep, CancelLookup, CancelClaim, CancelAgent, CancelProxy,
       CancelNetwork, CancelReport, Messages, Endings

LEMMA OutType ==
  ASSUME TypeOK, NEW r \in Runs, UNCHANGED connected,
         UNCHANGED out \/ \E kinds \in Messages : Send(r, kinds)
  PROVE  /\ writable' \in BOOLEAN /\ (writable' => connected')
         /\ sent' \in [Runs -> Seq(EventKind)]
         /\ refused' \subseteq Runs
BY SendType DEF out, TypeOK

LEMMA TypeStep == TypeOK /\ [Next]_vars => TypeOK'
<1> SUFFICES ASSUME TypeOK, [Next]_vars PROVE TypeOK'
  OBVIOUS
<1>1. CASE Disconnect
  <2>1. run' \in [Runs -> RunState] /\ \A r \in Runs : run'[r].pc = run[r].pc
    <3>1. \A r \in Runs : run[r] \in RunState
      BY DEF TypeOK
    <3>2. ASSUME NEW r \in Runs
          PROVE  /\ [run[r] EXCEPT !.ctx = FALSE, !.cut = TRUE] \in RunState
                 /\ [run[r] EXCEPT !.ctx = FALSE, !.cut = TRUE].pc = run[r].pc
      BY <3>1 DEF RunState
    <3> QED
      BY <1>1, <3>1, <3>2 DEF Disconnect
  <2> QED
    BY <1>1, <2>1 DEF Disconnect, TypeOK
<1>2. CASE Reconnect
  BY <1>2, WorkerRunAssumption DEF Reconnect, TypeOK
<1>3. ASSUME NEW r \in Runs, RunArrives(r) PROVE TypeOK'
  <2>1. /\ run' \in [Runs -> RunState]
        /\ run[r].pc = "idle" /\ run'[r].pc = "spawned"
        /\ \A q \in Runs \ {r} : run'[q] = run[q]
    <3>1. run' = [run EXCEPT ![r] = [run[r] EXCEPT !.pc = "spawned"]]
      BY <1>3 DEF RunArrives
    <3>2. /\ [run[r] EXCEPT !.pc = "spawned"] \in RunState
          /\ [run[r] EXCEPT !.pc = "spawned"].pc = "spawned"
      BY SetField DEF RunnerPC
    <3>3. run \in [Runs -> RunState] /\ run[r].pc = "idle"
      BY <1>3 DEF RunArrives, TypeOK
    <3> QED
      BY <3>1, <3>2, <3>3
  <2> QED
    BY <1>3, <2>1 DEF RunArrives, TypeOK, out
<1>4. ASSUME NEW r \in Runs, CancelArrives(r) PROVE TypeOK'
  BY <1>4 DEF CancelArrives, TypeOK, CancelPC, out
<1>5. ASSUME NEW r \in Runs, RunnerStep(r) PROVE TypeOK'
  <2>1. RunTo(r) /\ DockerTo(r)
    BY <1>5, RunnerSteps
  <2>2. /\ writable' \in BOOLEAN /\ (writable' => connected')
        /\ sent' \in [Runs -> Seq(EventKind)] /\ refused' \subseteq Runs
    BY <1>5, RunnerSends, OutType DEF RunnerStep
  <2>3. registered' =
          {q \in Runs : run'[q].pc \notin {"idle", "spawned", "returned"}}
    BY <2>1 DEF RunTo, TypeOK
  <2> QED
    BY <1>5, <2>1, <2>2, <2>3 DEF RunnerStep, RunTo, DockerTo, TypeOK
<1>6. ASSUME NEW r \in Runs, CancelStep(r) PROVE TypeOK'
  <2>1. /\ writable' \in BOOLEAN /\ (writable' => connected')
        /\ sent' \in [Runs -> Seq(EventKind)] /\ refused' \subseteq Runs
    BY <1>6, CancelSends, OutType DEF CancelStep
  <2> QED
    BY <1>6, <2>1, CancelKeepsPlace DEF CancelStep, DockerTo, TypeOK
<1>7. ASSUME NEW r \in Runs, AgentExits(r) PROVE TypeOK'
  <2>1. [docker[r] EXCEPT !.agent = "exited"] \in Daemon
    BY <1>7, DaemonType DEF TypeOK, Container
  <2>2. docker' = [docker EXCEPT ![r] = [docker[r] EXCEPT !.agent = "exited"]]
    BY <1>7 DEF AgentExits
  <2> QED
    BY <1>7, <2>1, <2>2 DEF AgentExits, TypeOK, out
<1>8. CASE UNCHANGED vars
  BY <1>8 DEF vars, out, TypeOK
<1> QED
  BY <1>1, <1>2, <1>3, <1>4, <1>5, <1>6, <1>7, <1>8 DEF Next

(***************************************************************************)
(* A run is in w.runs exactly while its goroutine is between its           *)
(* registration and its return, and no field leaves its type.              *)
(***************************************************************************)
THEOREM TypeCorrect == Spec => []TypeOK
<1>1. Init => TypeOK
  <2> SUFFICES ASSUME Init PROVE TypeOK
    OBVIOUS
  <2>1. run \in [Runs -> RunState] /\ \A r \in Runs : run[r].pc = "idle"
    <3> DEFINE fresh == [pc : {"idle"}, mode : Modes, ctx : {TRUE},
                         doomed : {FALSE}, done : {FALSE}, proc : {FALSE},
                         netProc : {FALSE}, netName : {FALSE}, cut : {FALSE},
                         fault : {"none"}, cancelledAt : {"idle"}]
    <3>1. \A n \in fresh : n \in RunState /\ n.pc = "idle"
      BY DEF RunState, RunnerPC
    <3>2. run \in [Runs -> fresh]
      BY DEF Init
    <3> HIDE DEF fresh
    <3> QED
      BY <3>1, <3>2
  <2>2. docker \in [Runs -> Daemon]
    BY DEF Init, Daemon, Container
  <2> QED
    BY <2>1, <2>2, WorkerRunAssumption DEF Init, TypeOK, CancelPC
<1> QED
  BY <1>1, TypeStep, PTL DEF Spec

-----------------------------------------------------------------------------
(* Who has claimed the end of a run *)

Claimed == {"agent", "proxy", "network", "report", "finished"}

\* The error paths that go on to report the end.
Faults == {"allowlist", "proxyRun", "agentRun", "wait"}

\* What a step of the runner does to the fields of its runState.
RunnerEffect(r) ==
  /\ run'[r].mode = run[r].mode
  /\ run'[r].ctx = run[r].ctx
  /\ run'[r].cut = run[r].cut
  /\ run'[r].cancelledAt = run[r].cancelledAt
  /\ run[r].done => run'[r].done
  /\ run'[r].done => run[r].done \/ run'[r].pc = "returned"
  /\ run'[r].doomed => run[r].doomed \/ ~run[r].ctx
  /\ run'[r].fault = "workspace" =>
       run'[r].pc = "returned" \/ run'[r].fault = run[r].fault
  /\ run[r].pc # "returned"

LEMMA RunnerFields ==
  ASSUME TypeOK, NEW r \in Runs, RunnerStep(r)
  PROVE  RunnerEffect(r)
<1> USE DEF RunnerEffect
<1>1. run[r] \in RunState /\ run \in [Runs -> RunState]
  BY DEF TypeOK
<1>2. ASSUME run[r].pc # "returned", NEW pc, run' = [run EXCEPT ![r].pc = pc]
      PROVE  RunnerEffect(r)
  BY <1>1, <1>2 DEF RunState
<1>3. ASSUME run[r].pc # "returned", NEW pc, run' = [run EXCEPT ![r] = Goto(r, pc)]
      PROVE  RunnerEffect(r)
  BY <1>1, <1>3 DEF RunState, Goto
<1>4. ASSUME run[r].pc # "returned", NEW f \in Faults,
             Fail(r, [run[r] EXCEPT !.fault = f])
      PROVE  RunnerEffect(r)
  BY <1>1, <1>4 DEF RunState, Fail, Faults
<1>5. ASSUME run[r].pc # "returned", Fail(r, run[r])
      PROVE  RunnerEffect(r)
  BY <1>1, <1>5 DEF RunState, Fail
<1>6. ASSUME run[r].pc # "returned", Return(r)
      PROVE  RunnerEffect(r)
  BY <1>1, <1>6 DEF RunState, Return
<1>7. CASE Register(r) \/ Begin(r) \/ ExecStart(r) \/ ExecWait(r)
  BY <1>2, <1>5, <1>6, <1>7 DEF Register, Begin, ExecStart, ExecWait
<1>8. CASE MakeWorkspace(r)
  BY <1>1, <1>2, <1>8 DEF MakeWorkspace, RunState
<1>9. CASE Prepare(r)
  BY <1>3, <1>5, <1>9 DEF Prepare
<1>10. CASE NetCreate(r)
  BY <1>1, <1>5, <1>10 DEF NetCreate, RunState
<1>11. CASE WriteAllowlist(r)
  BY <1>3, <1>4, <1>11 DEF WriteAllowlist, Faults
<1>12. CASE ProxyRun(r)
  <2>1. CASE run' = [run EXCEPT ![r] = [Goto(r, "netConnect") EXCEPT !.netProc = TRUE]]
    <3>1. run'[r] = [run[r] EXCEPT !.pc = "netConnect", !.doomed = ~run[r].ctx,
                                   !.netProc = TRUE]
      BY <1>1, <2>1 DEF Goto, RunState
    <3> QED
      BY <1>1, <1>12, <3>1 DEF ProxyRun, RunState
  <2> QED
    BY <1>4, <1>12, <2>1 DEF ProxyRun, Faults
<1>13. CASE NetConnect(r)
  BY <1>3, <1>5, <1>13 DEF NetConnect
<1>14. CASE AgentRun(r)
  <2>1. CASE run' = [run EXCEPT ![r] = [Goto(r, "wait") EXCEPT !.proc = TRUE]]
    <3>1. run'[r] = [run[r] EXCEPT !.pc = "wait", !.doomed = ~run[r].ctx,
                                   !.proc = TRUE]
      BY <1>1, <2>1 DEF Goto, RunState
    <3> QED
      BY <1>1, <1>14, <3>1 DEF AgentRun, RunState
  <2> QED
    BY <1>4, <1>6, <1>14, <2>1 DEF AgentRun, Faults
<1>15. CASE Wait(r)
  BY <1>2, <1>4, <1>6, <1>15 DEF Wait, Faults
<1>16. CASE Complete(r)
  BY <1>1, <1>16 DEF Complete, RunState
<1> QED
  BY <1>7, <1>8, <1>9, <1>10, <1>11, <1>12, <1>13, <1>14, <1>15, <1>16
     DEF RunnerStep

\* Who has claimed the end of a run, and why its context is over.
Claims(r) ==
  /\ canceller[r] \in Claimed => run[r].done /\ ~run[r].ctx
  /\ run[r].done => run[r].pc = "returned" \/ canceller[r] \in Claimed
  /\ ~run[r].ctx => run[r].cut \/ canceller[r] \in Claimed
  /\ run[r].fault = "workspace" => run[r].pc = "returned"
  /\ run[r].doomed => ~run[r].ctx

ClaimsInv == \A r \in Runs : Claims(r)

\* What a step of the canceller does to the runState.
CancelEffect(r) ==
  \/ /\ run'[r] = run[r]
     /\ CancelClaim(r) => run[r].done
     /\ canceller'[r] \in Claimed <=> canceller[r] \in Claimed
  \/ /\ CancelClaim(r)
     /\ canceller[r] = "found" /\ canceller'[r] = "agent"
     /\ ~run[r].done /\ run'[r].done /\ ~run'[r].ctx
     /\ run'[r].cancelledAt = run[r].pc
     /\ run'[r].pc = run[r].pc
     /\ run'[r].mode = run[r].mode
     /\ run'[r].cut = run[r].cut
     /\ run'[r].fault = run[r].fault
     /\ run'[r].doomed = run[r].doomed
     /\ run'[r].proc = run[r].proc
     /\ run'[r].netProc = run[r].netProc
     /\ run'[r].netName = run[r].netName

LEMMA CancelFields ==
  ASSUME TypeOK, NEW r \in Runs, CancelStep(r)
  PROVE  CancelEffect(r)
<1>1. /\ run[r] \in RunState /\ run \in [Runs -> RunState]
      /\ canceller \in [Runs -> CancelPC]
  BY DEF TypeOK
<1>2. CASE CancelLookup(r)
  BY <1>1, <1>2 DEF CancelLookup, CancelClaim, CancelEffect, Claimed
<1>3. CASE CancelClaim(r)
  <2>1. CASE run[r].done
    BY <1>1, <1>3, <2>1 DEF CancelClaim, CancelEffect, Claimed
  <2>2. CASE ~run[r].done
    <3>1. run' = [run EXCEPT ![r].done = TRUE, ![r].ctx = FALSE,
                             ![r].cancelledAt = run[r].pc]
      BY <1>3, <2>2 DEF CancelClaim
    <3>2. run'[r] = [run[r] EXCEPT !.done = TRUE, !.ctx = FALSE,
                                   !.cancelledAt = run[r].pc]
      BY <1>1, <3>1
    <3> QED
      BY <1>1, <1>3, <2>2, <3>2 DEF CancelClaim, CancelEffect, RunState
  <2> QED
    BY <2>1, <2>2
<1>4. CASE CancelAgent(r) \/ CancelProxy(r) \/ CancelNetwork(r) \/ CancelReport(r)
  BY <1>1, <1>4
     DEF CancelAgent, CancelProxy, CancelNetwork, CancelReport, CancelClaim,
         CancelEffect, Claimed
<1> QED
  BY <1>2, <1>3, <1>4 DEF CancelStep

\* Nothing of one run is sent.
Silent(r) == sent'[r] = sent[r] /\ (r \in refused' <=> r \in refused)

\* What a step of anybody does to one run.
Untouched(r) ==
  /\ run'[r] = run[r] /\ canceller'[r] = canceller[r] /\ docker'[r] = docker[r]
  /\ Silent(r)

CutOff(r) ==
  /\ run'[r] = [run[r] EXCEPT !.ctx = FALSE, !.cut = TRUE]
  /\ canceller'[r] = canceller[r] /\ docker'[r] = docker[r]
  /\ Silent(r)

Arrives(r) ==
  /\ run[r].pc = "idle"
  /\ run'[r] = [run[r] EXCEPT !.pc = "spawned"]
  /\ canceller'[r] = canceller[r] /\ docker'[r] = docker[r]
  /\ Silent(r)

Asks(r) ==
  /\ canceller[r] = "none" /\ canceller'[r] = "spawned"
  /\ run'[r] = run[r] /\ docker'[r] = docker[r] /\ Silent(r)

Ends(r) ==
  /\ docker[r].agent = "running"
  /\ docker'[r] = [docker[r] EXCEPT !.agent = "exited"]
  /\ run'[r] = run[r] /\ canceller'[r] = canceller[r] /\ Silent(r)

LEMMA OneRun ==
  ASSUME TypeOK, NEW r \in Runs, [Next]_vars
  PROVE  \/ Untouched(r) \/ CutOff(r) \/ Arrives(r) \/ Asks(r) \/ Ends(r)
         \/ RunnerStep(r) \/ CancelStep(r)
<1>1. /\ run \in [Runs -> RunState] /\ canceller \in [Runs -> CancelPC]
      /\ docker \in [Runs -> Daemon] /\ sent \in [Runs -> Seq(EventKind)]
  BY DEF TypeOK
<1>2. ASSUME NEW q \in Runs, q # r,
             UNCHANGED out \/ \E kinds \in Messages : Send(q, kinds)
      PROVE  Silent(r)
  <2>1. CASE UNCHANGED out
    BY <2>1 DEF out, Silent
  <2>2. ASSUME NEW kinds \in Messages, Send(q, kinds) PROVE Silent(r)
    <3>1. PICK k \in Messages : sent' = [sent EXCEPT ![q] = sent[q] \o k]
      BY <1>2, <2>2, SendEffect
    <3>2. refused' \in {refused, refused \cup {q}}
      BY <1>2, <2>2, SendEffect
    <3> QED
      BY <1>1, <1>2, <3>1, <3>2 DEF Silent
  <2> QED
    BY <1>2, <2>1, <2>2
<1>3. CASE Disconnect \/ Reconnect \/ UNCHANGED vars
  BY <1>1, <1>3 DEF Disconnect, Reconnect, vars, out, Untouched, CutOff, Silent
<1>4. ASSUME NEW q \in Runs, RunArrives(q) \/ CancelArrives(q) \/ AgentExits(q)
      PROVE  Untouched(r) \/ Arrives(r) \/ Asks(r) \/ Ends(r)
  BY <1>1, <1>4
     DEF RunArrives, CancelArrives, AgentExits, Untouched, Arrives, Asks, Ends,
         Silent, out
<1>5. ASSUME NEW q \in Runs, q # r, RunnerStep(q) PROVE Untouched(r)
  BY <1>2, <1>5, RunnerSteps, RunnerSends
     DEF RunTo, DockerTo, RunnerStep, Untouched
<1>6. ASSUME NEW q \in Runs, q # r, CancelStep(q) PROVE Untouched(r)
  BY <1>2, <1>6, CancelSends, CancelKeepsPlace DEF DockerTo, Untouched
<1> QED
  BY <1>3, <1>4, <1>5, <1>6 DEF Next

LEMMA ClaimsStep == TypeOK /\ ClaimsInv /\ [Next]_vars => ClaimsInv'
<1> SUFFICES ASSUME TypeOK, [Next]_vars, NEW r \in Runs, Claims(r)
             PROVE  Claims(r)'
  BY DEF ClaimsInv
<1>1. run[r] \in RunState
  BY DEF TypeOK
<1>2. CASE Untouched(r) \/ CutOff(r) \/ Arrives(r) \/ Asks(r) \/ Ends(r)
  BY <1>1, <1>2
     DEF Untouched, CutOff, Arrives, Asks, Ends, Claims, RunState, Claimed
<1>3. CASE RunnerStep(r)
  <2>1. RunnerEffect(r) /\ canceller'[r] = canceller[r]
    BY <1>3, RunnerFields DEF RunnerStep
  <2> QED
    BY <2>1 DEF RunnerEffect, Claims
<1>4. CASE CancelStep(r)
  BY <1>4, CancelFields DEF CancelEffect, Claims, Claimed
<1> QED
  BY <1>2, <1>3, <1>4, OneRun

-----------------------------------------------------------------------------
(* The end is reported once *)

CompletedAt(s) == {i \in DOMAIN s : s[i] = "completed"}

LEMMA CountSent ==
  ASSUME NEW s \in Seq(EventKind), IsFiniteSet(CompletedAt(s))
  PROVE  /\ \A kinds \in Quiets : CompletedAt(s \o kinds) = CompletedAt(s)
         /\ \A kinds \in Messages :
              /\ IsFiniteSet(CompletedAt(s \o kinds))
              /\ Cardinality(CompletedAt(s \o kinds))
                   <= Cardinality(CompletedAt(s)) + 1
<1> DEFINE n == Len(s)
<1>1. n \in Nat /\ DOMAIN s = 1..n
  OBVIOUS
<1>2. ASSUME NEW kinds \in Quiets
      PROVE  CompletedAt(s \o kinds) = CompletedAt(s)
  <2>1. CASE kinds = <<>>
    BY <2>1 DEF CompletedAt
  <2>2. ASSUME NEW k \in {"status", "error"}, kinds = <<k>>
        PROVE  CompletedAt(s \o kinds) = CompletedAt(s)
    <3>1. /\ DOMAIN (s \o kinds) = 1..(n + 1)
          /\ (s \o kinds)[n + 1] = k
          /\ \A i \in 1..n : (s \o kinds)[i] = s[i]
      BY <1>1, <2>2
    <3> HIDE DEF n
    <3> QED
      BY <1>1, <3>1 DEF CompletedAt
  <2> QED
    BY <1>2, <2>1, <2>2 DEF Quiets
<1>3. ASSUME NEW kinds \in Messages
      PROVE  \/ CompletedAt(s \o kinds) = CompletedAt(s)
             \/ \E x : CompletedAt(s \o kinds) = CompletedAt(s) \cup {x}
  <2>1. CASE kinds = <<"completed">>
    <3>1. /\ DOMAIN (s \o kinds) = 1..(n + 1)
          /\ (s \o kinds)[n + 1] = "completed"
          /\ \A i \in 1..n : (s \o kinds)[i] = s[i]
      BY <1>1, <2>1
    <3> HIDE DEF n
    <3>2. CompletedAt(s \o kinds) = CompletedAt(s) \cup {n + 1}
      BY <1>1, <3>1 DEF CompletedAt
    <3> QED
      BY <3>2
  <2>2. ASSUME NEW k \in {"status", "error"}, kinds = <<k, "completed">>
        PROVE  \E x : CompletedAt(s \o kinds) = CompletedAt(s) \cup {x}
    <3>1. /\ DOMAIN (s \o kinds) = 1..(n + 2)
          /\ (s \o kinds)[n + 1] = k
          /\ (s \o kinds)[n + 2] = "completed"
          /\ \A i \in 1..n : (s \o kinds)[i] = s[i]
      BY <1>1, <2>2
    <3> HIDE DEF n
    <3>2. CompletedAt(s \o kinds) = CompletedAt(s) \cup {n + 2}
      BY <1>1, <3>1 DEF CompletedAt
    <3> QED
      BY <3>2
  <2> QED
    BY <1>2, <1>3, <2>1, <2>2 DEF Messages, Endings
<1>4. ASSUME NEW kinds \in Messages
      PROVE  /\ IsFiniteSet(CompletedAt(s \o kinds))
             /\ Cardinality(CompletedAt(s \o kinds))
                  <= Cardinality(CompletedAt(s)) + 1
  <2>1. Cardinality(CompletedAt(s)) \in Nat
    BY FS_CardinalityType
  <2>2. CASE CompletedAt(s \o kinds) = CompletedAt(s)
    BY <2>1, <2>2
  <2>3. ASSUME NEW x, CompletedAt(s \o kinds) = CompletedAt(s) \cup {x}
        PROVE  /\ IsFiniteSet(CompletedAt(s \o kinds))
               /\ Cardinality(CompletedAt(s \o kinds))
                    <= Cardinality(CompletedAt(s)) + 1
    <3>1. /\ IsFiniteSet(CompletedAt(s) \cup {x})
          /\ Cardinality(CompletedAt(s) \cup {x}) =
               IF x \in CompletedAt(s) THEN Cardinality(CompletedAt(s))
               ELSE Cardinality(CompletedAt(s)) + 1
      BY FS_AddElement
    <3> QED
      BY <2>1, <2>3, <3>1
  <2> QED
    BY <1>3, <2>2, <2>3
<1> QED
  BY <1>2, <1>4

\* Whoever will still report the end has done so less often.
Reporting == {"agent", "proxy", "network", "report"}

Reports(r) ==
  (IF run[r].fault = "workspace" THEN 1 ELSE 0)
  + (IF run[r].done /\ canceller[r] \notin Reporting THEN 1 ELSE 0)

Budget(r) ==
  /\ IsFiniteSet(CompletedAt(sent[r]))
  /\ Cardinality(CompletedAt(sent[r])) <= Reports(r)

BudgetInv == \A r \in Runs : Budget(r)

\* What a step has added to the events of a run.
Quiet(r) ==
  \/ sent'[r] = sent[r]
  \/ \E kinds \in Quiets : sent'[r] = sent[r] \o kinds

Ending(r) ==
  Quiet(r) \/ \E kinds \in Messages : sent'[r] = sent[r] \o kinds

LEMMA QuietBudget ==
  ASSUME TypeOK, NEW r \in Runs, Budget(r), Quiet(r), Reports(r) <= Reports(r)'
  PROVE  Budget(r)'
<1>1. CompletedAt(sent'[r]) = CompletedAt(sent[r])
  BY CountSent DEF Quiet, Budget, TypeOK
<1>2. Cardinality(CompletedAt(sent[r])) \in Nat
  BY FS_CardinalityType DEF Budget
<1>3. Reports(r) \in Nat /\ Reports(r)' \in Nat
  BY DEF Reports
<1> QED
  BY <1>1, <1>2, <1>3 DEF Budget

LEMMA EndingBudget ==
  ASSUME TypeOK, NEW r \in Runs, Budget(r), Ending(r),
         Reports(r) + 1 <= Reports(r)'
  PROVE  Budget(r)'
<1>1. Reports(r) \in Nat /\ Reports(r)' \in Nat
  BY DEF Reports
<1>2. CASE Quiet(r)
  BY <1>1, <1>2, QuietBudget
<1>3. ASSUME NEW kinds \in Messages, sent'[r] = sent[r] \o kinds
      PROVE  Budget(r)'
  <2>1. /\ IsFiniteSet(CompletedAt(sent'[r]))
        /\ Cardinality(CompletedAt(sent'[r])) <= Cardinality(CompletedAt(sent[r])) + 1
    BY <1>3, CountSent DEF Budget, TypeOK
  <2>2. Cardinality(CompletedAt(sent[r])) \in Nat
    BY FS_CardinalityType DEF Budget
  <2>3. Cardinality(CompletedAt(sent'[r])) \in Nat
    BY <2>1, FS_CardinalityType
  <2> QED
    BY <1>1, <2>1, <2>2, <2>3 DEF Budget
<1> QED
  BY <1>2, <1>3 DEF Ending

LEMMA SendQuiet ==
  ASSUME TypeOK, NEW r \in Runs, NEW kinds \in Quiets, Send(r, kinds)
  PROVE  Quiet(r)
<1>1. kinds \in Messages
  BY DEF Messages
<1>2. PICK k \in Quiets : sent' = [sent EXCEPT ![r] = sent[r] \o k]
  BY <1>1, SendEffect
<1> QED
  BY <1>2 DEF Quiet, TypeOK

LEMMA SendEnding ==
  ASSUME TypeOK, NEW r \in Runs, NEW kinds \in Messages, Send(r, kinds)
  PROVE  Ending(r)
<1>1. PICK k \in Messages : sent' = [sent EXCEPT ![r] = sent[r] \o k]
  BY SendEffect
<1> QED
  BY <1>1 DEF Ending, TypeOK

LEMMA RunnerReports ==
  ASSUME TypeOK, NEW r \in Runs, Claims(r), RunnerStep(r)
  PROVE  \/ Quiet(r) /\ Reports(r) <= Reports(r)'
         \/ Ending(r) /\ Reports(r) + 1 <= Reports(r)'
<1> USE DEF Messages, Quiets, Endings, out
<1>1. RunnerEffect(r) /\ canceller' = canceller
  BY RunnerFields DEF RunnerStep
<1>2. run[r] \in RunState /\ run \in [Runs -> RunState]
  BY DEF TypeOK
<1>3. run[r].fault # "workspace" /\ Reports(r) \in Nat /\ Reports(r)' \in Nat
  BY <1>1 DEF RunnerEffect, Claims, Reports
<1>4. Reports(r) <= Reports(r)'
  BY <1>1, <1>3 DEF RunnerEffect, Reports
<1>5. ASSUME \/ UNCHANGED out
             \/ \E kinds \in Quiets : Send(r, kinds)
      PROVE  Quiet(r) /\ Reports(r) <= Reports(r)'
  BY <1>4, <1>5, SendQuiet DEF Quiet
<1>6. CASE MakeWorkspace(r)
  <2>1. CASE UNCHANGED out
    BY <1>5, <2>1
  <2>2. CASE Send(r, <<"error", "completed">>)
             /\ run' = [run EXCEPT ![r].pc = "returned", ![r].fault = "workspace"]
    <3>1. Ending(r)
      BY <2>2, SendEnding
    <3>2. run'[r].fault = "workspace"
      BY <1>2, <2>2 DEF RunState
    <3>3. Reports(r)' >= Reports(r) + 1
      BY <1>1, <1>3, <3>2 DEF Reports, RunnerEffect
    <3> QED
      BY <1>3, <3>1, <3>3
  <2> QED
    BY <1>6, <2>1, <2>2 DEF MakeWorkspace
<1>7. CASE Complete(r)
  <2>1. CASE run[r].done
    BY <1>5, <1>7, <2>1 DEF Complete
  <2>2. CASE ~run[r].done
    <3>1. Ending(r)
      BY <1>7, <2>2, SendEnding DEF Complete
    <3>2. run'[r].done
      BY <1>2, <1>7 DEF Complete, RunState
    <3>3. canceller[r] \notin Reporting
      BY <2>2 DEF Claims, Claimed, Reporting
    <3> QED
      BY <1>1, <1>3, <2>2, <3>1, <3>2, <3>3 DEF Reports
  <2> QED
    BY <2>1, <2>2
<1>8. CASE Register(r) \/ Begin(r) \/ Prepare(r) \/ ExecStart(r) \/ ExecWait(r)
  BY <1>5, <1>8 DEF Register, Begin, Prepare, ExecStart, ExecWait, Fail
<1>9. CASE NetCreate(r) \/ WriteAllowlist(r) \/ ProxyRun(r) \/ NetConnect(r)
  BY <1>5, <1>9 DEF NetCreate, WriteAllowlist, ProxyRun, NetConnect, Fail
<1>10. CASE AgentRun(r) \/ Wait(r)
  BY <1>5, <1>10 DEF AgentRun, Wait, Fail
<1> QED
  BY <1>6, <1>7, <1>8, <1>9, <1>10 DEF RunnerStep

LEMMA CancelReports ==
  ASSUME TypeOK, NEW r \in Runs, Claims(r), CancelStep(r)
  PROVE  \/ Quiet(r) /\ Reports(r) <= Reports(r)'
         \/ Ending(r) /\ Reports(r) + 1 <= Reports(r)'
<1>1. Reports(r) \in Nat /\ Reports(r)' \in Nat
  BY DEF Reports
<1>2. canceller \in [Runs -> CancelPC]
  BY DEF TypeOK
<1>3. CASE CancelLookup(r)
  BY <1>1, <1>2, <1>3 DEF CancelLookup, Quiet, out, Reports, Reporting
<1>4. CASE CancelClaim(r)
  <2>1. Quiet(r)
    BY <1>4 DEF CancelClaim, Quiet, out
  <2>2. Reports(r) <= Reports(r)'
    <3>1. CASE run[r].done
      BY <1>1, <1>2, <1>4, <3>1 DEF CancelClaim, Reports, Reporting
    <3>2. CASE ~run[r].done
      <4>1. canceller'[r] = "agent"
        BY <1>2, <1>4, <3>2 DEF CancelClaim
      <4>2. run'[r].fault = run[r].fault
        BY CancelFields DEF CancelEffect
      <4> QED
        BY <1>1, <3>2, <4>1, <4>2 DEF Reports, Reporting
    <3> QED
      BY <3>1, <3>2
  <2> QED
    BY <2>1, <2>2
<1>5. CASE CancelAgent(r) \/ CancelProxy(r) \/ CancelNetwork(r)
  BY <1>1, <1>2, <1>5
     DEF CancelAgent, CancelProxy, CancelNetwork, Quiet, out, Reports, Reporting
<1>6. CASE CancelReport(r)
  <2>1. Ending(r)
    BY <1>6, SendEnding DEF CancelReport, Messages, Endings
  <2>2. run[r].done /\ canceller[r] = "report" /\ canceller'[r] = "finished"
        /\ run' = run
    BY <1>2, <1>6 DEF CancelReport, Claims, Claimed
  <2>3. Reports(r) + 1 <= Reports(r)'
    BY <1>1, <2>2 DEF Reports, Reporting
  <2> QED
    BY <2>1, <2>3
<1> QED
  BY <1>3, <1>4, <1>5, <1>6 DEF CancelStep

LEMMA BudgetStep ==
  TypeOK /\ ClaimsInv /\ BudgetInv /\ [Next]_vars => BudgetInv'
<1> SUFFICES ASSUME TypeOK, [Next]_vars, NEW r \in Runs, Claims(r), Budget(r)
             PROVE  Budget(r)'
  BY DEF ClaimsInv, BudgetInv
<1>1. run[r] \in RunState
  BY DEF TypeOK
<1>2. CASE Untouched(r) \/ CutOff(r) \/ Arrives(r) \/ Asks(r) \/ Ends(r)
  <2>1. Quiet(r)
    BY <1>2 DEF Untouched, CutOff, Arrives, Asks, Ends, Silent, Quiet
  <2>2. Reports(r) <= Reports(r)'
    <3>1. /\ run'[r].fault = run[r].fault
          /\ run'[r].done <=> run[r].done
          /\ canceller'[r] \notin Reporting <=> canceller[r] \notin Reporting
      BY <1>1, <1>2
         DEF Untouched, CutOff, Arrives, Asks, Ends, Reporting, RunState
    <3> QED
      BY <3>1 DEF Reports
  <2> QED
    BY <2>1, <2>2, QuietBudget
<1>3. CASE RunnerStep(r)
  BY <1>3, RunnerReports, QuietBudget, EndingBudget
<1>4. CASE CancelStep(r)
  BY <1>4, CancelReports, QuietBudget, EndingBudget
<1> QED
  BY <1>2, <1>3, <1>4, OneRun

LEMMA ClaimsInvariant == Spec => []ClaimsInv
<1>1. Init => ClaimsInv
  BY DEF Init, ClaimsInv, Claims, Claimed
<1> QED
  BY <1>1, ClaimsStep, TypeCorrect, PTL DEF Spec

(***************************************************************************)
(* However a runner and a canceller of the same run interleave, and over   *)
(* however many connections, the gateway is told of its end once, or twice *)
(* where the workspace could not be made.                                  *)
(***************************************************************************)
THEOREM EndReportedOnce == Spec => []CompletedOnce
<1>1. Init => BudgetInv
  <2> SUFFICES ASSUME Init, NEW r \in Runs PROVE Budget(r)
    BY DEF BudgetInv
  <2>1. CompletedAt(sent[r]) = {}
    BY DEF Init, CompletedAt
  <2>2. Reports(r) \in Nat
    BY DEF Reports
  <2> QED
    BY <2>1, <2>2, FS_EmptySet DEF Budget
<1>2. BudgetInv => CompletedOnce
  <2> SUFFICES ASSUME BudgetInv, NEW r \in Runs
               PROVE  Cardinality(Completions(r))
                        <= IF run[r].fault = "workspace" THEN 2 ELSE 1
    BY DEF CompletedOnce
  <2>1. Completions(r) = CompletedAt(sent[r])
    BY DEF Completions, CompletedAt
  <2>2. Cardinality(Completions(r)) \in Nat
    BY <2>1, FS_CardinalityType DEF BudgetInv, Budget
  <2> QED
    BY <2>1, <2>2 DEF BudgetInv, Budget, Reports
<1> QED
  BY <1>1, <1>2, BudgetStep, ClaimsInvariant, TypeCorrect, PTL DEF Spec

-----------------------------------------------------------------------------
(* The end is reported at all *)

\* Whoever has claimed the end has reported it or is still on the way to, and
\* a runner whose connection held leaves a run to no one else.
Told(r) ==
  /\ canceller[r] = "found" \/ canceller[r] \in Claimed => run[r].pc # "idle"
  /\ run[r].done => Reported(r) \/ canceller[r] \in Reporting
  /\ run[r].pc = "returned" /\ ~run[r].cut => run[r].done \/ Reported(r)

ToldInv == \A r \in Runs : Told(r)

LEMMA EndingTells ==
  ASSUME NEW s \in Seq(EventKind), NEW kinds \in Endings
  PROVE  CompletedAt(s \o kinds) # {}
<1>1. PICK n \in {1, 2} : n = Len(kinds) /\ kinds[n] = "completed"
  BY DEF Endings
<1>2. kinds \in Seq(EventKind)
  BY KindsType DEF Messages
<1>3. /\ Len(s) + n \in DOMAIN (s \o kinds)
      /\ (s \o kinds)[Len(s) + n] = "completed"
  BY <1>1, <1>2
<1> QED
  BY <1>3 DEF CompletedAt

LEMMA ReportKept ==
  ASSUME NEW s \in Seq(EventKind), NEW kinds \in Seq(EventKind),
         CompletedAt(s) # {}
  PROVE  CompletedAt(s \o kinds) # {}
<1>1. PICK i \in DOMAIN s : s[i] = "completed"
  BY DEF CompletedAt
<1>2. i \in DOMAIN (s \o kinds) /\ (s \o kinds)[i] = s[i]
  BY <1>1
<1> QED
  BY <1>1, <1>2 DEF CompletedAt

LEMMA SendTells ==
  ASSUME TypeOK, NEW r \in Runs, NEW kinds \in Endings, Send(r, kinds)
  PROVE  Reported(r)'
<1>1. kinds \in Messages /\ sent[r] \in Seq(EventKind)
  BY DEF Messages, TypeOK
<1>2. PICK k \in Messages : /\ sent' = [sent EXCEPT ![r] = sent[r] \o k]
                            /\ k \in Endings \/ r \in refused'
  BY <1>1, SendEffect
<1>3. CASE k \in Endings
  <2>1. CompletedAt(sent'[r]) # {}
    BY <1>1, <1>2, <1>3, EndingTells DEF TypeOK
  <2> QED
    BY <2>1 DEF Reported, Completions, CompletedAt
<1> QED
  BY <1>2, <1>3 DEF Reported

LEMMA ReportStays ==
  ASSUME TypeOK, NEW r \in Runs, Ending(r), refused \subseteq refused', Reported(r)
  PROVE  Reported(r)'
<1>1. sent[r] \in Seq(EventKind)
  BY DEF TypeOK
<1>2. \/ sent'[r] = sent[r]
      \/ \E kinds \in Messages : sent'[r] = sent[r] \o kinds
  BY DEF Ending, Quiet, Messages
<1>3. CompletedAt(sent[r]) # {} => CompletedAt(sent'[r]) # {}
  BY <1>1, <1>2, ReportKept, KindsType
<1> QED
  BY <1>3 DEF Reported, Completions, CompletedAt

LEMMA SendKeeps ==
  ASSUME TypeOK, NEW r \in Runs, Reported(r),
         UNCHANGED out \/ \E kinds \in Messages : Send(r, kinds)
  PROVE  Reported(r)'
<1>1. CASE UNCHANGED out
  BY <1>1 DEF out, Reported, Completions
<1>2. ASSUME NEW kinds \in Messages, Send(r, kinds) PROVE Reported(r)'
  <2>1. refused' \in {refused, refused \cup {r}}
    BY <1>2, SendEffect
  <2> QED
    BY <1>2, <2>1, SendEnding, ReportStays
<1> QED
  BY <1>1, <1>2

\* How a runner comes to leave.
LEMMA RunnerLeaves ==
  ASSUME TypeOK, NEW r \in Runs, RunnerStep(r)
  PROVE  /\ run[r].pc # "idle"
         /\ \/ run'[r].pc # "returned"
            \/ Stopped(r) /\ run'[r].done = run[r].done
            \/ run[r].done
            \/ \E kinds \in Endings : Send(r, kinds)
<1>1. run[r] \in RunState /\ run \in [Runs -> RunState]
  BY DEF TypeOK
<1>2. ASSUME Fail(r, run[r]) \/ \E f \in Faults :
                                   Fail(r, [run[r] EXCEPT !.fault = f])
      PROVE  run'[r].pc # "returned"
  BY <1>1, <1>2 DEF Fail, RunState, Faults
<1>3. ASSUME Return(r) PROVE run'[r].done = run[r].done
  BY <1>1, <1>3 DEF Return, RunState
<1>4. ASSUME NEW pc \in RunnerPC \ {"returned"},
             run' = [run EXCEPT ![r].pc = pc] \/ run' = [run EXCEPT ![r] = Goto(r, pc)]
      PROVE  run'[r].pc # "returned"
  BY <1>1, <1>4 DEF RunState, Goto
<1>5. CASE Register(r) \/ Begin(r) \/ ExecStart(r) \/ ExecWait(r)
  BY <1>2, <1>3, <1>4, <1>5 DEF Register, Begin, ExecStart, ExecWait, RunnerPC
<1>6. CASE MakeWorkspace(r)
  BY <1>4, <1>6 DEF MakeWorkspace, RunnerPC, Endings
<1>7. CASE Prepare(r) \/ NetConnect(r)
  BY <1>1, <1>2, <1>4, <1>7 DEF Prepare, NetConnect, RunnerPC, RunState, Modes
<1>8. CASE NetCreate(r)
  BY <1>1, <1>2, <1>8 DEF NetCreate, RunState
<1>9. CASE WriteAllowlist(r)
  BY <1>2, <1>4, <1>9 DEF WriteAllowlist, RunnerPC, Faults
<1>10. CASE ProxyRun(r)
  <2>1. CASE run' = [run EXCEPT ![r] = [Goto(r, "netConnect") EXCEPT !.netProc = TRUE]]
    <3>1. run'[r] = [run[r] EXCEPT !.pc = "netConnect", !.doomed = ~run[r].ctx,
                                   !.netProc = TRUE]
      BY <1>1, <2>1 DEF Goto, RunState
    <3> QED
      BY <1>1, <1>10, <3>1 DEF ProxyRun, RunState
  <2> QED
    BY <1>2, <1>10, <2>1 DEF ProxyRun, Faults
<1>11. CASE AgentRun(r)
  <2>1. CASE run' = [run EXCEPT ![r] = [Goto(r, "wait") EXCEPT !.proc = TRUE]]
    <3>1. run'[r] = [run[r] EXCEPT !.pc = "wait", !.doomed = ~run[r].ctx,
                                   !.proc = TRUE]
      BY <1>1, <2>1 DEF Goto, RunState
    <3> QED
      BY <1>1, <1>11, <3>1 DEF AgentRun, RunState
  <2> QED
    BY <1>2, <1>3, <1>11, <2>1 DEF AgentRun, Faults
<1>12. CASE Wait(r)
  BY <1>2, <1>3, <1>4, <1>12 DEF Wait, RunnerPC, Faults
<1>13. CASE Complete(r)
  BY <1>13 DEF Complete, Endings
<1> QED
  BY <1>5, <1>6, <1>7, <1>8, <1>9, <1>10, <1>11, <1>12, <1>13 DEF RunnerStep

LEMMA RunnerTold ==
  ASSUME TypeOK, NEW r \in Runs, Claims(r), Told(r), RunnerStep(r)
  PROVE  Told(r)'
<1>1. RunnerEffect(r) /\ canceller'[r] = canceller[r] /\ run'[r].pc # "idle"
  BY RunnerFields, RunnerSteps DEF RunnerStep, RunTo
<1>2. Reported(r) => Reported(r)'
  BY RunnerSends, SendKeeps
<1>3. ASSUME ~run[r].done, run'[r].pc = "returned", run'[r].done \/ ~run[r].cut
      PROVE  Reported(r)'
  <2>1. CASE Stopped(r) /\ run'[r].done = run[r].done
    BY <1>3, <2>1 DEF Stopped, Claims
  <2> QED
    BY <1>3, <2>1, RunnerLeaves, SendTells
<1>4. run'[r].done /\ ~run[r].done => run'[r].pc = "returned"
  BY <1>1 DEF RunnerEffect
<1>5. run'[r].cut = run[r].cut
  BY <1>1 DEF RunnerEffect
<1> QED
  BY <1>1, <1>2, <1>3, <1>4, <1>5 DEF Told, RunnerEffect

LEMMA CancelTold ==
  ASSUME TypeOK, NEW r \in Runs, Claims(r), Told(r), CancelStep(r)
  PROVE  Told(r)'
<1>1. CancelEffect(r) /\ run'[r].pc = run[r].pc
  BY CancelFields, CancelKeepsPlace
<1>2. canceller \in [Runs -> CancelPC] /\ run[r] \in RunState
  BY DEF TypeOK
<1>3. Reported(r) => Reported(r)'
  BY CancelSends, SendKeeps
<1>4. CASE CancelLookup(r)
  <2>1. /\ run' = run /\ canceller[r] = "spawned"
        /\ canceller'[r] = IF r \in registered THEN "found" ELSE "none"
    BY <1>2, <1>4 DEF CancelLookup
  <2>2. r \in registered => run[r].pc # "idle"
    BY DEF TypeOK
  <2> QED
    BY <1>1, <1>3, <2>1, <2>2 DEF Told, Claimed, Reporting
<1>5. CASE CancelClaim(r)
  <2>1. /\ canceller[r] = "found" /\ run'[r].cut = run[r].cut
        /\ \/ run'[r] = run[r] /\ canceller'[r] = "none"
           \/ canceller'[r] = "agent" /\ run'[r].done
    BY <1>1, <1>2, <1>5 DEF CancelClaim, CancelEffect
  <2> QED
    BY <1>1, <1>3, <2>1 DEF Told, Claimed, Reporting
<1>6. CASE CancelAgent(r) \/ CancelProxy(r) \/ CancelNetwork(r)
  <2>1. /\ run' = run
        /\ canceller[r] \in Reporting /\ canceller'[r] \in Reporting
    BY <1>2, <1>6 DEF CancelAgent, CancelProxy, CancelNetwork, Reporting
  <2> QED
    BY <1>1, <1>3, <2>1 DEF Told, Claimed, Reporting
<1>7. CASE CancelReport(r)
  <2>1. /\ run' = run /\ Send(r, <<"status", "completed">>)
        /\ canceller[r] = "report" /\ canceller'[r] = "finished"
    BY <1>2, <1>7 DEF CancelReport
  <2>2. Reported(r)'
    BY <2>1, SendTells DEF Endings
  <2> QED
    BY <1>1, <2>1, <2>2 DEF Told, Claimed
<1> QED
  BY <1>4, <1>5, <1>6, <1>7 DEF CancelStep

LEMMA ToldStep == TypeOK /\ ClaimsInv /\ ToldInv /\ [Next]_vars => ToldInv'
<1> SUFFICES ASSUME TypeOK, [Next]_vars, NEW r \in Runs, Claims(r), Told(r)
             PROVE  Told(r)'
  BY DEF ClaimsInv, ToldInv
<1>1. run[r] \in RunState
  BY DEF TypeOK
<1>2. Silent(r) => (Reported(r)' <=> Reported(r))
  BY DEF Silent, Reported, Completions
<1>3. CASE Untouched(r) \/ CutOff(r) \/ Arrives(r) \/ Asks(r) \/ Ends(r)
  BY <1>1, <1>2, <1>3
     DEF Untouched, CutOff, Arrives, Asks, Ends, Told, Claimed, Reporting,
         RunState
<1>4. CASE RunnerStep(r)
  BY <1>4, RunnerTold
<1>5. CASE CancelStep(r)
  BY <1>5, CancelTold
<1> QED
  BY <1>3, <1>4, <1>5, OneRun

(***************************************************************************)
(* By the time the runner and the canceller of a run are gone, one of them *)
(* has written COMPLETED or had its write refused, unless the run broke    *)
(* off with its connection and nobody cancelled it: the flag done is never *)
(* left to one that returns without the report.                            *)
(***************************************************************************)
THEOREM EndAlwaysReported == Spec => []NoSilentEnd
<1>1. Init => ToldInv
  BY DEF Init, ToldInv, Told, Claimed
<1>2. ToldInv => NoSilentEnd
  BY DEF ToldInv, Told, NoSilentEnd, Over, Reporting
<1> QED
  BY <1>1, <1>2, ToldStep, ClaimsInvariant, TypeCorrect, PTL DEF Spec

-----------------------------------------------------------------------------
(* Containers and networks, step by step of the runner *)

\* What a step of the runner makes of the containers and of the fields by
\* which a canceller finds them.
NamesKept(r) ==
  /\ run[r].proc => run'[r].proc
  /\ run[r].netProc => run'[r].netProc
  /\ run[r].netName => run'[r].netName

\* What is there and docker has not refused to remove, and whether it runs.
AgentOut(r) == docker[r].agent # "absent" /\ "agent" \notin docker[r].kept
ProxyOut(r) == docker[r].proxy # "absent" /\ "proxy" \notin docker[r].kept
NetOut(r) == docker[r].network /\ "network" \notin docker[r].kept
AgentUp(r) == docker[r].agent = "running" /\ "agent" \notin docker[r].kept
ProxyUp(r) == docker[r].proxy = "running" /\ "proxy" \notin docker[r].kept

AgentSame(r) == (AgentOut(r)' <=> AgentOut(r)) /\ (AgentUp(r)' <=> AgentUp(r))
ProxySame(r) == (ProxyOut(r)' <=> ProxyOut(r)) /\ (ProxyUp(r)' <=> ProxyUp(r))

Gone(r) ==
  /\ AgentOut(r)' => AgentOut(r)
  /\ AgentUp(r)' => AgentUp(r)
  /\ ProxyOut(r)' => ProxyOut(r)
  /\ ProxyUp(r)' => ProxyUp(r)
  /\ NetOut(r)' => NetOut(r)

\* docker network rm has its effect, or fails by itself, when nothing of the
\* run is running but what docker has refused to remove.
NetworkFreed(r) == NetOut(r)' => AgentUp(r)' \/ ProxyUp(r)'

FaultKept(r) == run'[r].fault = run[r].fault

Before(r) == run[r].pc \in {"spawned", "start", "workspace", "prepare"}
Beginnings == {"execStart", "agentRun", "netCreate"}

\* Until the first docker command, and at the end.
Plainly(r) ==
  /\ docker'[r] = docker[r]
  /\ \/ /\ Before(r) /\ FaultKept(r)
        /\ run'[r].pc \in {"start", "workspace", "prepare", "complete"}
     \/ /\ run[r].pc = "start" /\ Stopped(r) /\ FaultKept(r)
        /\ run'[r].pc = "returned"
     \/ run[r].pc = "workspace" /\ run'[r].pc = "returned"
     \/ /\ run[r].pc = "prepare" /\ FaultKept(r)
        /\ run'[r].doomed = ~run[r].ctx
        /\ \/ run[r].mode = "exec" /\ run'[r].pc = "execStart"
           \/ run[r].mode = "plain" /\ run'[r].pc = "agentRun"
           \/ run[r].mode = "allowlist" /\ run'[r].pc = "netCreate"
     \/ /\ run[r].pc = "complete" /\ FaultKept(r)
        /\ run'[r].pc = "returned"

\* A local process.
Executes(r) ==
  /\ FaultKept(r)
  /\ \/ /\ run[r].pc = "execStart" /\ docker'[r] = docker[r]
        /\ \/ run'[r].pc = "returned" /\ Stopped(r)
           \/ run'[r].pc = "complete"
     \/ /\ run[r].pc = "execStart" /\ ~Stopped(r)
        /\ docker'[r] = [docker[r] EXCEPT !.agent = "running"]
        /\ run'[r].pc = "execWait"
     \/ /\ run[r].pc = "execWait"
        /\ docker'[r] = [docker[r] EXCEPT !.agent = "absent"]
        /\ run'[r].pc = "complete"

\* The network, the allowlist file and the proxy.
Networks(r) ==
  \/ /\ run[r].pc = "netCreate" /\ FaultKept(r)
     /\ AgentSame(r) /\ ProxySame(r)
     /\ \/ ~run[r].doomed /\ run'[r].pc = "allowlistFile" /\ run'[r].netName
        \/ /\ run'[r].pc = "complete"
           /\ NetOut(r)' => NetOut(r) \/ (~run[r].doomed /\ ~run[r].ctx)
  \/ /\ run[r].pc = "allowlistFile" /\ docker'[r] = docker[r]
     /\ \/ run'[r].pc = "complete" /\ run'[r].fault = "allowlist"
        \/ /\ run'[r].pc = "proxyRun" /\ FaultKept(r)
           /\ run'[r].doomed = ~run[r].ctx
  \/ /\ run[r].pc = "proxyRun" /\ AgentSame(r)
     /\ NetOut(r)' => NetOut(r)
     /\ \/ /\ FaultKept(r) /\ ~run[r].doomed
           /\ run'[r].pc = "netConnect" /\ run'[r].netProc
        \/ /\ run'[r].fault = "proxyRun" /\ run'[r].pc = "complete"
           /\ NetworkFreed(r)
           /\ ProxyOut(r)' => ~run[r].doomed
           /\ ProxyUp(r)' => ~run[r].doomed /\ ~run[r].ctx
  \/ /\ run[r].pc = "netConnect" /\ FaultKept(r) /\ Gone(r)
     /\ \/ run'[r].pc = "agentRun" /\ run'[r].doomed = ~run[r].ctx
        \/ run'[r].pc = "complete" /\ NetworkFreed(r) /\ ~ProxyOut(r)'

\* The agent's container.
AgentRuns(r) ==
  \/ /\ run[r].pc = "agentRun"
     /\ ProxyOut(r)' => ProxyOut(r)
     /\ NetOut(r)' => NetOut(r)
     /\ \/ /\ FaultKept(r) /\ ~run[r].doomed
           /\ run'[r].pc = "wait" /\ run'[r].proc
        \/ /\ AgentOut(r)' => ~run[r].doomed
           /\ AgentUp(r)' => ~run[r].doomed /\ ~run[r].ctx
           /\ \/ FaultKept(r) /\ run'[r].pc = "returned" /\ Stopped(r)
              \/ /\ run'[r].fault = "agentRun" /\ run'[r].pc = "complete"
                 /\ ~Stopped(r)
                 /\ run[r].mode = "allowlist" => ~ProxyOut(r)' /\ NetworkFreed(r)
  \/ /\ run[r].pc = "wait" /\ Gone(r)
     /\ \/ /\ run'[r].pc = "complete" /\ FaultKept(r)
           /\ ~AgentOut(r)' /\ ~ProxyOut(r)' /\ ~NetOut(r)'
        \/ run'[r].pc = "returned" /\ Stopped(r) /\ FaultKept(r)
        \/ /\ run'[r].pc = "complete" /\ run'[r].fault = "wait" /\ ~Stopped(r)
           /\ run[r].mode = "allowlist" => ~ProxyOut(r)'

RunnerDocker(r) ==
  NamesKept(r) /\ (Plainly(r) \/ Executes(r) \/ Networks(r) \/ AgentRuns(r))

\* The effects of removals on what is out.
LEMMA AgentRemoved ==
  ASSUME NEW r \in Runs, LessAgent(docker[r], docker'[r])
  PROVE  Gone(r) /\ ~AgentOut(r)' /\ ProxySame(r)
BY DEF LessAgent, Gone, ProxySame, AgentOut, ProxyOut, NetOut, AgentUp, ProxyUp

LEMMA ProxyRemoved ==
  ASSUME NEW r \in Runs, LessProxy(docker[r], docker'[r])
  PROVE  Gone(r) /\ ~ProxyOut(r)' /\ AgentSame(r)
BY DEF LessProxy, Gone, AgentSame, AgentOut, ProxyOut, NetOut, AgentUp, ProxyUp

LEMMA NetworkRemoved ==
  ASSUME NEW r \in Runs, LessNetwork(docker[r], docker'[r])
  PROVE  Gone(r) /\ AgentSame(r) /\ ProxySame(r) /\ NetworkFreed(r)
BY DEF LessNetwork, Users, Gone, AgentSame, ProxySame, NetworkFreed, AgentOut,
       ProxyOut, NetOut, AgentUp, ProxyUp

LEMMA RestRemoved ==
  ASSUME NEW r \in Runs, RestDown(docker[r], docker'[r])
  PROVE  Gone(r) /\ AgentSame(r) /\ ~ProxyOut(r)' /\ NetworkFreed(r)
BY DEF RestDown, Gone, AgentSame, NetworkFreed, AgentOut, ProxyOut, NetOut,
       AgentUp, ProxyUp

LEMMA FailFields ==
  ASSUME TypeOK, NEW r \in Runs, NEW n \in RunState, Fail(r, n)
  PROVE  run'[r] = [n EXCEPT !.pc = "complete"]
BY DEF Fail, TypeOK

LEMMA RunnerDockerStep ==
  ASSUME TypeOK, NEW r \in Runs, RunnerStep(r)
  PROVE  RunnerDocker(r)
<1>1. /\ run[r] \in RunState /\ run \in [Runs -> RunState]
      /\ docker[r] \in Daemon /\ docker \in [Runs -> Daemon]
  BY DEF TypeOK
<1>2. ASSUME Fail(r, run[r])
      PROVE  run'[r].pc = "complete" /\ FaultKept(r) /\ NamesKept(r)
  <2>1. run'[r] = [run[r] EXCEPT !.pc = "complete"]
    BY <1>1, <1>2, FailFields
  <2> QED
    BY <1>1, <2>1 DEF RunState, FaultKept, NamesKept
<1>3. ASSUME NEW f \in Faults, Fail(r, [run[r] EXCEPT !.fault = f])
      PROVE  run'[r].pc = "complete" /\ run'[r].fault = f /\ NamesKept(r)
  <2>1. [run[r] EXCEPT !.fault = f] \in RunState
    BY SetField DEF Faults
  <2>2. run'[r] = [run[r] EXCEPT !.fault = f, !.pc = "complete"]
    BY <1>1, <1>3, <2>1, FailFields DEF RunState
  <2> QED
    BY <1>1, <2>2 DEF RunState, Faults, NamesKept
<1>4. ASSUME Return(r)
      PROVE  run'[r].pc = "returned" /\ FaultKept(r) /\ NamesKept(r)
  BY <1>1, <1>4 DEF Return, RunState, FaultKept, NamesKept
<1>5. ASSUME NEW pc \in RunnerPC, run' = [run EXCEPT ![r] = Goto(r, pc)]
      PROVE  /\ run'[r].pc = pc /\ run'[r].doomed = ~run[r].ctx
             /\ FaultKept(r) /\ NamesKept(r)
  BY <1>1, <1>5 DEF Goto, RunState, FaultKept, NamesKept
<1>6. ASSUME NEW pc \in RunnerPC, run' = [run EXCEPT ![r].pc = pc]
      PROVE  run'[r].pc = pc /\ FaultKept(r) /\ NamesKept(r)
  BY <1>1, <1>6 DEF RunState, FaultKept, NamesKept
<1>7. CASE Register(r) \/ Begin(r)
  BY <1>4, <1>6, <1>7
     DEF Register, Begin, RunnerPC, RunnerDocker, Plainly, Before
<1>8. CASE MakeWorkspace(r)
  <2>1. CASE run' = [run EXCEPT ![r].pc = "prepare"]
    BY <1>6, <1>8, <2>1 DEF MakeWorkspace, RunnerPC, RunnerDocker, Plainly, Before
  <2>2. CASE run' = [run EXCEPT ![r].pc = "returned", ![r].fault = "workspace"]
    BY <1>1, <1>8, <2>2
       DEF MakeWorkspace, RunState, RunnerDocker, Plainly, NamesKept
  <2> QED
    BY <1>8, <2>1, <2>2 DEF MakeWorkspace
<1>9. CASE Prepare(r)
  <2>1. run[r].pc = "prepare" /\ docker'[r] = docker[r]
    BY <1>9 DEF Prepare
  <2>2. run[r].mode \in Modes
    BY <1>1 DEF RunState
  <2> QED
    BY <1>2, <1>5, <1>9, <2>1, <2>2
       DEF Prepare, Modes, RunnerPC, RunnerDocker, Plainly, Before
<1>10. CASE ExecStart(r) \/ ExecWait(r)
  BY <1>1, <1>2, <1>4, <1>6, <1>10
     DEF ExecStart, ExecWait, RunnerPC, RunnerDocker, Executes
<1>11. CASE NetCreate(r)
  <2> USE DEF AgentSame, ProxySame, AgentOut, ProxyOut, NetOut, AgentUp, ProxyUp
  <2>1. CASE /\ CanSucceed(r)
             /\ docker' = [docker EXCEPT ![r].network = TRUE]
             /\ run' = [run EXCEPT ![r].pc = "allowlistFile", ![r].netName = TRUE]
    BY <1>1, <1>11, <2>1
       DEF NetCreate, CanSucceed, RunState, Daemon, RunnerDocker, Networks,
           NamesKept, FaultKept
  <2>2. CASE Fail(r, run[r]) /\ UNCHANGED docker
    BY <1>2, <1>11, <2>2 DEF NetCreate, RunnerDocker, Networks
  <2>3. CASE /\ Fail(r, run[r]) /\ CanBeKilledLate(r)
             /\ docker' = [docker EXCEPT ![r].network = TRUE]
    BY <1>1, <1>2, <1>11, <2>3
       DEF NetCreate, CanBeKilledLate, Daemon, RunnerDocker, Networks
  <2> QED
    BY <1>11, <2>1, <2>2, <2>3 DEF NetCreate
<1>12. CASE WriteAllowlist(r)
  BY <1>3, <1>5, <1>12 DEF WriteAllowlist, RunnerPC, RunnerDocker, Networks, Faults
<1>13. CASE ProxyRun(r)
  <2>1. CASE /\ CanSucceed(r)
             /\ docker' = [docker EXCEPT ![r].proxy = "running"]
             /\ run' = [run EXCEPT ![r] = [Goto(r, "netConnect") EXCEPT !.netProc = TRUE]]
    <3>1. run'[r] = [run[r] EXCEPT !.pc = "netConnect", !.doomed = ~run[r].ctx,
                                   !.netProc = TRUE]
      BY <1>1, <2>1 DEF Goto, RunState
    <3>2. run'[r].pc = "netConnect" /\ run'[r].netProc /\ FaultKept(r) /\ NamesKept(r)
      BY <1>1, <3>1 DEF RunState, FaultKept, NamesKept
    <3>3. AgentSame(r) /\ (NetOut(r)' <=> NetOut(r))
      BY <1>1, <2>1 DEF AgentSame, AgentOut, AgentUp, NetOut, Daemon
    <3> QED
      BY <1>13, <2>1, <3>2, <3>3
         DEF ProxyRun, CanSucceed, RunnerDocker, Networks
  <2>2. ASSUME NEW left \in Remains(r),
               Fail(r, [run[r] EXCEPT !.fault = "proxyRun"]),
               Settle(r, WithoutNetwork({[docker[r] EXCEPT !.proxy = left]}))
        PROVE  RunnerDocker(r)
    <3> DEFINE d == [docker[r] EXCEPT !.proxy = left]
    <3>1. d \in Daemon /\ d.agent = docker[r].agent /\ d.proxy = left
          /\ d.network = docker[r].network /\ d.kept = docker[r].kept
      BY <1>1, RemainsType DEF Daemon
    <3>2. PICK e \in WithoutNetwork({d}) : docker'[r] = e
      BY <1>1, <2>2 DEF Settle
    <3>3. /\ left = "running" => ~run[r].doomed /\ ~run[r].ctx
          /\ left # "absent" => ~run[r].doomed
      BY DEF Remains, CanSucceed, CanBeKilledLate
    <3> HIDE DEF d
    <3>4. LessNetwork(d, docker'[r])
      BY <3>1, <3>2, OneRemoval
    <3>5. /\ AgentSame(r) /\ NetworkFreed(r)
          /\ NetOut(r)' => NetOut(r)
          /\ ProxyOut(r)' => left # "absent"
          /\ ProxyUp(r)' => left = "running"
      BY <3>1, <3>4
         DEF LessNetwork, Users, AgentSame, NetworkFreed, AgentOut, AgentUp,
             ProxyOut, ProxyUp, NetOut
    <3>6. run[r].pc = "proxyRun"
      BY <1>13 DEF ProxyRun
    <3>7. run'[r].pc = "complete" /\ run'[r].fault = "proxyRun" /\ NamesKept(r)
      BY <1>3, <2>2 DEF Faults
    <3> QED
      BY <3>3, <3>5, <3>6, <3>7 DEF RunnerDocker, Networks
  <2> QED
    BY <1>13, <2>1, <2>2 DEF ProxyRun
<1>14. CASE NetConnect(r)
  <2>1. CASE run' = [run EXCEPT ![r] = Goto(r, "agentRun")] /\ UNCHANGED docker
    BY <1>5, <1>14, <2>1
       DEF NetConnect, RunnerPC, RunnerDocker, Networks, Gone, AgentOut, AgentUp,
           ProxyOut, ProxyUp, NetOut
  <2>2. CASE Fail(r, run[r])
             /\ Settle(r, WithoutNetwork(WithoutProxy({docker[r]})))
    <3>1. docker'[r] \in WithoutNetwork(WithoutProxy({docker[r]}))
      BY <1>1, <2>2 DEF Settle
    <3>2. RestDown(docker[r], docker'[r])
      BY <1>1, <3>1, OneRemoval
    <3> QED
      BY <1>2, <1>14, <2>2, <3>2, RestRemoved DEF NetConnect, RunnerDocker, Networks
  <2> QED
    BY <1>14, <2>1, <2>2 DEF NetConnect
<1>15. CASE AgentRun(r)
  <2>1. CASE /\ CanSucceed(r)
             /\ docker' = [docker EXCEPT ![r].agent = "running"]
             /\ run' = [run EXCEPT ![r] = [Goto(r, "wait") EXCEPT !.proc = TRUE]]
    <3>1. run'[r] = [run[r] EXCEPT !.pc = "wait", !.doomed = ~run[r].ctx,
                                   !.proc = TRUE]
      BY <1>1, <2>1 DEF Goto, RunState
    <3>2. run'[r].pc = "wait" /\ run'[r].proc /\ FaultKept(r) /\ NamesKept(r)
      BY <1>1, <3>1 DEF RunState, FaultKept, NamesKept
    <3>3. (ProxyOut(r)' <=> ProxyOut(r)) /\ (NetOut(r)' <=> NetOut(r))
      BY <1>1, <2>1 DEF ProxyOut, NetOut, Daemon
    <3> QED
      BY <1>15, <2>1, <3>2, <3>3
         DEF AgentRun, CanSucceed, RunnerDocker, AgentRuns
  <2>2. ASSUME NEW left \in Remains(r)
        PROVE  /\ [docker[r] EXCEPT !.agent = left] \in Daemon
               /\ [docker[r] EXCEPT !.agent = left].agent = left
               /\ [docker[r] EXCEPT !.agent = left].proxy = docker[r].proxy
               /\ [docker[r] EXCEPT !.agent = left].network = docker[r].network
               /\ [docker[r] EXCEPT !.agent = left].kept = docker[r].kept
               /\ left = "running" => ~run[r].doomed /\ ~run[r].ctx
               /\ left # "absent" => ~run[r].doomed
    <3>1. /\ left = "running" => ~run[r].doomed /\ ~run[r].ctx
          /\ left # "absent" => ~run[r].doomed
      BY DEF Remains, CanSucceed, CanBeKilledLate
    <3> QED
      BY <1>1, <3>1, RemainsType DEF Daemon
  <2>3. run[r].pc = "agentRun"
    BY <1>15 DEF AgentRun
  <2>4. ASSUME NEW left \in Remains(r), Return(r), Stopped(r),
               docker' = [docker EXCEPT ![r] = [docker[r] EXCEPT !.agent = left]]
        PROVE  RunnerDocker(r)
    <3>1. docker'[r] = [docker[r] EXCEPT !.agent = left]
      BY <1>1, <2>4
    <3>2. /\ AgentOut(r)' => ~run[r].doomed
          /\ AgentUp(r)' => ~run[r].doomed /\ ~run[r].ctx
          /\ ProxyOut(r)' => ProxyOut(r)
          /\ NetOut(r)' => NetOut(r)
      BY <2>2, <3>1 DEF AgentOut, AgentUp, ProxyOut, NetOut
    <3> QED
      BY <1>4, <2>3, <2>4, <3>2 DEF RunnerDocker, AgentRuns
  <2>5. ASSUME NEW left \in Remains(r),
               Fail(r, [run[r] EXCEPT !.fault = "agentRun"]), ~Stopped(r),
               Settle(r, IF run[r].mode = "allowlist"
                         THEN WithoutNetwork(WithoutProxy(
                                {[docker[r] EXCEPT !.agent = left]}))
                         ELSE {[docker[r] EXCEPT !.agent = left]})
        PROVE  RunnerDocker(r)
    <3> DEFINE d == [docker[r] EXCEPT !.agent = left]
    <3>1. /\ d \in Daemon /\ d.agent = left /\ d.proxy = docker[r].proxy
          /\ d.network = docker[r].network /\ d.kept = docker[r].kept
          /\ left = "running" => ~run[r].doomed /\ ~run[r].ctx
          /\ left # "absent" => ~run[r].doomed
      BY <2>2
    <3>2. docker'[r] \in IF run[r].mode = "allowlist"
                         THEN WithoutNetwork(WithoutProxy({d})) ELSE {d}
      BY <1>1, <2>5 DEF Settle
    <3> HIDE DEF d
    <3>3. \/ run[r].mode = "allowlist" /\ RestDown(d, docker'[r])
          \/ run[r].mode # "allowlist" /\ docker'[r] = d
      BY <3>1, <3>2, OneRemoval
    <3>4. /\ AgentOut(r)' => ~run[r].doomed
          /\ AgentUp(r)' => ~run[r].doomed /\ ~run[r].ctx
          /\ ProxyOut(r)' => ProxyOut(r)
          /\ NetOut(r)' => NetOut(r)
          /\ run[r].mode = "allowlist" => ~ProxyOut(r)' /\ NetworkFreed(r)
      BY <3>1, <3>3
         DEF RestDown, AgentOut, AgentUp, ProxyOut, ProxyUp, NetOut, NetworkFreed
    <3>5. run'[r].pc = "complete" /\ run'[r].fault = "agentRun" /\ NamesKept(r)
      BY <1>3, <2>5 DEF Faults
    <3> QED
      BY <2>3, <2>5, <3>4, <3>5 DEF RunnerDocker, AgentRuns
  <2> QED
    BY <1>15, <2>1, <2>4, <2>5 DEF AgentRun
<1>16. CASE Wait(r)
  <2>1. CASE /\ Settle(r, WithoutNetwork(WithoutProxy(WithoutAgent({docker[r]}))))
             /\ run' = [run EXCEPT ![r].pc = "complete"]
    <3>1. docker'[r] \in WithoutNetwork(WithoutProxy(WithoutAgent({docker[r]})))
      BY <1>1, <2>1 DEF Settle
    <3>2. {docker[r]} \in SUBSET Daemon
      BY <1>1
    <3>3. PICK a \in Daemon : LessAgent(docker[r], a) /\ RestDown(a, docker'[r])
      BY <3>1, <3>2, AllRemovals
    <3>4. Gone(r) /\ ~AgentOut(r)' /\ ~ProxyOut(r)' /\ ~NetOut(r)'
      BY <3>3
         DEF LessAgent, RestDown, Gone, AgentOut, AgentUp, ProxyOut, ProxyUp, NetOut
    <3>5. run[r].pc = "wait"
      BY <1>16 DEF Wait
    <3>6. run'[r].pc = "complete" /\ FaultKept(r) /\ NamesKept(r)
      BY <1>6, <2>1 DEF RunnerPC
    <3> QED
      BY <3>4, <3>5, <3>6 DEF RunnerDocker, AgentRuns
  <2>2. CASE Return(r) /\ Stopped(r) /\ UNCHANGED docker
    BY <1>4, <1>16, <2>2
       DEF Wait, RunnerDocker, AgentRuns, Gone, AgentOut, AgentUp, ProxyOut,
           ProxyUp, NetOut
  <2>3. CASE /\ ~Stopped(r)
             /\ Settle(r, IF run[r].mode = "allowlist"
                          THEN WithoutNetwork(WithoutProxy({docker[r]}))
                          ELSE {docker[r]})
             /\ Fail(r, [run[r] EXCEPT !.fault = "wait"])
    <3>1. docker'[r] \in IF run[r].mode = "allowlist"
                         THEN WithoutNetwork(WithoutProxy({docker[r]}))
                         ELSE {docker[r]}
      BY <1>1, <2>3 DEF Settle
    <3>2. \/ run[r].mode = "allowlist" /\ RestDown(docker[r], docker'[r])
          \/ run[r].mode # "allowlist" /\ docker'[r] = docker[r]
      BY <1>1, <3>1, OneRemoval
    <3>3. Gone(r) /\ (run[r].mode = "allowlist" => ~ProxyOut(r)')
      BY <3>2, RestRemoved
         DEF Gone, AgentOut, AgentUp, ProxyOut, ProxyUp, NetOut
    <3>4. run'[r].pc = "complete" /\ run'[r].fault = "wait" /\ NamesKept(r)
      BY <1>3, <2>3 DEF Faults
    <3>5. run[r].pc = "wait"
      BY <1>16 DEF Wait
    <3> QED
      BY <2>3, <3>3, <3>4, <3>5 DEF RunnerDocker, AgentRuns
  <2> QED
    BY <1>16, <2>1, <2>2, <2>3 DEF Wait
<1>17. CASE Complete(r)
  BY <1>1, <1>17
     DEF Complete, RunState, RunnerDocker, Plainly, NamesKept, FaultKept
<1> QED
  BY <1>7, <1>8, <1>9, <1>10, <1>11, <1>12, <1>13, <1>14, <1>15, <1>16, <1>17
     DEF RunnerStep

-----------------------------------------------------------------------------
(* What is left behind *)

NetPhases == {"netCreate", "allowlistFile", "proxyRun", "netConnect"}

\* How the run is started goes with where its goroutine is, and a fault is
\* the last thing that happens before the end.
ModeFits(r) ==
  /\ run[r].pc \in {"execStart", "execWait"} => run[r].mode = "exec"
  /\ run[r].pc \in NetPhases => run[r].mode = "allowlist"
  /\ run[r].pc \in {"agentRun", "wait"} => run[r].mode # "exec"
  /\ run[r].mode = "exec" => ~ProxyOut(r) /\ ~NetOut(r)
  /\ run[r].fault = "none" \/ run[r].pc \in {"complete", "returned"}

\* As long as nothing has ended its context, a run's containers are where its
\* goroutine is, and its runState names them.  The container of a docker run
\* that failed is not running.
Tidy(r) ==
  run[r].ctx =>
    /\ AgentOut(r) => \/ run[r].pc = "execWait"
                      \/ /\ run[r].proc
                         /\ run[r].pc = "wait" \/ run[r].fault = "wait"
                      \/ run[r].fault = "agentRun" /\ ~AgentUp(r)
    /\ ProxyOut(r) =>
         \/ /\ run[r].netProc /\ run[r].mode = "allowlist"
            /\ run[r].pc \in {"netConnect", "agentRun", "wait"}
         \/ run[r].fault = "proxyRun" /\ ~ProxyUp(r)
    /\ NetOut(r) =>
         /\ run[r].netName /\ run[r].mode = "allowlist"
         /\ \/ run[r].pc \in {"allowlistFile", "proxyRun", "netConnect",
                              "agentRun", "wait"}
            \/ run[r].fault \in {"allowlist", "wait"}

\* After a cancel that caught the runner in no docker command, nothing is
\* started any more, and what is left is named and still to be removed.
CancelledInTime(r) ==
  /\ canceller[r] \in Claimed
  /\ ~run[r].cut
  /\ run[r].cancelledAt \notin InDockerCommand

Torn(r) ==
  CancelledInTime(r) =>
    /\ run[r].pc \in InDockerCommand => run[r].doomed
    /\ AgentOut(r) => \/ run[r].pc = "execWait"
                      \/ run[r].proc /\ canceller[r] = "agent"
                      \/ run[r].fault = "agentRun" /\ ~AgentUp(r)
    /\ ProxyOut(r) => \/ run[r].netProc /\ canceller[r] \in {"agent", "proxy"}
                      \/ run[r].fault = "proxyRun" /\ ~ProxyUp(r)
    /\ NetOut(r) =>
         run[r].netName /\ canceller[r] \in {"agent", "proxy", "network"}

TeardownInv == \A r \in Runs : ModeFits(r) /\ Tidy(r) /\ Torn(r)

LEMMA RunnerModeFits ==
  ASSUME TypeOK, NEW r \in Runs, ModeFits(r), RunnerStep(r)
  PROVE  ModeFits(r)'
<1>1. RunnerEffect(r) /\ RunnerDocker(r)
  BY RunnerFields, RunnerDockerStep
<1>2. run'[r].mode = run[r].mode
  BY <1>1 DEF RunnerEffect
<1>3. docker[r] \in Daemon
  BY DEF TypeOK
<1> USE DEF ModeFits, NetPhases, FaultKept
<1>4. CASE Plainly(r)
  BY <1>2, <1>4 DEF Plainly, Before, ProxyOut, NetOut
<1>5. CASE Executes(r)
  BY <1>2, <1>3, <1>5 DEF Executes, ProxyOut, NetOut, Daemon
<1>6. CASE Networks(r)
  BY <1>2, <1>6 DEF Networks
<1>7. CASE AgentRuns(r)
  BY <1>2, <1>7 DEF AgentRuns
<1> QED
  BY <1>1, <1>4, <1>5, <1>6, <1>7 DEF RunnerDocker

\* Where the docker state of a run is the same, so is what is out.
OutSame(r) == AgentSame(r) /\ ProxySame(r) /\ (NetOut(r)' <=> NetOut(r))

LEMMA SameOut ==
  ASSUME NEW r \in Runs, docker'[r] = docker[r] PROVE OutSame(r)
BY DEF OutSame, AgentSame, ProxySame, AgentOut, AgentUp, ProxyOut, ProxyUp, NetOut

LEMMA ExecutesOut ==
  ASSUME TypeOK, NEW r \in Runs, Executes(r)
  PROVE  /\ ProxySame(r) /\ (NetOut(r)' <=> NetOut(r))
         /\ run[r].pc = "execWait" => ~AgentOut(r)'
         /\ run'[r].pc # "execWait" /\ run[r].pc # "execWait" => AgentSame(r)
BY DEF Executes, ProxySame, AgentSame, AgentOut, AgentUp, ProxyOut, ProxyUp,
       NetOut, TypeOK, Daemon

UpIsOut(r) == (AgentUp(r) => AgentOut(r)) /\ (ProxyUp(r) => ProxyOut(r))

LEMMA RunningIsOut == ASSUME NEW r PROVE UpIsOut(r) /\ UpIsOut(r)'
BY DEF UpIsOut, AgentUp, AgentOut, ProxyUp, ProxyOut

LEMMA RunnerTidy ==
  ASSUME TypeOK, NEW r \in Runs, Claims(r), ModeFits(r), Tidy(r), RunnerStep(r)
  PROVE  Tidy(r)'
<1>1. RunnerEffect(r) /\ RunnerDocker(r)
  BY RunnerFields, RunnerDockerStep
<1>2. /\ run'[r].mode = run[r].mode /\ (run'[r].ctx <=> run[r].ctx)
      /\ run[r].pc # "returned" /\ NamesKept(r)
  BY <1>1 DEF RunnerEffect, RunnerDocker
<1> SUFFICES ASSUME run[r].ctx PROVE Tidy(r)'
  BY <1>2 DEF Tidy
<1>3. ~Stopped(r)
  BY <1>2 DEF Claims, Stopped
<1>4. UpIsOut(r) /\ UpIsOut(r)'
  BY RunningIsOut
<1> USE DEF Tidy, FaultKept, NamesKept, AgentSame, ProxySame, UpIsOut
<1>5. CASE Plainly(r)
  <2>1. OutSame(r)
    BY <1>5, SameOut DEF Plainly
  <2> QED
    BY <1>2, <1>3, <1>5, <2>1 DEF Plainly, Before, OutSame, ModeFits
<1>6. CASE Executes(r)
  BY <1>2, <1>3, <1>6, ExecutesOut DEF Executes, ModeFits
<1>7. CASE Networks(r)
  <2>1. CASE run[r].pc = "allowlistFile"
    <3>1. OutSame(r)
      BY <1>7, <2>1, SameOut DEF Networks
    <3> QED
      BY <1>2, <1>7, <2>1, <3>1 DEF OutSame, Networks, ModeFits, NetPhases
  <2> QED
    BY <1>2, <1>3, <1>4, <1>7, <2>1
       DEF Networks, Gone, ModeFits, NetPhases, NetworkFreed
<1>8. CASE AgentRuns(r)
  BY <1>2, <1>3, <1>4, <1>8 DEF AgentRuns, Gone, ModeFits, NetworkFreed
<1> QED
  BY <1>1, <1>5, <1>6, <1>7, <1>8 DEF RunnerDocker

LEMMA RunnerTorn ==
  ASSUME TypeOK, NEW r \in Runs, Claims(r), ModeFits(r), Torn(r), RunnerStep(r)
  PROVE  Torn(r)'
<1>1. RunnerEffect(r) /\ RunnerDocker(r) /\ canceller'[r] = canceller[r]
  BY RunnerFields, RunnerDockerStep DEF RunnerStep
<1>2. CancelledInTime(r)' => CancelledInTime(r)
  BY <1>1 DEF CancelledInTime, RunnerEffect
<1> SUFFICES ASSUME CancelledInTime(r) PROVE Torn(r)'
  BY <1>2 DEF Torn
<1>3. run[r].done /\ ~run[r].ctx /\ Stopped(r)
  BY DEF CancelledInTime, Claims, Stopped
<1>4. NamesKept(r)
  BY <1>1 DEF RunnerDocker
<1>5. UpIsOut(r) /\ UpIsOut(r)'
  BY RunningIsOut
<1> USE DEF Torn, NamesKept, InDockerCommand, FaultKept, AgentSame, ProxySame, UpIsOut
<1>6. CASE Plainly(r)
  <2>1. OutSame(r)
    BY <1>6, SameOut DEF Plainly
  <2> QED
    BY <1>1, <1>3, <1>4, <1>6, <2>1 DEF Plainly, Before, OutSame, ModeFits
<1>7. CASE Executes(r)
  BY <1>1, <1>3, <1>4, <1>7, ExecutesOut DEF Executes, ModeFits
<1>8. CASE Networks(r)
  <2>1. CASE run[r].pc = "allowlistFile"
    <3>1. OutSame(r)
      BY <1>8, <2>1, SameOut DEF Networks
    <3> QED
      BY <1>1, <1>3, <1>4, <1>8, <2>1, <3>1 DEF OutSame, Networks, ModeFits
  <2> QED
    BY <1>1, <1>3, <1>4, <1>5, <1>8, <2>1 DEF Networks, Gone, ModeFits
<1>9. CASE AgentRuns(r)
  BY <1>1, <1>3, <1>4, <1>5, <1>9 DEF AgentRuns, Gone, ModeFits
<1> QED
  BY <1>1, <1>6, <1>7, <1>8, <1>9 DEF RunnerDocker

\* What a canceller removes.
LEMMA CancelDocker ==
  ASSUME TypeOK, NEW r \in Runs, CancelStep(r)
  PROVE  \/ docker'[r] = docker[r]
            /\ \/ run'[r] = run[r] /\ canceller[r] \notin {"agent", "proxy", "network"}
               \/ CancelClaim(r)
         \/ /\ run'[r] = run[r]
            /\ Gone(r)
            /\ \/ /\ canceller[r] = "agent" /\ canceller'[r] = "proxy"
                  /\ run[r].proc => ~AgentOut(r)'
               \/ /\ canceller[r] = "proxy" /\ canceller'[r] = "network"
                  /\ run[r].netProc => ~ProxyOut(r)'
               \/ /\ canceller[r] = "network" /\ canceller'[r] = "report"
                  /\ run[r].netName => NetworkFreed(r)
<1>1. /\ docker[r] \in Daemon /\ docker \in [Runs -> Daemon]
      /\ canceller \in [Runs -> CancelPC]
  BY DEF TypeOK
<1>2. CASE CancelLookup(r) \/ CancelClaim(r) \/ CancelReport(r)
  BY <1>2 DEF CancelLookup, CancelReport, CancelClaim
<1>3. docker'[r] = docker[r] => Gone(r)
  BY DEF Gone, AgentOut, AgentUp, ProxyOut, ProxyUp, NetOut
<1>4. CASE CancelAgent(r)
  <2>1. docker'[r] \in IF run[r].proc THEN WithoutAgent({docker[r]}) ELSE {docker[r]}
    BY <1>1, <1>4 DEF CancelAgent, Settle
  <2>2. Gone(r) /\ (run[r].proc => ~AgentOut(r)')
    BY <1>1, <1>3, <2>1, OneRemoval, AgentRemoved
  <2> QED
    BY <1>1, <1>4, <2>2 DEF CancelAgent
<1>5. CASE CancelProxy(r)
  <2>1. docker'[r] \in IF run[r].netProc THEN WithoutProxy({docker[r]}) ELSE {docker[r]}
    BY <1>1, <1>5 DEF CancelProxy, Settle
  <2>2. Gone(r) /\ (run[r].netProc => ~ProxyOut(r)')
    BY <1>1, <1>3, <2>1, OneRemoval, ProxyRemoved
  <2> QED
    BY <1>1, <1>5, <2>2 DEF CancelProxy
<1>6. CASE CancelNetwork(r)
  <2>1. docker'[r] \in IF run[r].netName THEN WithoutNetwork({docker[r]}) ELSE {docker[r]}
    BY <1>1, <1>6 DEF CancelNetwork, Settle
  <2>2. Gone(r) /\ (run[r].netName => NetworkFreed(r))
    BY <1>1, <1>3, <2>1, OneRemoval, NetworkRemoved
  <2> QED
    BY <1>1, <1>6, <2>2 DEF CancelNetwork
<1> QED
  BY <1>2, <1>4, <1>5, <1>6 DEF CancelStep

LEMMA CancelTeardown ==
  ASSUME TypeOK, NEW r \in Runs, Claims(r), ModeFits(r), Tidy(r), Torn(r),
         CancelStep(r)
  PROVE  ModeFits(r)' /\ Tidy(r)' /\ Torn(r)'
<1>1. CancelEffect(r)
  BY CancelFields
<1>2. CASE CancelClaim(r) /\ ~run[r].done
  <2>1. /\ docker'[r] = docker[r] /\ ~run'[r].ctx
        /\ canceller[r] = "found" /\ canceller'[r] = "agent"
        /\ run'[r].pc = run[r].pc /\ run'[r].mode = run[r].mode
        /\ run'[r].fault = run[r].fault /\ run'[r].cut = run[r].cut
        /\ run'[r].cancelledAt = run[r].pc
        /\ run'[r].proc = run[r].proc /\ run'[r].netProc = run[r].netProc
        /\ run'[r].netName = run[r].netName
    BY <1>1, <1>2 DEF CancelEffect, CancelClaim
  <2>2. OutSame(r)
    BY <2>1, SameOut
  <2>3. ModeFits(r)' /\ Tidy(r)'
    BY <2>1, <2>2 DEF ModeFits, Tidy, OutSame, ProxySame, NetPhases
  <2>4. Torn(r)'
    <3>1. CASE run[r].cut
      BY <2>1, <3>1 DEF Torn, CancelledInTime
    <3>2. CASE ~run[r].cut
      <4>1. run[r].ctx
        BY <2>1, <3>2 DEF Claims, Claimed
      <4> QED
        BY <2>1, <2>2, <4>1
           DEF Torn, Tidy, CancelledInTime, OutSame, AgentSame, ProxySame
    <3> QED
      BY <3>1, <3>2
  <2> QED
    BY <2>3, <2>4
<1>3. CASE ~(CancelClaim(r) /\ ~run[r].done)
  <2>1. run'[r] = run[r] /\ (canceller'[r] \in Claimed <=> canceller[r] \in Claimed)
    BY <1>1, <1>3 DEF CancelEffect
  <2>2. CASE docker'[r] = docker[r] /\ canceller[r] \notin {"agent", "proxy", "network"}
    <3>1. OutSame(r)
      BY <2>2, SameOut
    <3> QED
      BY <2>1, <2>2, <3>1
         DEF ModeFits, Tidy, Torn, CancelledInTime, OutSame, AgentSame, ProxySame,
             NetPhases
  <2>3. CASE /\ Gone(r)
             /\ \/ /\ canceller[r] = "agent" /\ canceller'[r] = "proxy"
                   /\ run[r].proc => ~AgentOut(r)'
                \/ /\ canceller[r] = "proxy" /\ canceller'[r] = "network"
                   /\ run[r].netProc => ~ProxyOut(r)'
                \/ /\ canceller[r] = "network" /\ canceller'[r] = "report"
                   /\ run[r].netName => NetworkFreed(r)
    <3>1. ModeFits(r)' /\ Tidy(r)'
      BY <2>1, <2>3 DEF ModeFits, Tidy, Gone, NetPhases
    <3>2. Torn(r)'
      <4>1. UpIsOut(r)'
        BY RunningIsOut
      <4> QED
        BY <2>1, <2>3, <4>1
           DEF Torn, ModeFits, CancelledInTime, Gone, NetworkFreed, UpIsOut
    <3> QED
      BY <3>1, <3>2
  <2>4. CancelClaim(r) => canceller[r] \notin {"agent", "proxy", "network"}
    BY DEF CancelClaim
  <2> QED
    BY <2>2, <2>3, <2>4, CancelDocker
<1> QED
  BY <1>2, <1>3

LEMMA TeardownStep ==
  TypeOK /\ ClaimsInv /\ TeardownInv /\ [Next]_vars => TeardownInv'
<1> SUFFICES ASSUME TypeOK, [Next]_vars, NEW r \in Runs,
                    Claims(r), ModeFits(r), Tidy(r), Torn(r)
             PROVE  ModeFits(r)' /\ Tidy(r)' /\ Torn(r)'
  BY DEF ClaimsInv, TeardownInv
<1>1. run[r] \in RunState /\ docker[r] \in Daemon
  BY DEF TypeOK
<1>2. CASE Untouched(r) \/ CutOff(r) \/ Arrives(r) \/ Asks(r)
  <2>1. OutSame(r)
    BY <1>2, SameOut DEF Untouched, CutOff, Arrives, Asks
  <2> USE DEF OutSame, AgentSame, ProxySame
  <2>2. CASE Untouched(r) \/ Asks(r)
    BY <2>1, <2>2
       DEF Untouched, Asks, ModeFits, Tidy, Torn, CancelledInTime, NetPhases,
           Claimed
  <2>3. CASE CutOff(r)
    BY <1>1, <2>1, <2>3
       DEF CutOff, ModeFits, Tidy, Torn, CancelledInTime, NetPhases, RunState
  <2>4. CASE Arrives(r)
    BY <1>1, <2>1, <2>4
       DEF Arrives, ModeFits, Tidy, Torn, CancelledInTime, NetPhases, RunState,
           InDockerCommand
  <2> QED
    BY <1>2, <2>2, <2>3, <2>4
<1>3. CASE Ends(r)
  <2>1. /\ AgentOut(r)' <=> AgentOut(r)
        /\ ~AgentUp(r)' /\ ProxySame(r) /\ (NetOut(r)' <=> NetOut(r))
    BY <1>1, <1>3
       DEF Ends, AgentOut, AgentUp, ProxySame, ProxyOut, ProxyUp, NetOut, Daemon
  <2> QED
    BY <1>3, <2>1
       DEF Ends, ProxySame, ModeFits, Tidy, Torn, CancelledInTime, NetPhases
<1>4. CASE RunnerStep(r)
  BY <1>4, RunnerModeFits, RunnerTidy, RunnerTorn
<1>5. CASE CancelStep(r)
  BY <1>5, CancelTeardown
<1> QED
  BY <1>2, <1>3, <1>4, <1>5, OneRun

LEMMA TeardownInvariant == Spec => []TeardownInv
<1>1. Init => TeardownInv
  <2> SUFFICES ASSUME Init, NEW r \in Runs
               PROVE  ModeFits(r) /\ Tidy(r) /\ Torn(r)
    BY DEF TeardownInv
  <2>1. /\ run[r].pc = "idle" /\ run[r].fault = "none"
        /\ ~AgentOut(r) /\ ~ProxyOut(r) /\ ~NetOut(r)
        /\ canceller[r] = "none"
    BY DEF Init, AgentOut, ProxyOut, NetOut
  <2> QED
    BY <2>1 DEF ModeFits, Tidy, Torn, CancelledInTime, NetPhases, Claimed
<1> QED
  BY <1>1, TeardownStep, ClaimsInvariant, TypeCorrect, PTL DEF Spec

\* What is there is out or was refused.
LEMMA LeftIsOut ==
  ASSUME NEW r \in Runs, NEW S,
         AgentOut(r) => "agent" \in S, ProxyOut(r) => "proxy" \in S,
         NetOut(r) => "network" \in S
  PROVE  Left(r) \subseteq docker[r].kept \cup S
BY DEF Left, AgentOut, ProxyOut, NetOut

(***************************************************************************)
(* Whatever docker command of a run failed, its removals included, a run   *)
(* that nobody cancelled and whose connection held leaves no container, in *)
(* whatever state, and no network behind, except what docker refused to    *)
(* remove and what the four error paths that CleanEnd names do not ask it  *)
(* to remove.                                                              *)
(***************************************************************************)
THEOREM NothingLeftAtEnd == Spec => []CleanEnd
<1>1. TeardownInv => CleanEnd
  <2> SUFFICES ASSUME NEW r \in Runs, Tidy(r), Over(r), run[r].ctx
               PROVE  Left(r) \subseteq docker[r].kept \cup Forgotten(r)
    BY DEF TeardownInv, CleanEnd
  <2>1. /\ AgentOut(r) => "agent" \in Forgotten(r)
        /\ ProxyOut(r) => "proxy" \in Forgotten(r)
        /\ NetOut(r) => "network" \in Forgotten(r)
    BY DEF Tidy, Over, Forgotten, Unnamed
  <2> QED
    BY <2>1, LeftIsOut
<1> QED
  BY <1>1, TeardownInvariant, PTL

(***************************************************************************)
(* In every interleaving of a runner, its canceller and docker, a cancel   *)
(* that caught the runner outside the three commands that create something *)
(* leaves no container and no network, except what docker refused to       *)
(* remove and the container of a docker run that had failed before.        *)
(***************************************************************************)
THEOREM CancelLeavesNothing == Spec => []CancelTearsDown
<1>1. TeardownInv => CancelTearsDown
  <2> SUFFICES ASSUME NEW r \in Runs, Torn(r), Over(r), canceller[r] = "finished",
                      ~run[r].cut, run[r].cancelledAt \notin InDockerCommand
               PROVE  Left(r) \subseteq docker[r].kept \cup Unnamed(r)
    BY DEF TeardownInv, CancelTearsDown
  <2>1. /\ AgentOut(r) => "agent" \in Unnamed(r)
        /\ ProxyOut(r) => "proxy" \in Unnamed(r)
        /\ ~NetOut(r)
    BY DEF Torn, CancelledInTime, Claimed, Over, Unnamed
  <2> QED
    BY <2>1, LeftIsOut
<1> QED
  BY <1>1, TeardownInvariant, PTL
=============================================================================
