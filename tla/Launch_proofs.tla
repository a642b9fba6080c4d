---------------------------- MODULE Launch_proofs ----------------------------
(***************************************************************************)
(* Theorems about Launch and the policy proxy it starts, for any hosts,    *)
(* addresses, ports, rules and configurations.                             *)
(***************************************************************************)
EXTENDS Launch, TLAPS

-----------------------------------------------------------------------------
(* Types. *)

LEMMA ConfigTypes ==
  /\ ZeroConfig \in Config /\ DefaultConfig \in Config
  /\ BuildQuickstart \in Config
  /\ HandWritten \subseteq Config
<1>1. ZeroConfig \in Config
  BY DEF ZeroConfig, Config
<1>2. DefaultConfig \in Config
  <2>1. ASSUME NEW n \in Known \cup {Custom}
        PROVE  [key |-> [name |-> n, form |-> "exact"], image |-> TRUE,
                command |-> FALSE, dest |-> n = "nano_agent",
                runner |-> "docker"] \in Entry
    <3>1. [name |-> n, form |-> "exact"] \in Key
      BY DEF Key
    <3>2. (n = "nano_agent") \in BOOLEAN
      OBVIOUS
    <3> QED
      BY <3>1, <3>2 DEF Entry
  <2>2. DefaultConfig.runtimes \subseteq Entry
    BY <2>1 DEF DefaultConfig
  <2> QED
    BY <2>2 DEF DefaultConfig, Config
<1>3. BuildQuickstart \in Config
  BY <1>2 DEF BuildQuickstart, Config
<1> QED
  BY <1>1, <1>2, <1>3, LaunchAssumption

LEMMA LoadConfigType == TypeOK => LoadConfig \in Config
BY ConfigTypes DEF TypeOK, LoadConfig

LEMMA TypeInit == Init => TypeOK
<1> SUFFICES ASSUME Init PROVE TypeOK
  OBVIOUS
<1>1. ProxyTypeOK
  <2>1. Quiet \in End
    BY AddressesAssumption DEF Quiet, End
  <2>2. NoRules \in [hosts : SUBSET Rule, cidrs : SUBSET Rule]
    BY DEF NoRules
  <2>3. /\ passed = FALSE /\ refused = FALSE /\ rulesFile = << >>
        /\ copying = {} /\ closed = {} /\ vouched = {}
        /\ client = Quiet /\ server = Quiet /\ allow = NoRules
        /\ dialled = Absent
        /\ target = NoTarget /\ proxy = "absent" /\ tunnel = "none"
    BY DEF Init, ProxyInit
  <2>4. rulesFile \in Seq(Rule)
    BY <2>3
  <2> QED
    BY <2>1, <2>2, <2>3, <2>4 DEF ProxyTypeOK
<1>2. NoRun \in Run
  BY DEF NoRun, Run
<1> QED
  BY <1>1, <1>2, ConfigTypes DEF Init, TypeOK

LEMMA EntriesType ==
  ASSUME NEW c \in Config, NEW rt
  PROVE  EntriesOf(c, rt) \subseteq c.runtimes /\ c.runtimes \subseteq Entry
BY DEF EntriesOf, Written, Config

LEMMA RefusedType ==
  ASSUME NEW code \in {"RUNTIME_NOT_CONFIGURED", "RUNTIME_SPEC_BUILD_FAILED",
                       "EXEC_COMMAND_EMPTY", "NETWORK_ALLOWLIST_EMPTY",
                       "NETWORK_ALLOWLIST_INVALID"}
  PROVE  Refused(code) \in Run /\ Refused(code).state = "refused"
         /\ Refused(code).error = code
BY DEF Refused, NoRun, Run

LEMMA StartedType ==
  ASSUME NEW c \in Config, NEW e \in Entry,
         NEW policy \in {"none", "all", "allowlist"}
  PROVE  /\ Started(c, e, policy) \in Run
         /\ Started(c, e, policy).state = "started"
         /\ Started(c, e, policy).error = ""
         /\ Started(c, e, policy).runner = e.runner
         /\ Started(c, e, policy).network = NetworkOf(e.runner, policy)
<1>1. AgentConfigMount(c, e) \in {"", "relative", "inside", "outside", "host"}
  BY DEF AgentConfigMount, resolveHostBindPath, Config
<1>2. NetworkOf(e.runner, policy) \in {"none", "internal", "default"}
  BY DEF NetworkOf, DockerExtraArgsFromPolicy
<1>3. e.runner \in {"docker", "exec"}
  BY DEF Entry
<1> QED
  BY <1>1, <1>2, <1>3 DEF Started, NoRun, Run

LEMMA OutcomeType ==
  ASSUME NEW c \in Config, NEW e \in Entry, NEW rt,
         NEW policy \in {"none", "all", "allowlist"}, NEW unreadable \in BOOLEAN
  PROVE  LET o == Outcome(c, e, rt, policy, unreadable) IN
           /\ o \in Run
           /\ \/ /\ o.state = "refused"
                 /\ o.error # "RUNTIME_NOT_CONFIGURED"
              \/ /\ o = Started(c, e, policy)
                 /\ e.runner = "docker" => NetworkError(c, policy) = ""
<1>1. NetworkError(c, policy) \in
        {"", "NETWORK_ALLOWLIST_EMPTY", "NETWORK_ALLOWLIST_INVALID"}
  BY DEF NetworkError
<1>2. CASE BuildSpecFails(e, rt, unreadable)
  BY <1>2, RefusedType DEF Outcome
<1>3. CASE /\ ~BuildSpecFails(e, rt, unreadable)
           /\ e.runner = "exec" /\ ~e.command
  BY <1>3, RefusedType DEF Outcome
<1>4. CASE /\ ~BuildSpecFails(e, rt, unreadable)
           /\ ~(e.runner = "exec" /\ ~e.command)
           /\ e.runner = "docker" /\ NetworkError(c, policy) # ""
  BY <1>1, <1>4, RefusedType DEF Outcome
<1>5. CASE /\ ~BuildSpecFails(e, rt, unreadable)
           /\ ~(e.runner = "exec" /\ ~e.command)
           /\ ~(e.runner = "docker" /\ NetworkError(c, policy) # "")
  BY <1>5, StartedType DEF Outcome
<1> QED
  BY <1>2, <1>3, <1>4, <1>5

\* What a request leaves behind.
LEMMA RequestStep ==
  ASSUME TypeOK, NEW rt \in Known \cup {Custom},
         NEW policy \in {"none", "all", "allowlist"},
         NEW chosen \in BOOLEAN, NEW unreadable \in BOOLEAN,
         handleRunRequest(rt, policy, chosen, unreadable)
  PROVE  /\ run' \in Run
         /\ run'.runtime = rt /\ run'.policy = policy /\ run'.chosen = chosen
         /\ \/ /\ run'.state = "refused"
               /\ run'.error = "RUNTIME_NOT_CONFIGURED" => EntriesOf(config, rt) = {}
            \/ \E e \in EntriesOf(config, rt) :
                 /\ run'.state = "started" /\ run'.error = ""
                 /\ run'.runner = e.runner
                 /\ run'.network = NetworkOf(e.runner, policy)
                 /\ e.runner = "docker" => NetworkError(config, policy) = ""
<1>1. config \in Config
  BY DEF TypeOK
<1>2. CASE /\ EntriesOf(config, rt) = {}
           /\ run' = [Refused("RUNTIME_NOT_CONFIGURED") EXCEPT
                        !.runtime = rt, !.policy = policy, !.chosen = chosen]
  <2> DEFINE no == Refused("RUNTIME_NOT_CONFIGURED")
  <2>1. no \in Run /\ no.state = "refused" /\ no.error = "RUNTIME_NOT_CONFIGURED"
    BY RefusedType
  <2>2. run' = [no EXCEPT !.runtime = rt, !.policy = policy, !.chosen = chosen]
    BY <1>2
  <2> HIDE DEF no
  <2>3. /\ run' \in Run /\ run'.state = no.state /\ run'.error = no.error
        /\ run'.runtime = rt /\ run'.policy = policy /\ run'.chosen = chosen
    BY <2>1, <2>2 DEF Run
  <2> QED
    BY <1>2, <2>1, <2>3
<1>3. ASSUME NEW e \in EntriesOf(config, rt),
             run' = [Outcome(config, e, rt, policy, unreadable) EXCEPT
                       !.runtime = rt, !.policy = policy, !.chosen = chosen]
      PROVE  /\ run' \in Run
             /\ run'.runtime = rt /\ run'.policy = policy /\ run'.chosen = chosen
             /\ \/ /\ run'.state = "refused"
                   /\ run'.error # "RUNTIME_NOT_CONFIGURED"
                \/ /\ run'.state = "started" /\ run'.error = ""
                   /\ run'.runner = e.runner
                   /\ run'.network = NetworkOf(e.runner, policy)
                   /\ e.runner = "docker" => NetworkError(config, policy) = ""
  <2>1. e \in Entry
    BY <1>1, EntriesType
  <2> DEFINE o == Outcome(config, e, rt, policy, unreadable)
  <2>2. /\ o \in Run
        /\ \/ o.state = "refused" /\ o.error # "RUNTIME_NOT_CONFIGURED"
           \/ /\ o = Started(config, e, policy)
              /\ e.runner = "docker" => NetworkError(config, policy) = ""
    BY <1>1, <2>1, OutcomeType
  <2>3. /\ Started(config, e, policy).state = "started"
        /\ Started(config, e, policy).error = ""
        /\ Started(config, e, policy).runner = e.runner
        /\ Started(config, e, policy).network = NetworkOf(e.runner, policy)
    BY <1>1, <2>1, StartedType
  <2>4. run' = [o EXCEPT !.runtime = rt, !.policy = policy, !.chosen = chosen]
    BY <1>3
  <2> HIDE DEF o
  <2> QED
    BY <2>2, <2>3, <2>4 DEF Run
<1> QED
  BY <1>2, <1>3 DEF handleRunRequest

LEMMA RequestType ==
  ASSUME TypeOK, NEW rt \in Known \cup {Custom},
         NEW policy \in {"none", "all", "allowlist"},
         NEW chosen \in BOOLEAN, NEW unreadable \in BOOLEAN,
         handleRunRequest(rt, policy, chosen, unreadable)
  PROVE  TypeOK'
<1>1. run' \in Run
  BY RequestStep
<1>2. rulesFile' \in Seq(Rule) /\ proxy' \in {"absent", "loading", "serving", "exited"}
  BY DEF handleRunRequest, TypeOK, ProxyTypeOK, Config
<1> QED
  BY <1>1, <1>2 DEF handleRunRequest, TypeOK, ProxyTypeOK, fileVars, requestVars,
     tunnelVars

LEMMA CommandsType ==
  ASSUME TypeOK, Commands
  PROVE  TypeOK'
<1> USE DEF TypeOK, ProxyTypeOK, proxyVars, rulesVars, requestVars, tunnelVars
<1>1. ASSUME NEW c \in Config, SaveConfig(c) PROVE TypeOK'
  BY <1>1, ConfigTypes DEF SaveConfig
<1>2. ASSUME NEW path \in {"", "relative", "inside", "outside"}, configSet(path)
      PROVE  TypeOK'
  <2>1. [LoadConfig EXCEPT !.agentPath = path] \in Config
    BY LoadConfigType DEF Config
  <2> QED
    BY <1>1, <1>2, <2>1 DEF configSet
<1>3. CASE FinishSaving
  BY <1>3 DEF FinishSaving
<1>4. CASE KillCommand
  BY <1>4 DEF KillCommand
<1>5. CASE Edit
  BY <1>5, ConfigTypes DEF Edit
<1> QED
  BY <1>1, <1>2, <1>3, <1>4, <1>5, ConfigTypes
  DEF Commands, configInit, runQuickstart

LEMMA WorkerType ==
  ASSUME TypeOK, StartWorker \/ StopWorker \/ \E t \in Target : ReachDirectly(t)
  PROVE  TypeOK'
<1> USE DEF TypeOK, fileVars
<1>1. CASE UNCHANGED proxyVars
  <2>1. ProxyTypeOK'
    BY <1>1 DEF ProxyTypeOK, proxyVars, rulesVars, requestVars, tunnelVars
  <2>2. CASE StartWorker
    BY <2>1, <2>2, LoadConfigType DEF StartWorker
  <2>3. CASE StopWorker
    BY <2>1, <2>3 DEF StopWorker
  <2>4. ASSUME NEW t \in Target, ReachDirectly(t) PROVE TypeOK'
    BY <2>1, <2>4 DEF ReachDirectly
  <2> QED
    BY <2>2, <2>3, <2>4
<1> QED
  BY <1>1 DEF StartWorker, StopWorker, ReachDirectly

\* A connection is made to an address: the one asked for, or one of an answer.
LEMMA ConnectedType ==
  ASSUME NEW t \in Target \cup {NoTarget}, ConnectTo(t)
  PROVE  /\ dialled' \in Addresses \cup {Absent}
         /\ t.host \notin Hosts => dialled' = t.host
<1>1. CASE t.host \in Hosts
  BY <1>1 DEF ConnectTo, Answers
<1>2. CASE t.host \notin Hosts
  <2>1. t.host \in Addresses \cup {Absent}
    BY <1>2 DEF Target, NoTarget
  <2> QED
    BY <1>2, <2>1 DEF ConnectTo
<1> QED
  BY <1>1, <1>2

LEMMA DecideType ==
  ASSUME TypeOK, NEW t \in Target, AskProxy(t)
  PROVE  TypeOK'
<1>1. target' = t /\ vouched' \in SUBSET Addresses
      /\ passed' = allowed(allow, t, vouched')
  BY DEF AskProxy, handleConnect, handleHTTP, Decide, Answers
<1>2. passed' \in BOOLEAN
  BY <1>1 DEF allowed
<1>3. dialled' \in Addresses \cup {Absent}
  BY ConnectedType DEF TypeOK, ProxyTypeOK, AskProxy, handleConnect, handleHTTP
<1> QED
  BY <1>1, <1>2, <1>3 DEF TypeOK, ProxyTypeOK, AskProxy, handleConnect,
     handleHTTP, launchVars, rulesVars

LEMMA LoadedTypes ==
  ASSUME NEW rules \in Seq(Rule)
  PROVE  loadAllowlist(rules) \in [hosts : SUBSET Rule, cidrs : SUBSET Rule]
<1>1. Range(rules) \subseteq Rule
  BY DEF Range
<1> QED
  BY <1>1 DEF loadAllowlist

\* The two ends and their copiers.
LEMMA EndTypes ==
  ASSUME ProxyTypeOK
  PROVE  /\ client.sent < MaxBytes => [client EXCEPT !.sent = @ + 1] \in End
         /\ server.sent < MaxBytes => [server EXCEPT !.sent = @ + 1] \in End
         /\ client.sent > server.got => [server EXCEPT !.got = @ + 1] \in End
         /\ server.sent > client.got => [client EXCEPT !.got = @ + 1] \in End
         /\ \A s \in {"finished", "gone"} :
              /\ [client EXCEPT !.state = s] \in End
              /\ [server EXCEPT !.state = s] \in End
<1>1. client \in End /\ server \in End /\ MaxBytes \in Nat
  BY AddressesAssumption DEF ProxyTypeOK
<1>2. ASSUME NEW a \in End, NEW b \in End
      PROVE  /\ a.sent < MaxBytes => [a EXCEPT !.sent = @ + 1] \in End
             /\ a.sent > b.got => [b EXCEPT !.got = @ + 1] \in End
             /\ \A s \in {"finished", "gone"} : [a EXCEPT !.state = s] \in End
  <2>1. a.sent < MaxBytes => [a EXCEPT !.sent = @ + 1] \in End
    BY <1>1 DEF End
  <2>2. a.sent > b.got => [b EXCEPT !.got = @ + 1] \in End
    BY <1>1 DEF End
  <2>3. \A s \in {"finished", "gone"} : [a EXCEPT !.state = s] \in End
    BY DEF End
  <2> QED
    BY <2>1, <2>2, <2>3
<1> QED
  BY <1>1, <1>2

LEMMA ProxyType ==
  ASSUME TypeOK, Proxy
  PROVE  TypeOK'
<1> USE DEF TypeOK, ProxyTypeOK, Proxy, launchVars, rulesVars, requestVars, tunnelVars
<1>1. CASE LoadRules
  BY <1>1, LoadedTypes DEF LoadRules
<1>2. CASE Dial
  <2>1. dialled' \in Addresses \cup {Absent}
    BY <1>2, ConnectedType DEF Dial
  <2> QED
    BY <1>2, <2>1 DEF Dial
<1>3. CASE ClientSends \/ ServerSends
  BY <1>3, EndTypes DEF ClientSends, ServerSends
<1>4. CASE ClientEnds \/ ServerEnds
  BY <1>4, EndTypes DEF ClientEnds, ServerEnds
<1>5. CASE CopyUp \/ UpEnds
  <2>1. ASSUME Stop("up", "server")
        PROVE  /\ copying' \in SUBSET {"up", "down"}
               /\ closed' \in SUBSET {"client", "server"}
               /\ tunnel' \in {"none", "asked", "open", "over"}
    BY <2>1 DEF Stop
  <2>2. CASE CopyUp
    <3>1. CASE server.state = "gone"
      BY <2>1, <2>2, <3>1 DEF CopyUp
    <3>2. CASE server.state # "gone"
      <4>1. server' = [server EXCEPT !.got = @ + 1] /\ server' \in End
        BY <2>2, <3>2, EndTypes DEF CopyUp
      <4> QED
        BY <2>2, <3>2, <4>1 DEF CopyUp
    <3> QED
      BY <3>1, <3>2
  <2>3. CASE UpEnds
    BY <2>1, <2>3 DEF UpEnds
  <2> QED
    BY <1>5, <2>2, <2>3
<1>6. CASE CopyDown \/ DownEnds
  BY <1>6, EndTypes DEF CopyDown, DownEnds, Stop
<1> QED
  BY <1>1, <1>2, <1>3, <1>4, <1>5, <1>6 DEF Tunnel

LEMMA TypeStep == TypeOK /\ [Next]_vars => TypeOK'
<1>1. ASSUME TypeOK, UNCHANGED vars PROVE TypeOK'
  BY <1>1 DEF TypeOK, ProxyTypeOK, vars, launchVars, proxyVars, rulesVars,
     requestVars, tunnelVars
<1> QED
  BY <1>1, CommandsType, WorkerType, RequestType, DecideType, ProxyType DEF Next

(***************************************************************************)
(* Files, configurations, runs and rules stay of their type, and both     *)
(* ends of a tunnel keep within what may be sent over it.                  *)
(***************************************************************************)
THEOREM TypeCorrect == Spec => []TypeOK
BY TypeInit, TypeStep, PTL DEF Spec

-----------------------------------------------------------------------------
(* Validation. *)

LEMMA ValidRulesLoad ==
  ASSUME NEW rules, ValidateNetworkAllowlist(rules)
  PROVE  ~LoadFails(rules)
BY DEF ValidateNetworkAllowlist, LoadFails

LEMMA InternalIsValid ==
  ASSUME NEW c, NEW e, NEW policy \in {"none", "all", "allowlist"},
         NetworkOf(e.runner, policy) = "internal",
         e.runner = "docker" => NetworkError(c, policy) = "",
         e.runner \in {"docker", "exec"}
  PROVE  policy = "allowlist" /\ ~LoadFails(c.allowlist)
<1>1. policy = "allowlist" /\ e.runner = "docker"
  BY DEF NetworkOf, DockerExtraArgsFromPolicy
<1>2. ValidateNetworkAllowlist(c.allowlist)
  BY <1>1 DEF NetworkError
<1> QED
  BY <1>1, <1>2, ValidRulesLoad

-----------------------------------------------------------------------------
(***************************************************************************)
(* The invariant behind the properties of runs: a run is decided about     *)
(* once, by the configuration its worker has loaded and keeps; the proxy   *)
(* runs under an ALLOWLIST run only, on the rules of that configuration,   *)
(* and nothing passes it but by its decision.                              *)
(***************************************************************************)
RunStands ==
  /\ run.state # "none" => process = "up"
  /\ run.state = "none" => run = NoRun /\ proxy = "absent"
  /\ run.state = "started" /\ run.runner = "docker" =>
       run.network = NetworkOf("docker", run.policy)

ProxyFollows ==
  /\ reached # {} => run.state = "started" /\ run.network = "default"
  /\ proxy # "absent" =>
       /\ run.state = "started" /\ run.network = "internal"
       /\ proxy # "exited" /\ rulesFile = config.allowlist /\ ~LoadFails(rulesFile)
  /\ proxy = "serving" => allow = loadAllowlist(rulesFile)
  /\ passed => /\ proxy = "serving" /\ allowed(allow, target, vouched)
               /\ target \in Target

\* What each step does to the variables these are about.
LEMMA LaunchStep ==
  ASSUME [Next]_vars
  PROVE  \/ UNCHANGED <<process, config, run, reached, rulesFile, proxy, allow,
                        target, vouched, passed>>
         \/ StartWorker
         \/ StopWorker
         \/ \E rt \in Known \cup {Custom}, policy \in {"none", "all", "allowlist"},
               chosen, unreadable \in BOOLEAN :
              handleRunRequest(rt, policy, chosen, unreadable)
         \/ \E t \in Target : ReachDirectly(t) \/ AskProxy(t)
         \/ LoadRules /\ UNCHANGED launchVars
<1>1. CASE Commands
  BY <1>1 DEF Commands, configInit, configSet, runQuickstart, SaveConfig,
     FinishSaving, KillCommand, Edit, proxyVars, rulesVars, requestVars
<1>2. CASE Proxy /\ Tunnel
  BY <1>2 DEF Proxy, Tunnel, Dial, ClientSends, ServerSends, ClientEnds,
     ServerEnds, CopyUp, UpEnds, CopyDown, DownEnds, launchVars, rulesVars,
     requestVars
<1>3. CASE UNCHANGED vars
  BY <1>3 DEF vars, launchVars, proxyVars, rulesVars, requestVars
<1> QED
  BY <1>1, <1>2, <1>3 DEF Next, Proxy

LEMMA RunStandsStep ==
  ASSUME TypeOK, RunStands, [Next]_vars
  PROVE  RunStands'
<1>1. CASE UNCHANGED <<process, run, proxy>>
  BY <1>1 DEF RunStands
<1>2. CASE StartWorker
  BY <1>2 DEF StartWorker, RunStands, proxyVars, rulesVars
<1>3. CASE StopWorker
  BY <1>3 DEF StopWorker, RunStands, proxyVars, rulesVars
<1>4. ASSUME NEW rt \in Known \cup {Custom},
             NEW policy \in {"none", "all", "allowlist"},
             NEW chosen \in BOOLEAN, NEW unreadable \in BOOLEAN,
             handleRunRequest(rt, policy, chosen, unreadable)
      PROVE  RunStands'
  <2>1. process' = "up"
    BY <1>4 DEF handleRunRequest
  <2>2. run'.state # "none"
    BY <1>4, RequestStep
  <2>3. run'.state = "started" /\ run'.runner = "docker"
          => run'.network = NetworkOf("docker", run'.policy)
    BY <1>4, RequestStep
  <2> QED
    BY <2>1, <2>2, <2>3 DEF RunStands
<1>5. CASE LoadRules /\ UNCHANGED launchVars
  BY <1>5 DEF LoadRules, RunStands, launchVars
<1>6. ASSUME NEW t \in Target, ReachDirectly(t) \/ AskProxy(t)
      PROVE  UNCHANGED <<process, run, proxy>>
  BY <1>6 DEF ReachDirectly, AskProxy, handleConnect, handleHTTP, launchVars,
     proxyVars, rulesVars
<1> QED
  BY <1>1, <1>2, <1>3, <1>4, <1>5, <1>6, LaunchStep

LEMMA ProxyFollowsStep ==
  ASSUME TypeOK, RunStands, ProxyFollows, [Next]_vars
  PROVE  ProxyFollows'
<1>1. CASE UNCHANGED <<process, config, run, reached, rulesFile, proxy, allow,
                       target, vouched, passed>>
  BY <1>1 DEF ProxyFollows
<1>2. CASE StartWorker
  BY <1>2 DEF StartWorker, RunStands, ProxyFollows, proxyVars, rulesVars,
     requestVars
<1>3. CASE StopWorker
  BY <1>3 DEF StopWorker, ProxyFollows, proxyVars, rulesVars, requestVars
<1>4. ASSUME NEW rt \in Known \cup {Custom},
             NEW policy \in {"none", "all", "allowlist"},
             NEW chosen \in BOOLEAN, NEW unreadable \in BOOLEAN,
             handleRunRequest(rt, policy, chosen, unreadable)
      PROVE  ProxyFollows'
  <2>1. /\ UNCHANGED <<config, reached, allow, target, vouched, passed>>
        /\ reached = {} /\ proxy = "absent" /\ ~passed
    BY <1>4 DEF handleRunRequest, requestVars, ProxyFollows, RunStands, NoRun
  <2>2. \/ UNCHANGED proxy
        \/ /\ run'.state = "started" /\ run'.network = "internal"
           /\ rulesFile' = config.allowlist /\ proxy' = "loading"
    BY <1>4 DEF handleRunRequest
  <2>3. ASSUME run'.state = "started", run'.network = "internal"
        PROVE  ~LoadFails(config.allowlist)
    <3>1. PICK e \in EntriesOf(config, rt) :
            /\ run'.network = NetworkOf(e.runner, policy)
            /\ e.runner = "docker" => NetworkError(config, policy) = ""
      BY <1>4, <2>3, RequestStep
    <3>2. e.runner \in {"docker", "exec"}
      BY EntriesType DEF TypeOK, Entry
    <3> QED
      BY <2>3, <3>1, <3>2, InternalIsValid
  <2> QED
    BY <2>1, <2>2, <2>3 DEF ProxyFollows
<1>5. CASE LoadRules /\ UNCHANGED launchVars
  BY <1>5 DEF LoadRules, ProxyFollows, launchVars, requestVars
<1>6. ASSUME NEW t \in Target, ReachDirectly(t) PROVE ProxyFollows'
  BY <1>6 DEF ReachDirectly, ProxyFollows, proxyVars, rulesVars, requestVars
<1>7. ASSUME NEW t \in Target, AskProxy(t) PROVE ProxyFollows'
  <2>1. /\ UNCHANGED <<config, run, reached, rulesFile, proxy, allow>>
        /\ proxy = "serving" /\ target' = t
        /\ passed' = allowed(allow, t, vouched')
    BY <1>7 DEF AskProxy, handleConnect, handleHTTP, Decide, launchVars, rulesVars
  <2> QED
    BY <2>1 DEF ProxyFollows
<1> QED
  BY <1>1, <1>2, <1>3, <1>4, <1>5, <1>6, <1>7, LaunchStep

(***************************************************************************)
(* A connection is made for a request that was let through, once, and to   *)
(* the address itself where an address was asked for.                      *)
(***************************************************************************)
ConnectionFollows ==
  /\ tunnel = "none" => dialled = Absent
  /\ tunnel = "asked" => passed
  /\ dialled # Absent =>
       passed /\ (target.host \notin Hosts => dialled = target.host)

LEMMA ConnectionStep ==
  ASSUME [Next]_vars
  PROVE  \/ /\ UNCHANGED requestVars
            /\ tunnel' = tunnel \/ tunnel' \in {"open", "over"}
         \/ Dial
         \/ \E t \in Target : AskProxy(t)
<1>1. CASE Commands
  BY <1>1 DEF Commands, configInit, configSet, runQuickstart, SaveConfig,
     FinishSaving, KillCommand, Edit, proxyVars, tunnelVars
<1>2. CASE StartWorker \/ StopWorker \/ UNCHANGED vars
  BY <1>2 DEF StartWorker, StopWorker, vars, proxyVars, tunnelVars
<1>3. ASSUME NEW t, ReachDirectly(t) PROVE UNCHANGED <<requestVars, tunnel>>
  BY <1>3 DEF ReachDirectly, proxyVars, tunnelVars
<1>4. ASSUME NEW rt, NEW policy, NEW chosen, NEW unreadable,
             handleRunRequest(rt, policy, chosen, unreadable)
      PROVE  UNCHANGED <<requestVars, tunnel>>
  BY <1>4 DEF handleRunRequest, tunnelVars
<1>5. CASE LoadRules
  BY <1>5 DEF LoadRules, tunnelVars
<1>6. CASE ClientSends \/ ServerSends \/ ClientEnds \/ ServerEnds
  BY <1>6 DEF ClientSends, ServerSends, ClientEnds, ServerEnds
<1>7. CASE CopyUp \/ UpEnds \/ CopyDown \/ DownEnds
  BY <1>7 DEF CopyUp, UpEnds, CopyDown, DownEnds, Stop
<1> QED
  BY <1>1, <1>2, <1>3, <1>4, <1>5, <1>6, <1>7 DEF Next, Proxy, Tunnel

LEMMA ConnectionFollowsStep ==
  ASSUME TypeOK, ConnectionFollows, [Next]_vars
  PROVE  ConnectionFollows'
<1>1. CASE /\ UNCHANGED requestVars
           /\ tunnel' = tunnel \/ tunnel' \in {"open", "over"}
  BY <1>1 DEF ConnectionFollows, requestVars
<1>2. CASE Dial
  <2>1. UNCHANGED <<target, passed>> /\ passed /\ tunnel' \in {"open", "over"}
    BY <1>2 DEF Dial, ConnectionFollows
  <2>2. dialled' = dialled \/ (target.host \notin Hosts => dialled' = target.host)
    BY <1>2, ConnectedType DEF Dial, TypeOK, ProxyTypeOK
  <2> QED
    BY <2>1, <2>2 DEF ConnectionFollows
<1>3. ASSUME NEW t \in Target, AskProxy(t) PROVE ConnectionFollows'
  <2>1. dialled = Absent /\ target' = t
    BY <1>3 DEF AskProxy, handleConnect, handleHTTP, Decide, ConnectionFollows
  <2>2. CASE handleConnect(t)
    BY <2>1, <2>2 DEF handleConnect, ConnectionFollows
  <2>3. CASE handleHTTP(t)
    <3>1. dialled' = Absent
            \/ (passed' /\ (t.host \notin Hosts => dialled' = t.host))
      BY <2>1, <2>3, ConnectedType DEF handleHTTP
    <3> QED
      BY <2>1, <2>3, <3>1 DEF handleHTTP, ConnectionFollows
  <2> QED
    BY <1>3, <2>2, <2>3 DEF AskProxy
<1> QED
  BY <1>1, <1>2, <1>3, ConnectionStep

LEMMA RunsInvariant ==
  Spec => [](TypeOK /\ RunStands /\ ProxyFollows /\ ConnectionFollows)
<1>1. Init => RunStands /\ ProxyFollows /\ ConnectionFollows
  <2> SUFFICES ASSUME Init PROVE RunStands /\ ProxyFollows /\ ConnectionFollows
    OBVIOUS
  <2>1. /\ run = NoRun /\ proxy = "absent" /\ reached = {} /\ passed = FALSE
        /\ dialled = Absent /\ tunnel = "none"
    BY DEF Init, ProxyInit
  <2> QED
    BY <2>1 DEF RunStands, ProxyFollows, ConnectionFollows, NoRun
<1>2. TypeOK /\ RunStands /\ ProxyFollows /\ ConnectionFollows /\ [Next]_vars
        => (RunStands /\ ProxyFollows /\ ConnectionFollows)'
  BY RunStandsStep, ProxyFollowsStep, ConnectionFollowsStep
<1> QED
  BY <1>1, <1>2, TypeInit, TypeStep, PTL DEF Spec

(***************************************************************************)
(* Whatever rules the operator writes, the proxy never refuses the ones    *)
(* the worker has let pass.                                                *)
(***************************************************************************)
THEOREM RulesAccepted == Spec => []AcceptedRulesLoad
<1>1. ProxyFollows => AcceptedRulesLoad
  BY DEF ProxyFollows, AcceptedRulesLoad
<1> QED
  BY <1>1, RunsInvariant, PTL

\* A decision for a destination names the rule it rests on.
LEMMA AllowedIsListed ==
  ASSUME NEW rules \in Seq(Rule), NEW t \in Target, NEW answer, NEW address,
         t.host \notin Hosts => address = t.host,
         allowed(loadAllowlist(rules), t, answer)
  PROVE  \E i \in DOMAIN rules : Lists(rules[i], t, answer, address)
<1> DEFINE al == loadAllowlist(rules)
<1>1. /\ \A r \in al.hosts : \E i \in DOMAIN rules : r = rules[i]
      /\ \A r \in al.cidrs : r.cidr \in Blocks /\ \E i \in DOMAIN rules : r = rules[i]
  BY DEF loadAllowlist, Range
<1> HIDE DEF al
<1>2. ASSUME NEW r \in al.cidrs, NEW a, t.port \in PortsOf(r), a \in Block[r.cidr],
             IF t.host \in Hosts THEN a \in answer ELSE a = t.host
      PROVE  \E i \in DOMAIN rules : Lists(rules[i], t, answer, address)
  BY <1>1, <1>2 DEF Lists
<1>3. ASSUME NEW r \in al.hosts, t.port \in PortsOf(r), t.host \in Hosts,
             IF r.wildcard THEN r.host \in Under[t.host] ELSE r.host = t.host
      PROVE  \E i \in DOMAIN rules : Lists(rules[i], t, answer, address)
  BY <1>1, <1>3 DEF Lists
<1>4. allowed(al, t, answer) /\ (t.host \in Addresses => t.host \notin Hosts)
  BY AddressesAssumption DEF al
<1> QED
  BY <1>2, <1>3, <1>4 DEF allowed, allowedIP

(***************************************************************************)
(* Under NONE a container is connected to nothing.  Under ALLOWLIST it is  *)
(* connected only on account of a rule of the configuration: one that      *)
(* lists the name it asked for, or an address the decision's lookup gave   *)
(* for that name, or the address it asked for, which is then the address   *)
(* connected to.  Where the dial of a name ends up is what the resolver    *)
(* answers the second time, and is not claimed to be listed.               *)
(***************************************************************************)
THEOREM PolicyHolds == Spec => []OnlyListed
<1>1. ASSUME TypeOK, RunStands, ProxyFollows, ConnectionFollows,
             run.state = "started", run.runner = "docker",
             run.policy \in {"none", "allowlist"}
      PROVE  /\ reached = {}
             /\ dialled # Absent => run.policy = "allowlist"
             /\ dialled # Absent =>
                  \E i \in DOMAIN config.allowlist :
                    Lists(config.allowlist[i], target, vouched, dialled)
  <2>1. run.network = (IF run.policy = "none" THEN "none" ELSE "internal")
    BY <1>1 DEF RunStands, NetworkOf, DockerExtraArgsFromPolicy
  <2>2. /\ reached = {} /\ (passed => run.policy = "allowlist")
        /\ dialled # Absent => passed
    BY <1>1, <2>1 DEF ProxyFollows, ConnectionFollows
  <2>3. ASSUME dialled # Absent
        PROVE  \E i \in DOMAIN config.allowlist :
                 Lists(config.allowlist[i], target, vouched, dialled)
    <3>1. /\ allowed(loadAllowlist(config.allowlist), target, vouched)
          /\ target \in Target
      BY <1>1, <2>2, <2>3 DEF ProxyFollows
    <3>2. target.host \notin Hosts => dialled = target.host
      BY <1>1, <2>3 DEF ConnectionFollows
    <3>3. config.allowlist \in Seq(Rule)
      BY <1>1 DEF TypeOK, Config
    <3> QED
      BY <3>1, <3>2, <3>3, AllowedIsListed
  <2> QED
    BY <2>2, <2>3
<1>2. TypeOK /\ RunStands /\ ProxyFollows /\ ConnectionFollows => OnlyListed
  BY <1>1 DEF OnlyListed
<1> QED
  BY <1>2, RunsInvariant, PTL

-----------------------------------------------------------------------------
LEMMA RoutedStep ==
  ASSUME TypeOK, RunStands, RoutedIsConfigured, [Next]_vars
  PROVE  RoutedIsConfigured'
<1>1. CASE UNCHANGED <<config, run>>
  BY <1>1 DEF RoutedIsConfigured, supportedRuntimes
<1>2. CASE StartWorker
  <2>1. run.state = "none" /\ run' = run
    BY <1>2 DEF StartWorker, RunStands, TypeOK, Run
  <2>2. run'.error = ""
    <3>1. run' = NoRun
      BY <2>1 DEF RunStands
    <3> QED
      BY <3>1 DEF NoRun
  <2> QED
    BY <2>2 DEF RoutedIsConfigured
<1>3. ASSUME NEW rt \in Known \cup {Custom},
             NEW policy \in {"none", "all", "allowlist"},
             NEW chosen \in BOOLEAN, NEW unreadable \in BOOLEAN,
             handleRunRequest(rt, policy, chosen, unreadable)
      PROVE  RoutedIsConfigured'
  <2> SUFFICES ASSUME run'.error = "RUNTIME_NOT_CONFIGURED", ~run'.chosen,
                      Custom \notin supportedRuntimes(config)
               PROVE  \E e \in config.runtimes : e.key = [name |-> rt, form |-> "odd"]
    <3>1. run'.runtime = rt
      BY <1>3, RequestStep
    <3>2. config' = config
      BY <1>3 DEF handleRunRequest
    <3> QED
      BY <3>1, <3>2 DEF RoutedIsConfigured, supportedRuntimes
  <2>1. EntriesOf(config, rt) = {} /\ ~chosen
    BY <1>3, RequestStep
  <2>2. rt \in supportedRuntimes(config)
    BY <1>3, <2>1 DEF handleRunRequest, pickWorkerForRuntime
  <2>3. PICK e \in config.runtimes : e.key.name = rt
    BY <2>2 DEF supportedRuntimes
  <2>4. e.key \in Key
    BY DEF TypeOK, Config, Entry
  <2>5. e.key.form \in {"exact", "dashed", "odd"}
        /\ e.key = [name |-> rt, form |-> e.key.form]
    BY <2>3, <2>4 DEF Key
  <2>6. e.key.form \notin {"exact", "dashed"}
    BY <2>1, <2>5 DEF EntriesOf, Written
  <2> QED
    BY <2>5, <2>6
<1> QED
  BY <1>1, <1>2, <1>3, LaunchStep
  DEF StopWorker, ReachDirectly, AskProxy, launchVars

(***************************************************************************)
(* A run the gateway has routed by its runtime is refused as not           *)
(* configured only by a worker that attracts every runtime, or whose key   *)
(* is spelled in a way that only the announcement normalises.              *)
(***************************************************************************)
THEOREM RoutedFindsEntry == Spec => []RoutedIsConfigured
<1>1. Init => RoutedIsConfigured
  <2>1. NoRun.error = ""
    BY DEF NoRun
  <2> QED
    BY <2>1 DEF Init, RoutedIsConfigured
<1>2. TypeOK /\ RunStands /\ RoutedIsConfigured /\ [Next]_vars => RoutedIsConfigured'
  BY RoutedStep
<1> QED
  BY <1>1, <1>2, RunsInvariant, PTL DEF Spec

-----------------------------------------------------------------------------
(***************************************************************************)
(* The invariant behind RuntimesLostOnlyByKill: nothing that could lose    *)
(* the runtimes is about to be written, and the file is only left empty    *)
(* by a command that was killed.                                           *)
(***************************************************************************)
NothingLost ==
  ~killed =>
    /\ file.state = "empty" => saving # {}
    /\ file.state = "written" => file.content.runtimes # {}
    /\ \A c \in saving : c.runtimes # {}

LEMMA NothingLostStep ==
  ASSUME TypeOK, NothingLost, [Next]_vars
  PROVE  NothingLost'
<1>1. CASE UNCHANGED fileVars
  BY <1>1 DEF NothingLost, fileVars
<1>2. ASSUME NEW c, SaveConfig(c), ~killed => c.runtimes # {} PROVE NothingLost'
  BY <1>2 DEF SaveConfig, NothingLost
<1>3. DefaultConfig.runtimes # {} /\ BuildQuickstart.runtimes # {}
  <2>1. Custom \in Known \cup {Custom}
    OBVIOUS
  <2>2. DefaultConfig.runtimes # {}
    BY <2>1 DEF DefaultConfig
  <2>3. BuildQuickstart.runtimes = DefaultConfig.runtimes
    BY DEF BuildQuickstart, DefaultConfig
  <2> QED
    BY <2>2, <2>3
<1>4. ASSUME NEW path, configSet(path) PROVE NothingLost'
  <2>1. saving = {} /\ file.state \in {"empty", "written"}
    BY <1>4 DEF configSet, SaveConfig, Editing, TypeOK
  <2>2. ~killed => LoadConfig.runtimes # {}
    BY <2>1 DEF LoadConfig, NothingLost
  <2>3. [LoadConfig EXCEPT !.agentPath = path].runtimes = LoadConfig.runtimes
    BY LoadConfigType DEF Config
  <2> QED
    BY <1>2, <1>4, <2>2, <2>3 DEF configSet
<1>5. CASE FinishSaving
  BY <1>5 DEF FinishSaving, NothingLost
<1>6. CASE KillCommand
  BY <1>6 DEF KillCommand, NothingLost
<1>7. CASE Edit
  BY <1>7, LaunchAssumption DEF Edit, Editing, NothingLost
<1>8. CASE StartWorker \/ StopWorker \/ Proxy \/ UNCHANGED vars
  BY <1>1, <1>8 DEF StartWorker, StopWorker, Proxy, vars, launchVars, fileVars
<1>9. CASE \/ \E rt \in Known \cup {Custom},
                 policy \in {"none", "all", "allowlist"},
                 chosen, unreadable \in BOOLEAN :
                handleRunRequest(rt, policy, chosen, unreadable)
           \/ \E t \in Target : ReachDirectly(t) \/ AskProxy(t)
  BY <1>1, <1>9 DEF handleRunRequest, ReachDirectly, AskProxy, launchVars, fileVars
<1> QED
  BY <1>2, <1>3, <1>4, <1>5, <1>6, <1>7, <1>8, <1>9
  DEF Next, Commands, configInit, runQuickstart

(***************************************************************************)
(* No sequence of commands loses the runtimes of a configuration, unless   *)
(* one of them is killed, or fails, between cutting the file and writing   *)
(* it.                                                                     *)
(***************************************************************************)
THEOREM RuntimesKept == Spec => []RuntimesLostOnlyByKill
<1>1. Init => NothingLost
  BY DEF Init, NothingLost
<1>2. TypeOK /\ NothingLost /\ [Next]_vars => NothingLost'
  BY NothingLostStep
<1>3. NothingLost => RuntimesLostOnlyByKill
  BY DEF NothingLost, RuntimesLostOnlyByKill
<1> QED
  BY <1>1, <1>2, <1>3, TypeCorrect, PTL DEF Spec

-----------------------------------------------------------------------------
(***************************************************************************)
(* The invariant behind AnswerComplete.  While the container's side is     *)
(* open and nothing was refused, only the copier of the answer closes      *)
(* first, and it does so when the destination has ended and has been       *)
(* copied; the destination sends nothing after that.                       *)
(***************************************************************************)
AnswerCopied ==
  /\ tunnel \in {"none", "asked"} => copying = {} /\ closed = {}
  /\ "client" \in closed => "down" \notin copying
  /\ client.state = "open" /\ ~refused =>
       /\ "server" \in closed => "client" \in closed
       /\ "client" \in closed =>
            client.got = server.sent /\ server.state # "open"

\* Everything else leaves tunnels alone, or finds none and opens none.
LEMMA TunnelStep ==
  ASSUME [Next]_vars
  PROVE  \/ UNCHANGED <<tunnel, client, server, copying, closed, refused>>
         \/ /\ tunnel = "none" /\ tunnel' \in {"asked", "over"}
            /\ UNCHANGED <<client, server, copying, closed, refused>>
         \/ Tunnel
<1>1. CASE Commands
  BY <1>1 DEF Commands, configInit, configSet, runQuickstart, SaveConfig,
     FinishSaving, KillCommand, Edit, proxyVars, tunnelVars
<1>2. CASE StartWorker \/ StopWorker \/ UNCHANGED vars
  BY <1>2 DEF StartWorker, StopWorker, vars, proxyVars, tunnelVars
<1>3. ASSUME NEW t \in Target, ReachDirectly(t) \/ AskProxy(t)
      PROVE  \/ UNCHANGED <<tunnel, client, server, copying, closed, refused>>
             \/ /\ tunnel = "none" /\ tunnel' \in {"asked", "over"}
                /\ UNCHANGED <<client, server, copying, closed, refused>>
  BY <1>3 DEF ReachDirectly, AskProxy, handleConnect, handleHTTP, Decide,
     proxyVars, tunnelVars
<1>4. ASSUME NEW rt, NEW policy, NEW chosen, NEW unreadable,
             handleRunRequest(rt, policy, chosen, unreadable)
      PROVE  UNCHANGED <<tunnel, client, server, copying, closed, refused>>
  BY <1>4 DEF handleRunRequest, tunnelVars
<1>5. CASE Proxy
  BY <1>5 DEF Proxy, LoadRules, tunnelVars
<1> QED
  BY <1>1, <1>2, <1>3, <1>4, <1>5 DEF Next

LEMMA AnswerCopiedStep ==
  ASSUME TypeOK, AnswerCopied, [Next]_vars
  PROVE  AnswerCopied'
<1> USE DEF TypeOK, ProxyTypeOK, AnswerCopied, End
<1>1. CASE UNCHANGED <<tunnel, client, server, copying, closed, refused>>
  BY <1>1
<1>2. CASE /\ tunnel = "none" /\ tunnel' \in {"asked", "over"}
           /\ UNCHANGED <<client, server, copying, closed, refused>>
  BY <1>2
<1>3. CASE Dial
  BY <1>3 DEF Dial
<1>4. CASE ClientSends
  BY <1>4 DEF ClientSends
<1>5. CASE ServerSends
  BY <1>5 DEF ServerSends
<1>6. CASE ClientEnds
  BY <1>6 DEF ClientEnds
<1>7. CASE ServerEnds
  BY <1>7 DEF ServerEnds
<1>8. CASE CopyUp
  BY <1>8 DEF CopyUp, Stop
<1>9. CASE UpEnds
  BY <1>9 DEF UpEnds, Stop
<1>10. CASE CopyDown
  BY <1>10 DEF CopyDown
<1>11. CASE DownEnds
  BY <1>11 DEF DownEnds, Stop
<1> QED
  BY <1>1, <1>2, <1>3, <1>4, <1>5, <1>6, <1>7, <1>8, <1>9, <1>10, <1>11,
     TunnelStep DEF Tunnel

(***************************************************************************)
(* A container that has not ended its side is given the whole answer       *)
(* before its connection is closed, in whatever order the two copying      *)
(* goroutines and the two ends move, unless the destination refused data.  *)
(***************************************************************************)
THEOREM AnswersComplete == Spec => []AnswerComplete
<1>1. Init => AnswerCopied
  BY DEF Init, ProxyInit, AnswerCopied
<1>2. TypeOK /\ AnswerCopied /\ [Next]_vars => AnswerCopied'
  BY AnswerCopiedStep
<1>3. AnswerCopied => AnswerComplete
  BY DEF AnswerCopied, AnswerComplete
<1> QED
  BY <1>1, <1>2, <1>3, TypeCorrect, PTL DEF Spec
=============================================================================
