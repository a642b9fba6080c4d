------------------------------- MODULE Launch --------------------------------
(***************************************************************************)
(* From the configuration file of a worker to an agent on its network:     *)
(* the commands that write worker-config.yaml, the worker that starts from *)
(* it and says which runtimes it supports, the gateway's choice, and the   *)
(* part of handleRunRequest that decides what is started: the entry of the *)
(* runtime, the mount of the agent's configuration, the network.  What     *)
(* docker does after that is in WorkerRun; the proxy is in PolicyProxy.    *)
(*                                                                         *)
(* A configuration keeps the fields these decisions read.  The key of a    *)
(* runtime is the runtime it is normalised to ("other" when it is none of  *)
(* the gateway's) and the form it is written in.                           *)
(***************************************************************************)
EXTENDS PolicyProxy

CONSTANTS
  HandWritten,  \* the configurations the operator writes with an editor
  Sibling       \* the worker is a container: HostStateRoot and StateDir set

Known == {"nano_agent", "claude_code", "opencode"}
Custom == "custom"

Key == [name : Known \cup {Custom, "other"}, form : {"exact", "dashed", "odd"}]
Entry == [key : Key, image : BOOLEAN, command : BOOLEAN, dest : BOOLEAN,
          runner : {"docker", "exec"}]
Config == [runtimes : SUBSET Entry,
           agentPath : {"", "relative", "inside", "outside"},
           allowlist : Seq(Rule)]

ASSUME LaunchAssumption ==
  /\ HandWritten \subseteq {c \in Config : c.runtimes # {}}
  /\ Sibling \in BOOLEAN

VARIABLES
  file,     \* worker-config.yaml: "missing", "empty" or "written", and what
  saving,   \* the configuration a command has begun to write, if any
  killed,   \* a command was killed, or failed, while it wrote (history)
  process,  \* the worker: "off" or "up"
  config,   \* the configuration it has loaded
  run,      \* the run it has been asked for
  reached   \* destinations the agent has reached without a proxy

launchVars == <<file, saving, killed, process, config, run, reached>>
fileVars == <<file, saving, killed>>
vars == <<launchVars, proxyVars>>

-----------------------------------------------------------------------------
(* Configurations. *)

ZeroConfig == [runtimes |-> {}, agentPath |-> "", allowlist |-> << >>]

DefaultConfig ==
  [runtimes |-> {[key |-> [name |-> n, form |-> "exact"], image |-> TRUE,
                  command |-> FALSE, dest |-> n = "nano_agent",
                  runner |-> "docker"] :
                   n \in Known \cup {Custom}},
   agentPath |-> "", allowlist |-> << >>]

\* The path the quickstart writes is relative: "agent-config.yaml".
BuildQuickstart == [DefaultConfig EXCEPT !.agentPath = "relative"]

\* A file cut to nothing is valid YAML: it loads without an error.
LoadConfig == IF file.state = "written" THEN file.content ELSE ZeroConfig

\* What the worker says it supports.  Keys are compared in lower case, with
\* dashes as underscores; any key that is not known makes it support CUSTOM.
supportedRuntimes(c) ==
  LET names == {e.key.name : e \in c.runtimes}
  IN (names \cap Known)
       \cup (IF names # {} /\ names \subseteq Known THEN {} ELSE {Custom})

\* The gateway takes a worker for the runtime, or one that supports CUSTOM.
pickWorkerForRuntime(c, rt) == {rt, Custom} \cap supportedRuntimes(c) # {}

\* Mutant: only the key as it is.
EntriesUnder(c, rt) == {e \in c.runtimes : e.key = [name |-> rt, form |-> "exact"]}

\* The entry of a runtime: its key as it is, or with dashes for underscores.
Written(c, rt, form) == {e \in c.runtimes : e.key = [name |-> rt, form |-> form]}
EntriesOf(c, rt) ==
  IF Written(c, rt, "exact") # {} THEN Written(c, rt, "exact")
                                  ELSE Written(c, rt, "dashed")

-----------------------------------------------------------------------------
(* What a run is started with. *)

\* A path inside the state directory becomes the host's; a relative path
\* cannot be resolved against it and is kept, like one that lies outside.
resolveHostBindPath(path) ==
  IF Sibling /\ path = "inside" THEN "host" ELSE path

AgentConfigMount(c, e) ==
  IF e.dest THEN resolveHostBindPath(c.agentPath) ELSE ""

\* Mutant: a rule may have a host and a block.
ValidateAnyRule(rules) ==
  \A i \in DOMAIN rules :
    LET r == rules[i] IN
      /\ r.protocol \in {"", "tcp"}
      /\ \A p \in PortsOf(r) : GoodPort(p)
      /\ {r.host, r.cidr} # {Absent}
      /\ r.cidr # "malformed"

\* The rules are checked before anything is made for the proxy.
ValidateNetworkAllowlist(rules) ==
  \A i \in DOMAIN rules :
    LET r == rules[i] IN
      /\ r.protocol \in {"", "tcp"}
      /\ \A p \in PortsOf(r) : GoodPort(p)
      /\ {r.host, r.cidr} # {Absent}
      /\ Absent \in {r.host, r.cidr}
      /\ r.cidr # "malformed"

NetworkError(c, policy) ==
  CASE policy # "allowlist" -> ""
    [] c.allowlist = << >> -> "NETWORK_ALLOWLIST_EMPTY"
    [] ~ValidateNetworkAllowlist(c.allowlist) -> "NETWORK_ALLOWLIST_INVALID"
    [] OTHER -> ""

\* No flag for ALL: the docker default.
DockerExtraArgsFromPolicy(policy) ==
  IF policy = "none" THEN "none" ELSE "default"

\* A local process has the network of the worker, whatever the policy; under
\* ALLOWLIST the flag of the network made for the run is added.
NetworkOf(runner, policy) ==
  CASE runner = "exec" -> "default"
    [] runner = "docker" /\ policy = "allowlist" -> "internal"
    [] OTHER -> DockerExtraArgsFromPolicy(policy)

\* BuildSpec: an image is required of every runner; an environment file that
\* is there and cannot be read fails a run of nano_agent.
BuildSpecFails(e, rt, unreadable) ==
  ~e.image \/ (rt = "nano_agent" /\ unreadable)

Run == [state : {"none", "refused", "started"}, runtime : Known \cup {Custom},
        policy : {"none", "all", "allowlist"}, chosen : BOOLEAN,
        error : {"", "RUNTIME_NOT_CONFIGURED", "RUNTIME_SPEC_BUILD_FAILED",
                 "EXEC_COMMAND_EMPTY", "NETWORK_ALLOWLIST_EMPTY",
                 "NETWORK_ALLOWLIST_INVALID"},
        runner : {"docker", "exec"},
        mount : {"", "relative", "inside", "outside", "host"},
        network : {"none", "internal", "default"}]

NoRun == [state |-> "none", runtime |-> Custom, policy |-> "none",
          chosen |-> FALSE, error |-> "", runner |-> "docker", mount |-> "",
          network |-> "none"]

Refused(code) == [NoRun EXCEPT !.state = "refused", !.error = code]

Started(c, e, policy) ==
  [NoRun EXCEPT !.state = "started", !.runner = e.runner,
                !.mount = AgentConfigMount(c, e),
                !.network = NetworkOf(e.runner, policy)]

\* What becomes of a request, entry by entry.
Outcome(c, e, rt, policy, unreadable) ==
  IF BuildSpecFails(e, rt, unreadable)
    THEN Refused("RUNTIME_SPEC_BUILD_FAILED")
    ELSE IF e.runner = "exec" /\ ~e.command
      THEN Refused("EXEC_COMMAND_EMPTY")
      ELSE IF e.runner = "docker" /\ NetworkError(c, policy) # ""
        THEN Refused(NetworkError(c, policy))
        ELSE Started(c, e, policy)

-----------------------------------------------------------------------------
TypeOK ==
  /\ file \in [state : {"missing", "empty", "written"}, content : Config]
  /\ saving \in SUBSET Config
  /\ killed \in BOOLEAN
  /\ process \in {"off", "up"}
  /\ config \in Config
  /\ run \in Run
  /\ reached \in SUBSET Target
  /\ ProxyTypeOK

Init ==
  /\ file = [state |-> "missing", content |-> ZeroConfig]
  /\ saving = {}
  /\ killed = FALSE
  /\ process = "off"
  /\ config = ZeroConfig
  /\ run = NoRun
  /\ reached = {}
  /\ ProxyInit

(* The commands over worker-config.yaml, one at a time.  The worker reads   *)
(* the file when it starts: commands begin while it is off, and may still   *)
(* be writing when it starts.                                               *)
Editing == process = "off" /\ saving = {}

\* SaveConfig writes with os.WriteFile, which first cuts the file to nothing.
SaveConfig(c) ==
  /\ Editing
  /\ saving' = {c}
  /\ file' = [state |-> "empty", content |-> ZeroConfig]
  /\ UNCHANGED <<killed, process, config, run, reached, proxyVars>>

configInit == file.state = "missing" /\ SaveConfig(DefaultConfig)

\* Mutant: a file that cannot be loaded is taken for an empty one.
configSetNew(path) == SaveConfig([LoadConfig EXCEPT !.agentPath = path])

\* The file is loaded, one field is set, and all of it is written back.
configSet(path) ==
  /\ file.state # "missing"
  /\ SaveConfig([LoadConfig EXCEPT !.agentPath = path])

\* An existing file is overwritten if the operator says so.
runQuickstart == SaveConfig(BuildQuickstart)

FinishSaving ==
  /\ saving # {}
  /\ \E c \in saving : file' = [state |-> "written", content |-> c]
  /\ saving' = {}
  /\ UNCHANGED <<killed, process, config, run, reached, proxyVars>>

\* It is killed in between, or its write fails and it ends with an error.
KillCommand ==
  /\ saving # {}
  /\ saving' = {}
  /\ killed' = TRUE
  /\ UNCHANGED <<file, process, config, run, reached, proxyVars>>

Edit ==
  /\ Editing
  /\ \E c \in HandWritten : file' = [state |-> "written", content |-> c]
  /\ UNCHANGED <<saving, killed, process, config, run, reached, proxyVars>>

(* The worker. *)

\* Started with -config: without the file the program ends with an error.
StartWorker ==
  /\ process = "off"
  /\ file.state # "missing"
  /\ process' = "up"
  /\ config' = LoadConfig
  /\ UNCHANGED <<fileVars, run, reached, proxyVars>>

StopWorker ==
  /\ process = "up"
  /\ run.state = "none"
  /\ process' = "off"
  /\ UNCHANGED <<fileVars, config, run, reached, proxyVars>>

\* A client names the worker, or the gateway picks it for the runtime.  The
\* rules are written for the proxy, and the proxy is started, before the
\* agent is.  (The file is not read here: the run comes when it is at rest.)
handleRunRequest(rt, policy, chosen, unreadable) ==
  /\ process = "up"
  /\ saving = {}
  /\ run.state = "none"
  /\ chosen \/ pickWorkerForRuntime(config, rt)
  /\ \/ /\ EntriesOf(config, rt) = {}
        /\ run' = [Refused("RUNTIME_NOT_CONFIGURED") EXCEPT
                     !.runtime = rt, !.policy = policy, !.chosen = chosen]
     \/ \E e \in EntriesOf(config, rt) :
          run' = [Outcome(config, e, rt, policy, unreadable) EXCEPT
                    !.runtime = rt, !.policy = policy, !.chosen = chosen]
  /\ IF run'.state = "started" /\ run'.network = "internal"
       THEN rulesFile' = config.allowlist /\ proxy' = "loading"
       ELSE UNCHANGED <<rulesFile, proxy>>
  /\ UNCHANGED <<fileVars, process, config, reached, allow, requestVars,
                 tunnelVars>>

(* The agent. *)

ReachDirectly(t) ==
  /\ run.state = "started" /\ run.network = "default"
  /\ reached = {}
  /\ reached' = {t}
  /\ UNCHANGED <<fileVars, process, config, run, proxyVars>>

AskProxy(t) ==
  /\ run.state = "started" /\ run.network = "internal"
  /\ handleConnect(t) \/ handleHTTP(t)
  /\ UNCHANGED launchVars

Commands ==
  \/ configInit
  \/ \E path \in {"", "relative", "inside", "outside"} : configSet(path)
  \/ runQuickstart
  \/ FinishSaving \/ KillCommand \/ Edit

Proxy == (LoadRules \/ Tunnel) /\ UNCHANGED launchVars

Next ==
  \/ Commands
  \/ StartWorker \/ StopWorker
  \/ \E rt \in Known \cup {Custom}, policy \in {"none", "all", "allowlist"},
         chosen, unreadable \in BOOLEAN :
       handleRunRequest(rt, policy, chosen, unreadable)
  \/ \E t \in Target : ReachDirectly(t) \/ AskProxy(t)
  \/ Proxy

Spec == Init /\ [][Next]_vars

FairSpec == Spec /\ TunnelFairness

-----------------------------------------------------------------------------
(* The worker accepts a list of rules in one program and the proxy reads it *)
(* in another: whatever ValidateNetworkAllowlist lets pass, loadAllowlist   *)
(* loads, so the proxy never exits under a run that has begun.              *)
AcceptedRulesLoad == proxy # "exited"

(* A rule accounts for a connection: it lists the name that was asked for,  *)
(* or an address that name was resolved to when the proxy decided, or, when *)
(* an address was asked for, the very address that was connected to.        *)
Lists(r, t, answer, address) ==
  /\ t.port \in PortsOf(r)
  /\ \/ t.host = r.host
     \/ r.wildcard /\ t.host \in Hosts /\ r.host \in Under[t.host]
     \/ /\ r.cidr \in Blocks
        /\ (IF t.host \in Hosts THEN answer ELSE {address}) \cap Block[r.cidr] # {}

(* docs/SECURITY-HARDENING.md's matrix of policies, from end to end: under  *)
(* NONE a container is connected to nothing, and under ALLOWLIST only where *)
(* a rule of the configuration accounts for it, whatever the file of rules, *)
(* the proxy and the flags of docker make of it.  What is decided about is  *)
(* a name: the dial resolves it again, and the address it then connects to  *)
(* need not be one of those the decision saw, nor lie in a listed block.    *)
OnlyListed ==
  run.state = "started" /\ run.runner = "docker" =>
    /\ run.policy = "none" => reached = {} /\ dialled = Absent
    /\ run.policy = "allowlist" =>
         /\ reached = {}
         /\ dialled # Absent =>
              \E i \in DOMAIN config.allowlist :
                Lists(config.allowlist[i], target, vouched, dialled)

(* The worker announces runtimes under normalised keys and looks them up    *)
(* under two spellings.  A run the gateway has routed here is refused as    *)
(* not configured only if the worker supports CUSTOM, which attracts every  *)
(* runtime, or spells the key in a way only the announcement understands.   *)
RoutedIsConfigured ==
  run.error = "RUNTIME_NOT_CONFIGURED" /\ ~run.chosen =>
    \/ Custom \in supportedRuntimes(config)
    \/ \E e \in config.runtimes : e.key = [name |-> run.runtime, form |-> "odd"]

(* The file is cut to nothing before it is written, and nothing is a valid  *)
(* configuration: the runtimes are lost for good when a command is killed   *)
(* in between, or fails to write, and the next one loads what is left, and  *)
(* in no other way.                                                         *)
RuntimesLostOnlyByKill ==
  file.state = "written" /\ file.content.runtimes = {} => killed

(* Each copying goroutine closes the connection the other one reads from.   *)
(* A container that has not ended its side still gets the whole answer      *)
(* before its connection is closed, unless the destination refused data.    *)
AnswerComplete ==
  "client" \in closed /\ client.state = "open" /\ ~refused =>
    client.got = server.sent

(* A tunnel one of whose ends has ended is given up on both sides.          *)
TunnelReleased ==
  (tunnel = "open" /\ (client.state # "open" \/ server.state # "open"))
    ~> closed = {"client", "server"}

(* pkg/worker/runtime/interface.go says of ContextInfo.AgentConfigPath that *)
(* it is an absolute path on the host.                                      *)
AgentConfigAbsolute == run.mount # "relative"
=============================================================================
