----------------------------- MODULE PolicyProxy -----------------------------
(***************************************************************************)
(* The policy proxy that stands between a container under an ALLOWLIST     *)
(* policy and the network (cmd/net-policy-proxy/main.go): loading the      *)
(* rules the worker wrote for it, deciding about a destination, and the    *)
(* tunnel of a CONNECT request with its two copying goroutines.            *)
(*                                                                         *)
(* A destination is a host name or an address, and a port.  Host names,    *)
(* addresses and blocks of addresses are plain values; Under and Block say *)
(* which name lies under which and which address in which block.  A name   *)
(* is resolved twice, once for the decision and once by the dial, and the  *)
(* two answers need not agree.  IPv6 addresses behave as addresses that no *)
(* block holds.                                                            *)
(***************************************************************************)
EXTENDS Naturals, Sequences, Functions

CONSTANTS
  Hosts,      \* host names
  Addresses,  \* IPv4 addresses
  Blocks,     \* IPv4 prefixes
  Under,      \* [Hosts -> the names a host equals or ends in after a dot]
  Block,      \* [Blocks -> the addresses in it]
  Ports,      \* port numbers as they are written in rules and requests
  MaxBytes    \* bound on what either end of a tunnel sends

ASSUME AddressesAssumption ==
  /\ Hosts \cap Addresses = {}
  /\ Under \in [Hosts -> SUBSET Hosts]
  /\ Block \in [Blocks -> SUBSET Addresses]
  /\ Ports \subseteq Nat
  /\ MaxBytes \in Nat

\* What the environment of the rules calls nothing, unparsable and IPv6.
Absent == "absent"
Rule == [protocol : {"", "tcp", "udp"}, ports : SUBSET Ports,
         host : Hosts \cup {Absent}, wildcard : BOOLEAN,
         cidr : Blocks \cup {Absent, "malformed", "ipv6"}]
Target == [host : Hosts \cup Addresses, port : Ports]

VARIABLES
  rulesFile,  \* the rules in .nano-allowlist.json, as a sequence
  proxy,      \* "absent", "loading", "serving", "exited"
  allow,      \* the loaded rules: host rules and address rules
  target,     \* the destination of the request being served
  vouched,    \* the addresses the decision's lookup of its name gave
  passed,     \* the request was let through
  dialled,    \* the address it was connected to, if any
  tunnel,     \* "none", "asked", "open", "over"
  client,     \* the container's end: bytes sent and got, and its state
  server,     \* the destination's end, likewise
  copying,    \* which of the two copying goroutines run
  closed,     \* the connections the proxy has closed
  refused     \* a write to the destination has failed (history)

rulesVars == <<rulesFile, proxy, allow>>
requestVars == <<target, vouched, passed, dialled>>
tunnelVars == <<tunnel, client, server, copying, closed, refused>>
proxyVars == <<rulesVars, requestVars, tunnelVars>>

NoRules == [hosts |-> {}, cidrs |-> {}]
NoTarget == [host |-> Absent, port |-> 0]

\* An end sends until it is finished, and reads until it is gone.
End == [sent : 0..MaxBytes, got : 0..MaxBytes,
        state : {"open", "finished", "gone"}]
Quiet == [sent |-> 0, got |-> 0, state |-> "open"]

ProxyTypeOK ==
  /\ rulesFile \in Seq(Rule)
  /\ proxy \in {"absent", "loading", "serving", "exited"}
  /\ allow \in [hosts : SUBSET Rule, cidrs : SUBSET Rule]
  /\ target \in Target \cup {NoTarget}
  /\ vouched \in SUBSET Addresses
  /\ passed \in BOOLEAN
  /\ dialled \in Addresses \cup {Absent}
  /\ tunnel \in {"none", "asked", "open", "over"}
  /\ client \in End
  /\ server \in End
  /\ copying \in SUBSET {"up", "down"}
  /\ closed \in SUBSET {"client", "server"}
  /\ refused \in BOOLEAN

-----------------------------------------------------------------------------
(* Rules. *)

\* The ports a rule stands for: 443 when it names none.
PortsOf(r) == IF r.ports = {} THEN {443} ELSE r.ports

GoodPort(p) == p > 0 /\ p <= 65535

\* What the proxy refuses to load: it exits with status 2.
LoadFails(rules) ==
  \E i \in DOMAIN rules :
    LET r == rules[i] IN
      \/ r.protocol \notin {"", "tcp"}
      \/ \E p \in PortsOf(r) : ~GoodPort(p)
      \/ (r.host = Absent) <=> (r.cidr = Absent)
      \/ r.host = Absent /\ r.cidr = "malformed"

\* IPv6 prefixes are left out without an error.
loadAllowlist(rules) ==
  [hosts |-> {r \in Range(rules) : r.host # Absent},
   cidrs |-> {r \in Range(rules) : r.host = Absent /\ r.cidr \in Blocks}]

allowedIP(al, a, p) ==
  \E r \in al.cidrs : p \in PortsOf(r) /\ a \in Block[r.cidr]

\* Mutant: the ports of a rule are compared for addresses only.
allowedAnyPort(al, t, answer) ==
  /\ GoodPort(t.port)
  /\ \/ t.host \in Addresses /\ allowedIP(al, t.host, t.port)
     \/ /\ t.host \in Hosts
        /\ \/ \E r \in al.hosts : r.host = t.host
           \/ \E a \in answer : allowedIP(al, a, t.port)

\* An address is looked for in the address rules only.  A name is looked for
\* in the host rules, and after that its addresses are resolved.
allowed(al, t, answer) ==
  /\ GoodPort(t.port)
  /\ \/ t.host \in Addresses /\ allowedIP(al, t.host, t.port)
     \/ /\ t.host \in Hosts
        /\ \/ \E r \in al.hosts :
                /\ t.port \in PortsOf(r)
                /\ IF r.wildcard THEN r.host \in Under[t.host]
                                 ELSE r.host = t.host
           \/ \E a \in answer : allowedIP(al, a, t.port)

-----------------------------------------------------------------------------
ProxyInit ==
  /\ rulesFile = << >>
  /\ proxy = "absent"
  /\ allow = NoRules
  /\ target = NoTarget
  /\ vouched = {}
  /\ passed = FALSE
  /\ dialled = Absent
  /\ tunnel = "none"
  /\ client = Quiet
  /\ server = Quiet
  /\ copying = {}
  /\ closed = {}
  /\ refused = FALSE

\* main: the rules are loaded once, at the start.
LoadRules ==
  /\ proxy = "loading"
  /\ IF LoadFails(rulesFile)
       THEN proxy' = "exited" /\ UNCHANGED allow
       ELSE proxy' = "serving" /\ allow' = loadAllowlist(rulesFile)
  /\ UNCHANGED <<rulesFile, requestVars, tunnelVars>>

\* What the resolver may answer.  An address is not resolved.
Answers(t) == IF t.host \in Hosts THEN SUBSET Addresses ELSE {{}}

\* The decision, with whatever the resolver answers this time.
Decide(t) ==
  /\ proxy = "serving"
  /\ tunnel = "none"
  /\ target' = t
  /\ \E answer \in Answers(t) :
       /\ vouched' = answer
       /\ passed' = allowed(allow, t, answer)

\* A connection to the target: the dialler is given its name, resolves it
\* again, and connects to an address of that answer.
ConnectTo(t) ==
  \E answer \in Answers(t) :
    dialled' \in IF t.host \in Hosts THEN answer ELSE {t.host}

\* A CONNECT request is decided about; the destination is dialled next.
handleConnect(t) ==
  /\ Decide(t)
  /\ tunnel' = IF passed' THEN "asked" ELSE "over"
  /\ UNCHANGED <<rulesVars, dialled, client, server, copying, closed, refused>>

\* A plain request is decided about, and answered or failed in one go.
handleHTTP(t) ==
  /\ Decide(t)
  /\ tunnel' = "over"
  /\ \/ passed' /\ ConnectTo(t)
     \/ UNCHANGED dialled
  /\ UNCHANGED <<rulesVars, client, server, copying, closed, refused>>

\* Either no connection is made, or both goroutines copy from now on.
Dial ==
  /\ tunnel = "asked"
  /\ \/ ConnectTo(target) /\ tunnel' = "open" /\ copying' = {"up", "down"}
     \/ tunnel' = "over" /\ UNCHANGED <<dialled, copying>>
  /\ UNCHANGED <<rulesVars, target, vouched, passed, client, server, closed,
                 refused>>

-----------------------------------------------------------------------------
(* The two ends of an open tunnel. *)

ClientSends ==
  /\ tunnel = "open" /\ client.state = "open" /\ client.sent < MaxBytes
  /\ "client" \notin closed
  /\ client' = [client EXCEPT !.sent = @ + 1]
  /\ UNCHANGED <<rulesVars, requestVars, tunnel, server, copying, closed,
                 refused>>

ServerSends ==
  /\ tunnel = "open" /\ server.state = "open" /\ server.sent < MaxBytes
  /\ "server" \notin closed
  /\ server' = [server EXCEPT !.sent = @ + 1]
  /\ UNCHANGED <<rulesVars, requestVars, tunnel, client, copying, closed,
                 refused>>

ClientEnds ==
  /\ tunnel = "open"
  /\ \/ client.state = "open" /\ client' = [client EXCEPT !.state = "finished"]
     \/ client.state # "gone" /\ client' = [client EXCEPT !.state = "gone"]
  /\ UNCHANGED <<rulesVars, requestVars, tunnel, server, copying, closed,
                 refused>>

ServerEnds ==
  /\ tunnel = "open"
  /\ \/ server.state = "open" /\ server' = [server EXCEPT !.state = "finished"]
     \/ server.state # "gone" /\ server' = [server EXCEPT !.state = "gone"]
  /\ UNCHANGED <<rulesVars, requestVars, tunnel, client, copying, closed,
                 refused>>

-----------------------------------------------------------------------------
(* The copying goroutines. *)

\* A copier that stops closes the connection it wrote to.
Stop(copier, conn) ==
  /\ copying' = copying \ {copier}
  /\ closed' = closed \cup {conn}
  /\ tunnel' = IF copying' = {} THEN "over" ELSE "open"

\* io.Copy(dst, clientConn): a destination that is gone refuses the write.
CopyUp ==
  /\ "up" \in copying
  /\ client.sent > server.got
  /\ "client" \notin closed
  /\ IF server.state = "gone"
       THEN Stop("up", "server") /\ refused' = TRUE /\ UNCHANGED server
       ELSE /\ server' = [server EXCEPT !.got = @ + 1]
            /\ UNCHANGED <<tunnel, copying, closed, refused>>
  /\ UNCHANGED <<rulesVars, requestVars, client>>

\* Mutant: the goroutine that has copied a request leaves the destination open.
UpEndsOpen ==
  /\ "up" \in copying
  /\ client.state # "open" \/ "client" \in closed
  /\ copying' = copying \ {"up"}
  /\ tunnel' = IF copying' = {} THEN "over" ELSE "open"
  /\ UNCHANGED <<rulesVars, requestVars, client, server, closed, refused>>

\* The client's side has nothing more, or its connection cannot be read.
UpEnds ==
  /\ "up" \in copying
  /\ \/ client.state # "open" /\ client.sent = server.got
     \/ client.state = "gone"
     \/ "client" \in closed
  /\ Stop("up", "server")
  /\ UNCHANGED <<rulesVars, requestVars, client, server, refused>>

\* Mutant: a read that returns nothing is written like any other.
CopyDownNothing ==
  /\ "down" \in copying
  /\ "server" \notin closed
  /\ client' = [client EXCEPT !.got = @ + 1]
  /\ UNCHANGED <<rulesVars, requestVars, tunnel, server, copying, closed,
                 refused>>

\* io.Copy(clientConn, dst).
CopyDown ==
  /\ "down" \in copying
  /\ server.sent > client.got
  /\ "server" \notin closed
  /\ client.state # "gone"
  /\ client' = [client EXCEPT !.got = @ + 1]
  /\ UNCHANGED <<rulesVars, requestVars, tunnel, server, copying, closed,
                 refused>>

\* Mutant: the end of the answer is acted on before what precedes it is copied.
DownEndsAtOnce ==
  /\ "down" \in copying
  /\ server.state # "open" \/ "server" \in closed \/ client.state = "gone"
  /\ Stop("down", "client")
  /\ UNCHANGED <<rulesVars, requestVars, client, server, refused>>

\* The answer has ended and been copied, or it cannot be read or passed on.
DownEnds ==
  /\ "down" \in copying
  /\ \/ server.state # "open" /\ server.sent = client.got
     \/ "server" \in closed
     \/ client.state = "gone" /\ server.sent > client.got
  /\ Stop("down", "client")
  /\ UNCHANGED <<rulesVars, requestVars, client, server, refused>>

Tunnel ==
  \/ Dial
  \/ ClientSends \/ ServerSends \/ ClientEnds \/ ServerEnds
  \/ CopyUp \/ UpEnds \/ CopyDown \/ DownEnds

\* The goroutines run and both ends read what they are sent.
TunnelFairness ==
  /\ WF_proxyVars(Dial)
  /\ WF_proxyVars(CopyUp) /\ WF_proxyVars(UpEnds)
  /\ WF_proxyVars(CopyDown) /\ WF_proxyVars(DownEnds)
=============================================================================
