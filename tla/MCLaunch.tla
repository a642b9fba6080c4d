------------------------------ MODULE MCLaunch -------------------------------
(***************************************************************************)
(* Launch on two host names, one under the other, two addresses and one    *)
(* block that holds one of them.                                           *)
(***************************************************************************)
EXTENDS Launch

CONSTANTS site, api, inside, outside, block

MCHosts == {site, api}
MCAddresses == {inside, outside}
MCUnder == [h \in MCHosts |-> IF h = api THEN {api, site} ELSE {site}]
MCBlock == [b \in {block} |-> {inside}]

\* A rule for each case of the validation, of the loading and of the matching.
Base == [protocol |-> "", ports |-> {}, host |-> Absent, wildcard |-> FALSE,
         cidr |-> Absent]
MCRules ==
  {Base,
   [Base EXCEPT !.host = site],
   [Base EXCEPT !.host = site, !.wildcard = TRUE],
   [Base EXCEPT !.host = api, !.ports = {8443}, !.protocol = "tcp"],
   [Base EXCEPT !.host = api, !.protocol = "udp"],
   [Base EXCEPT !.host = site, !.ports = {0, 443}],
   [Base EXCEPT !.host = site, !.cidr = block],
   [Base EXCEPT !.cidr = block],
   [Base EXCEPT !.cidr = block, !.ports = {8443}],
   [Base EXCEPT !.cidr = "ipv6"],
   [Base EXCEPT !.cidr = "malformed"]}

MCEntry(name, form, image, runner) ==
  [key |-> [name |-> name, form |-> form], image |-> image,
   command |-> TRUE, dest |-> name = "nano_agent", runner |-> runner]

\* Keys in every form; an entry without image, and one for local processes.
MCRuntimes ==
  {{MCEntry("nano_agent", "exact", TRUE, "docker")},
   {MCEntry("nano_agent", "dashed", TRUE, "docker"),
    MCEntry("opencode", "exact", FALSE, "docker")},
   {MCEntry("nano_agent", "odd", TRUE, "docker"),
    MCEntry("claude_code", "exact", TRUE, "exec"),
    [MCEntry("opencode", "exact", TRUE, "exec") EXCEPT !.command = FALSE]},
   {MCEntry("other", "exact", TRUE, "docker")}}

MCHandWritten ==
  {[runtimes |-> es, agentPath |-> "", allowlist |-> << >>] : es \in MCRuntimes}
  \cup {[runtimes |-> {MCEntry("nano_agent", "exact", TRUE, "docker")},
         agentPath |-> "inside", allowlist |-> <<r>>] : r \in MCRules}
=============================================================================
