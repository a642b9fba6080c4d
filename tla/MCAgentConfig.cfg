CONSTANTS
  site = site
  api = api
  inside = inside
  outside = outside
  block = block
  Hosts <- MCHosts
  Addresses <- MCAddresses
  Blocks = {block}
  Under <- MCUnder
  Block <- MCBlock
  Ports = {0, 443, 8443}
  MaxBytes = 2
  HandWritten <- MCHandWritten
  Sibling = TRUE
SPECIFICATION FairSpec
INVARIANT AgentConfigAbsolute
CHECK_DEADLOCK FALSE
