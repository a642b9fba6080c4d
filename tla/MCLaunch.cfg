CONSTANTS
  site = site
  api = api
  inside = inside
  outside = outside
  block = block
  Hosts <- MCHosts
  Addresses <- MCAddresses
  Blocks = {block}
  Under <- MCUnder
  Block <- MCBlock
  Ports = {0, 443, 8443}
  MaxBytes = 2
  HandWritten <- MCHandWritten
  Sibling = TRUE
SPECIFICATION FairSpec
INVARIANTS
  TypeOK
  AcceptedRulesLoad
  
  RoutedIsConfigured
  RuntimesLostOnlyByKill
  AnswerComplete
PROPERTY TunnelReleased
CHECK_DEADLOCK FALSE
