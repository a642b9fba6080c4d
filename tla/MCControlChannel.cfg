CONSTANTS
  Workers = {w1}
  Sessions = {s1, s2}
  Streams = {r1}
  MaxCancels = 2
  MaxQueue = 2
  PollMax = 1
  None = None
SPECIFICATION FairSpec
INVARIANTS
  TypeOK
  RegistryNamesLiveHandler
  AtMostOneCopy
PROPERTIES
  ImplementsMailbox
  EventuallySettled
CHECK_DEADLOCK FALSE
