CONSTANTS
  Streams = {s1}
  Clients = {c1, c2}
  MaxLog = 2
  ChanCap = 1
  Retention = 2
  MaxEvents = 3
  None = None
SPECIFICATION FairSpec
INVARIANTS
  TypeOK
  GapFree
  NoSendOnClosedChannel
  DoneReplaysCompletion
PROPERTIES
  ImplementsEventFeed
  EventuallyForgotten
  CompletionReachesReader
CHECK_DEADLOCK FALSE
