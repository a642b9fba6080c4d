CONSTANTS
  Runs = {r1}
  MaxConnections = 2
SPECIFICATION FairSpec
INVARIANTS
  TypeOK
  CompletedOnce
  CleanEnd
  CancelTearsDown
  NoSilentEnd
PROPERTIES
  EveryRunReports
CHECK_DEADLOCK FALSE
