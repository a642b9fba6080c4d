CONSTANTS
  PongWait = 60
  WriteWait = 10
  HeartbeatPeriod = 5
  Horizon = 130
SPECIFICATION Spec
INVARIANTS
  TypeOK
  BreaksOnlyAfterRefusal
  ServesAtFirst
CHECK_DEADLOCK FALSE
