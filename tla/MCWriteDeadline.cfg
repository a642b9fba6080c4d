CONSTANTS
  PongWait = 60
  WriteWait = 10
  HeartbeatPeriod = 5
  Horizon = 130
SPECIFICATION Spec
INVARIANT
  WritesAccepted
CHECK_DEADLOCK FALSE
