CONSTANTS
  Workers = {w1}
  Sessions = {s1, s2}
  Streams = {r1}
  MaxCancels = 1
  MaxQueue = 1
  PollMax = 1
  None = None
SPECIFICATION Spec
INVARIANT
  OnlineAfterReconnect
CHECK_DEADLOCK FALSE
