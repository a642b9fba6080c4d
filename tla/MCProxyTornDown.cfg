CONSTANTS
  Runs = {r1}
  MaxConnections = 1
SPECIFICATION Spec
INVARIANT
  ProxyTornDown
CHECK_DEADLOCK FALSE
