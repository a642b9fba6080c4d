CONSTANTS
  w1 = w1
  Workers = {w1}
  Runs = {r1}
  Sessions = {s1, s2}
  Requests = {q1}
  Runtimes = {"nano_agent", "custom"}
  Supports <- MCSupports
  Retention = 2
  SessionTTL = 1
  MaxCancels = 1
  MaxLogs = 1
  MaxDrops = 1
  Nobody = Nobody
  NoSession = NoSession
SPECIFICATION FairSpec
INVARIANTS
  TypeOK
  KnownUntilSilent
  CancelFollowsRun
PROPERTIES
  SessionLivesItsTerm
  CancelSettles
CHECK_DEADLOCK FALSE
