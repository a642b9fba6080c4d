CONSTANTS
  Ids = {i1, i2}
  Workers = {w1, w2}
  Tokens = {t1, t2}
  None = None
  Own = own
  Fresh = fresh
SPECIFICATION EnrollmentSpec
INVARIANT
  PairedWorkerAccepted
CHECK_DEADLOCK FALSE
