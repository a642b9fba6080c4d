CONSTANTS
  Ids = {i1, i2}
  Workers = {w1}
  Tokens = {t1, t2}
  None = None
  Own = own
  Fresh = fresh
SPECIFICATION EnrollmentFairSpec
INVARIANTS
  EnrollmentTypeOK
  ApprovedTokenWorks
  FilesAgree
  DeliveredOnce
  IdentityBound
PROPERTIES
  ImplementsTokenLife
  PairingEnds
CHECK_DEADLOCK FALSE
