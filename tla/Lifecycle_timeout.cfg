SPECIFICATION Spec
CONSTANTS
  Requests = {r1, r2}
  MaxVMs = 1
  Jailed = FALSE
  HasNetwork = TRUE
  CgroupRequired = TRUE
  AuditStrict = FALSE
PROPERTY JobTimeoutIsOK
CHECK_DEADLOCK FALSE
