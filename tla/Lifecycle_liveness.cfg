SPECIFICATION ServingSpec
CONSTANTS
  Requests = {r1, r2}
  MaxVMs = 0
  Jailed = FALSE
  HasNetwork = FALSE
  CgroupRequired = FALSE
  AuditStrict = TRUE
PROPERTY EveryRequestAnswered
CHECK_DEADLOCK FALSE
