SPECIFICATION Spec
CONSTANTS
  Requests = {r1, r2}
  MaxVMs = 1
  Jailed = TRUE
  HasNetwork = TRUE
  CgroupRequired = TRUE
  AuditStrict = FALSE
SYMMETRY Symmetry
INVARIANTS SlotAccounting RunningHasOwner  StatusTellsWhatRan
PROPERTY LeaseSpec
CHECK_DEADLOCK FALSE
