SPECIFICATION Spec
CONSTANTS
  Requests = {r1, r2, r3, r4}
  Deployments <- MCDeployments
  Slots = 1
  None = None
  Torn = Torn
SYMMETRY Symmetry
INVARIANTS
  JailedLoadsWhatWasCommitted
  
  OwnMicroVM
  SockOwned
PROPERTY ValueSpec
CHECK_DEADLOCK FALSE
