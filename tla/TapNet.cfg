SPECIFICATION Spec
CONSTANTS
  Requests = {r1, r2, r3}
  Sessions = {s1, s2}
  Deployments <- MCDeployments
  None = None
SYMMETRY Symmetry
INVARIANTS
  TypeOK
  NothingLeft
  AllowlistExact
  LinkIntact
CHECK_DEADLOCK FALSE
