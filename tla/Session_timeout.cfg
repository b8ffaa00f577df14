SPECIFICATION Spec
CONSTANTS
  Requests = {r1, r2, r3}
  Deployments <- MCPlain
  Slots = 1
  None = None
  Torn = Torn
SYMMETRY Symmetry
INVARIANT LoadsWhatWasCommitted
CHECK_DEADLOCK FALSE
