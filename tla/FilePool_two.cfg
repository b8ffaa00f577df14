SPECIFICATION PoolSpec
CONSTANTS
  Pools = {p1, p2}
  Serving = p1
  Size = 2
  Boots = {b1, b2}
  CanFail = FALSE
  None = None
SYMMETRY Symmetry
INVARIANT PrivateDisk
CHECK_DEADLOCK FALSE
