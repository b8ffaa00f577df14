SPECIFICATION PoolFairSpec
CONSTANTS
  Pools = {p1}
  Serving = p1
  Size = 2
  Boots = {b1, b2, b3}
  CanFail = TRUE
  None = None
INVARIANTS PrivateDisk RoomForEveryFill
PROPERTIES Refills DiskPoolSpec
CHECK_DEADLOCK FALSE
