SPECIFICATION RateSpec
CONSTANTS
  Handlers = {h1, h2, h3}
  Keys = {k1, k2}
  Limit = 2
  Window = 3
  Lag = 1
  EvictAt = 1
  MaxClock = 7
CONSTRAINT Horizon
SYMMETRY Symmetry
INVARIANT RateBounded
PROPERTY WindowsDisjoint
