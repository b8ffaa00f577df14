SPECIFICATION Spec
CONSTANTS
  MaxBoots = 2
  Tree <- MCTree
  MaxVMs = 2
  MaxLives = 2
INVARIANTS
  SeenIsInside
  LimitsBeforeMembers
  DestroyIsHonest
  LeftoversExplained
PROPERTIES
  NeverReleased
CHECK_DEADLOCK FALSE
