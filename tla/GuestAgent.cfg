SPECIFICATION AgentFairSpec
CONSTANTS
  Conns = {c1}
  Cap = 2
  MaxOut = 4
  Forks = TRUE
  Holds = TRUE
INVARIANTS KilledIsNotExit  
 
CHECK_DEADLOCK FALSE
