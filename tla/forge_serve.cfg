SPECIFICATION Spec
CONSTANTS
  MaxMade = 2
  Mcp = mcp
  None = none
  MaxPolls = 2
  Budget = 2
INVARIANTS TruthTold Recoverable
PROPERTIES WorkEnds
CHECK_DEADLOCK FALSE
