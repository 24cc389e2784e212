SPECIFICATION Spec
CONSTANTS
  MaxMade = 1
  Mcp = mcp
  None = none
  MaxPolls = 2
  Budget = 0
INVARIANTS AnnouncedStored
CHECK_DEADLOCK FALSE
