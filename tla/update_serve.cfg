SPECIFICATION Spec
CONSTANTS
  Opts = {o1}
  Reload = TRUE
  MaxApplies = 2
  MaxEdits = 2
  MaxFaults = 1
INVARIANTS RestartsMigrated StashReturned DrainedSurvive
PROPERTIES ApplyEnds
CHECK_DEADLOCK FALSE
