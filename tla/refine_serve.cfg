SPECIFICATION Spec
CONSTANTS
  Requests = 2
  Forks = {f1}
  MaxPolls = 2
  MaxFaults = 1
INVARIANTS RowsSound Numbered
PROPERTIES OwnTurnListed
CHECK_DEADLOCK FALSE
