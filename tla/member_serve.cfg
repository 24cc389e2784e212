SPECIFICATION MemberSpec
CONSTANTS
  Opts = {o1, o2}
  Batched = {o2}
  ClusterIds = {c1, c2, c3}
  None = none
  MaxTries = 1
  ScanLimit = 1
  GivenUp = 0
  SplitMin = 2
  EjectMin = 2
  MaxEjects = 1
  MaxSlips = 2
INVARIANTS SourcesNameHome
PROPERTIES MembershipKept IndexKept RowSettles
CHECK_DEADLOCK FALSE
