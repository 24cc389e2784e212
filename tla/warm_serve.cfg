SPECIFICATION Spec
CONSTANTS
  Clusters = {c1, c2}
  Projects = {p1, p2}
  Legacy = p1
  Boundaries = {1, 2}
  MinQuota = 1
  Breaker = 1
  Cadence = 2
  MaxMarks = 2
  MaxFaults = 1
INVARIANTS Accounted
PROPERTIES Drains ComesToRest
