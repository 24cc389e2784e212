SPECIFICATION Spec
CONSTANTS
  Bridges = {b1}
  Plain = {p1}
  MaxOut = 2
  MaxTimers = 2
  MaxFaults = 1
INVARIANTS ToldUnlessLeaked SamplingHeard
PROPERTIES AllLetGo SteadySeen
