SPECIFICATION StreamSpec
CONSTANTS
    Runs = {r1}
    NoRun = NoRun
    Procs = {backend}
    Backend = backend
    MaxFaults = 2
    MaxCancels = 0
    MaxHalts = 0
    BoxSize = 2
    MaxSteps = 1
    MaxOther = 2
INVARIANTS
    HeardIsStored
PROPERTIES
    ReturnedStreamEnds
\* all the runs may be over
CHECK_DEADLOCK FALSE
