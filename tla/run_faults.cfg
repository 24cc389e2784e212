SPECIFICATION Spec
CONSTANTS
    Runs = {r1}
    NoRun = NoRun
    Procs = {backend, mcp}
    Backend = backend
    MaxFaults = 2
    MaxCancels = 2
    MaxHalts = 1
INVARIANTS
    RunOver
    AcceptedRowExists
    RunningRowOwned
PROPERTIES
    VerdictKept
    EveryRunSettles
\* all the calls may be over
CHECK_DEADLOCK FALSE
