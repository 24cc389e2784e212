SPECIFICATION Spec
CONSTANTS
    Ops = {o1, o2, o3}
    NoOp = NoOp
    Sentinel = Sentinel
    MaxDepth = 2
    MaxGen = 3
    CleanupMayFail = TRUE
    WorkMayCancel = TRUE
INVARIANTS
    SingleSession
    RefusedNeverRuns
    AcceptingHasWorker
    NobodyForgotten
PROPERTIES
    Served
    ServiceRefined
\* stop() ends the queue's life
CHECK_DEADLOCK FALSE
