SPECIFICATION Spec
CONSTANTS
    Clients = {c1}
    Sentinel = Sentinel
    Refetched = {2, 3}
    QueueSize = 2
    BufferSize = 2
    Window = 2
    MaxEvents = 4
    MaxBreaks = 2
    MaxRestarts = 1
INVARIANTS
    
    DeliveredInOrder
PROPERTIES
    ClientReconnects
\* events are bounded and the server may shut down for good
CHECK_DEADLOCK FALSE
