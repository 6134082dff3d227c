\* The claim that a synchronous caller gets the result of its own request,
\* against a pipeline in which another request is already waiting.
CONSTANTS
    Capacity = 2
    AbsoluteMaxRetries = 3
    CounterMax = 2
    DirectRequests <- MCDirectRequests
    QueryRequests <- MCQueryRequests
    ControlRequests <- MCControlRequests
    PhyResults <- MCPhyResults
    Bytes = {b0}
    NoByte = NoByte
    Jitter <- MCJitter
    MaxAccepted = 4

SPECIFICATION Spec

INVARIANT
    OwnResult
