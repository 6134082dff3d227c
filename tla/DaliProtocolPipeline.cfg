\* Two places in the queue, four requests: the queue fills, refuses and is
\* drained; the retry limit is three, and the counters saturate at two.
CONSTANTS
    Capacity = 2
    AbsoluteMaxRetries = 3
    CounterMax = 2
    DirectRequests <- MCDirectRequests
    QueryRequests <- MCQueryRequests
    ControlRequests <- MCControlRequests
    PhyResults <- MCPhyResults
    Bytes = {b0}
    NoByte = NoByte
    Jitter <- MCJitter
    MaxAccepted = 4

SPECIFICATION Spec

INVARIANTS
    TypeOK
    EachRequestOnce
    QueueOrdered
    RetryBudget
    QualityAccounts
    OutcomeTruthful
    MisdeliveredIsOlder

PROPERTIES
    ImplementsService
    CallReturns
