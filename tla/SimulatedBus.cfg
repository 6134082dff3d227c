CONSTANTS
    Capacity = 2
    Responses <- MCResponses
    NoResponse <- MCNoResponse
    EmptySlot <- MCEmptySlot
    AbsoluteMaxRetries = 8
    CounterMax = 3
    ControlCalls <- MCControlCalls
    QueryCalls <- MCQueryCalls
    Timeouts = {0, 20, 25}
    RetryLimits = {1, 9}
    Switches = {"busPowered", "transceiverHealthy"}
SPECIFICATION Spec
INVARIANTS
    TypeOK
    OkMeansSent
PROPERTY
    ImplementsResponseScript
