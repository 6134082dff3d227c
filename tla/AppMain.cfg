CONSTANTS
    Capacity = 32
    Responses = {}
    NoResponse <- MCNoResponse
    EmptySlot <- MCEmptySlot
    AbsoluteMaxRetries = 8
    CounterMax = 3
    Alarms <- MCAlarms
    NoAlarm <- MCNoAlarm
    MaxActive = 12
    SequenceModulus = 65536
    AddressCount = 5
    Config <- MCScoring
    MaximumPayload = 6
    Configs <- MCConfigs
    NoConfig <- MCNoConfig
    BootTimes = {400, 1001, 1995, 2005}
    Periods = {999, 1000, 1010, 1990, 2000}
    MaxUptime = 12000
SPECIFICATION Spec
INVARIANTS
    FramesAreValid
    EachAlarmOneFrame
    MissingForMilliseconds
PROPERTY
    ValidatedBootDiscovers
CHECK_DEADLOCK FALSE
