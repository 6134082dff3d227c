CONSTANTS
    Alarms = {a1, a2, a3}
    NoAlarm = NoAlarm
    MaxActive = 2
    SequenceModulus = 3
    Severities = {0, 1}
    Interval = 1
    MaxTime = 2
    MaxPublished = 3
    MaxFaults = 1

SPECIFICATION Spec

SYMMETRY AlarmSymmetry

INVARIANTS
    OneSlotPerAlarm
    AcknowledgementFresh
    PeerInformed
    AcknowledgedWasReceived
    RemindersSpaced
