CONSTANTS
    Capacity = 3
    Events = {e1, e2}
    EmptyRecord = EmptyRecord
    Keys = {k1}
    Values = {v1, v2}
    Absent = Absent
SPECIFICATION StorageSpec
INVARIANT
    LoadsWhatWasSaved
PROPERTY
    ImplementsEventLog
