CONSTANTS
    Readers = {r1}
    Setters = {s1, s2}
    NoTask = NoTask
    Second = 3
    Epoch = 4
    MaxUptime = 5
SPECIFICATION Spec
INVARIANTS
    AtMostASecondSlow
