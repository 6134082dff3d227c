CONSTANTS
    NumLights = 3
    Kinds = {"Status", "Presence"}
    Period <- MCPeriod
    Contexts <- MCContexts
    Utilisations = {"Normal", "Diagnostic", "Over"}
    Durations = {1}
    MayAbandon = TRUE
    MaxConfigures = 3
SPECIFICATION Spec
INVARIANTS
    TypeOK
    OvertakenOnce
    StatusPace
PROPERTY ObservedServed
