CONSTANTS
    NumLights = 3
    Kinds = {"Status", "Presence"}
    Period <- StarvingPeriod
    Contexts <- AllOn
    Utilisations = {"Normal"}
    Durations = {1}
    MayAbandon = FALSE
    MaxConfigures = 3
SPECIFICATION Spec
PROPERTY PresencePolled
