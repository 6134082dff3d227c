CONSTANTS
    WarningSamples = 2
    FaultSamples = 3
    RecoverySamples = 2
    CountLimit = 3
    Config <- MCConfig
    Samples <- MCSamples
    Window = 3
SPECIFICATION Spec
INVARIANTS
    ScoreRemembers
    DiagnosticsAgree
PROPERTIES
    LatchesFollowStreaks
    RecoveryThroughService
    FullHealthRegained
