CONSTANTS
    AddressCount = 2
    BatchCapacity = 2
    CoreFeatures <- MCCoreFeatures
    GearFeatures <- MCGearFeatures
    Disturbances <- MCDisturbances
    MaxDisruptions = 3

SPECIFICATION Spec

INVARIANT
    RecoveryReported
