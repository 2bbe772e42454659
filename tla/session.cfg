SPECIFICATION SessionLiveSpec
CONSTANTS
    Capacity = 2
    ContextChunks = 3
    ImageChunks = 3
    MaxOutput = 2
    MaxFaults = 3
    MaxGarbled = 1
INVARIANTS
    SessionTypeOK
    DeliveredIntact
    FaultFreeSucceeds
    NoMutualWait
    BuilderOutlivesUse
    OldImageSurvives
PROPERTIES
    ClientEndsOrStuck
    BuilderEnds
    LeaseSpec
CHECK_DEADLOCK FALSE
