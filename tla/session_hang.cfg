SPECIFICATION SessionLiveSpec
CONSTANTS
    Capacity = 2
    ContextChunks = 1
    ImageChunks = 1
    MaxOutput = 1
    MaxFaults = 1
    MaxGarbled = 0
PROPERTY ClientDisconnects
CHECK_DEADLOCK FALSE
