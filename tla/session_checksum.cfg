SPECIFICATION SessionSpec
CONSTANTS
    Capacity = 2
    ContextChunks = 1
    ImageChunks = 1
    MaxOutput = 1
    MaxFaults = 0
    MaxGarbled = 1
INVARIANT ChecksumsAgree
CHECK_DEADLOCK FALSE
