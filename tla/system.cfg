SPECIFICATION SystemLiveSpec
CONSTANTS
    Handlers = {c1, c2}
    Builders = {b1, b2}
    NoBuilder = NoBuilder
    MaxBuilders = 1
    MaxReserve = 1
    SizeModulus = 64
    MaxLaunchFailures = 0
    MaxPipeFailures = 0
    MaxOrphans = 0
    MaxRetries = 0
    MaxFaults = 1
INVARIANTS
    SystemTypeOK
    KeepsItsMachine
    HandedOutUnused
PROPERTIES
    ForgottenForever
    LeasesKept
    ClientLeavesOrStuck
    EveryConnectionEnds
CHECK_DEADLOCK FALSE
