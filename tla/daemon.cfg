SPECIFICATION DaemonSpec
CONSTANTS
    Handlers = {c1, c2, c3}
    Builders = {b1, b2, b3}
    NoBuilder = NoBuilder
    MaxBuilders = 2
    MaxReserve = 1
    SizeModulus = 64
    MaxLaunchFailures = 0
    MaxPipeFailures = 1
    MaxOrphans = 0
    MaxRetries = 1
SYMMETRY Symmetry
INVARIANTS
    DaemonTypeOK
    LeaseHasOwner
    PendingIsQueued
PROPERTIES
    ConnectedKeepsBuilder
    QueueSpec
CHECK_DEADLOCK FALSE
