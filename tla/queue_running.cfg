SPECIFICATION Spec
CONSTANTS
    Handlers = {c1, c2}
    Builders = {b1, b2, b3}
    NoBuilder = NoBuilder
    MaxBuilders = 2
    MaxReserve = 1
    SizeModulus = 64
    MaxLaunchFailures = 0
    MaxPipeFailures = 1
    MaxOrphans = 0
    MaxRetries = 0
SYMMETRY Symmetry
INVARIANT KeepsRunning
CHECK_DEADLOCK FALSE
