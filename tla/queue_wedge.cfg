SPECIFICATION LiveSpec
CONSTANTS
    Handlers = {c1, c2}
    Builders = {b1, b2, b3}
    NoBuilder = NoBuilder
    MaxBuilders = 2
    MaxReserve = 1
    SizeModulus = 64
    MaxLaunchFailures = 1
    MaxPipeFailures = 0
    MaxOrphans = 0
    MaxRetries = 0
PROPERTY CreatesAsNeeded
CHECK_DEADLOCK FALSE
