SPECIFICATION Spec
CONSTANTS
    Handlers = {c1, c2, c3, c4}
    Builders = {b1, b2, b3, b4}
    NoBuilder = NoBuilder
    MaxBuilders = 3
    MaxReserve = 2
    SizeModulus = 64
    MaxLaunchFailures = 1
    MaxPipeFailures = 0
    MaxOrphans = 0
    MaxRetries = 0
SYMMETRY Symmetry
INVARIANT DocumentedLimit
