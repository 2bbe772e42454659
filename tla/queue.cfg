SPECIFICATION Spec
CONSTANTS
    Handlers = {c1, c2, c3}
    Builders = {b1, b2, b3, b4}
    NoBuilder = NoBuilder
    MaxBuilders = 3
    MaxReserve = 2
    SizeModulus = 64
    MaxLaunchFailures = 2
    MaxPipeFailures = 1
    MaxOrphans = 1
    MaxRetries = 1
SYMMETRY Symmetry
INVARIANTS
    TypeOK
    Exclusive
    HandedOutAlive
    NoIdleBuilder
    PlannedWithinLimits
    OutstandingAccounted
    Replenished
    SlotsRecoverable
PROPERTIES
    WedgedForever
    LostForever
    PoolSpec
CHECK_DEADLOCK FALSE
