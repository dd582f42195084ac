SPECIFICATION Spec
CONSTANTS
    MaxRecords = 4
    QueueSize = 1
    BatchSize = 2
    SpoolMax = 3
    MaxFaults = 1
INVARIANTS
    ShipperConsistent
    DuplicatesExplained
    SpoolSafe
PROPERTY
    ShipperLive
CHECK_DEADLOCK FALSE
