SPECIFICATION FairSpec
CONSTANTS
    BatchSize = 2
    MaxPerCycle = 3
    MaxMetrics = 5
INVARIANTS
    DuplicatesWithinNextBatch
PROPERTIES
    ImplementsDelivery
    EventuallyDelivered
    StopEndsLoop
