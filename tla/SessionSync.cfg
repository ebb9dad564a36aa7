SPECIFICATION Spec
CONSTANTS
    MaxRecords = 3
    Kinds <- QueuedBehind
    BatchLimit = 2
    MaxRetries = 1
    MaxFailures = 2
    Bootstrap = {1}
    MaxTrouble = 1
    Tidy = TRUE
INVARIANTS NothingSkipped DeliveredOnce
PROPERTY EverythingArrives
\* A session that was deleted is not synced again.
CHECK_DEADLOCK FALSE
