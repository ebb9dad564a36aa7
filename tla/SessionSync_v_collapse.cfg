SPECIFICATION Spec
CONSTANTS
    MaxRecords = 4
    Kinds <- Collapsed
    BatchLimit = 2
    MaxRetries = 1
    MaxFailures = 2
    Bootstrap = {1}
    MaxTrouble = 0
    Tidy = FALSE
INVARIANT NothingSkipped
\* A session that was deleted is not synced again.
CHECK_DEADLOCK FALSE
