SPECIFICATION Spec
CONSTANTS
    MaxTurn = 6
    MaxStopped = 1
    Span = 3
    Limit = 3
    MaxFailures = 3
INVARIANT NeverOffForLong
INVARIANT ThrashingStops
PROPERTY AttemptsOncePerTurn
\* The turns of the instance run out.
CHECK_DEADLOCK FALSE
