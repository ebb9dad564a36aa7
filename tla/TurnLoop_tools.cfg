SPECIFICATION Spec
CONSTANTS
    MaxTurn = 2
    MaxRound = 1
    MaxCalls <- TwoThenOne
    StopCap = 0
    LengthCap <- NoLengths
    Features <- RoundsOfTools
INVARIANT TurnActiveIsTheLatest
INVARIANT QueuedInputIsWritten
\* The turns of the instance run out.
CHECK_DEADLOCK FALSE
