SPECIFICATION FairSpec
CONSTANTS
    MaxTurn = 2
    MaxRound = 1
    MaxCalls <- OneEach
    StopCap = 1
    LengthCap <- OneLength
    Features <- Compactions
INVARIANT RequestsArePaired
INVARIANT OutcomesReachTheModel
INVARIANT PromptsStay
PROPERTY StaleTurnsGoNoFurther
PROPERTY EveryTurnEnds
\* The turns of the instance run out.
CHECK_DEADLOCK FALSE
