\* The delivery queue with every kind of producer and the fairness of its consumers.
SPECIFICATION FairSpec
CONSTANTS
    o1 = o1
    NoOwner = NoOwner
    NoKey = NoKey
    kOrphan = kOrphan
    kCron = kCron
    kGoal = kGoal
    kTask = kTask
    kWorkflow = kWorkflow
    Owners <- MCOwners
    Keys <- MCKeys
    TaskKeys <- MCTaskKeys
    DirectInputs <- MCDirectInputs
    CompletionInputs <- MCCompletionInputs
    MaxReplayKeys = 2
    MaxSeq = 3
    MaxLeases = 2
    MaxUnwinding = 1
INVARIANTS
    TypeOK
    InventoryHasOwner
    NoLostWakeup
    OneEnvelopePerKey
    StickyOncePerTurn
PROPERTIES
    ImplementsDelivery
    NothingStranded
