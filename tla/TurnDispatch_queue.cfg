SPECIFICATION FairSpec
CONSTANTS
    a = a
    b = b
    c = c
    d = d
    e = e
    Inputs = {a, b, c}
    Kind <- KindQueue
    Jobs = {j1, j2, j3}
    MaxGen = 5
    Features = {"cancel", "restore", "work", "retry"}
INVARIANT NothingStranded
INVARIANT IdleShowsIdle
PROPERTY QueuedIsTaken
\* The inputs and MaxGen run out: a session nobody talks to stops.
CHECK_DEADLOCK FALSE
