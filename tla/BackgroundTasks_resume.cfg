SPECIFICATION Spec
CONSTANTS
    a = a
    b = b
    c = c
    Main = Main
    Tasks = {a}
    MaxRuns = 3
    Surfaces = {"directive", "main", "send", "taskstop", "evict", "view", "close", "shell", "late"}
INVARIANTS KilledRunsAbort ReportedRunsEnd RunningIsUntold
CHECK_DEADLOCK FALSE
