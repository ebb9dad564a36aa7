SPECIFICATION FairSpec
CONSTANTS
    a = a
    b = b
    c = c
    Main = Main
    Tasks <- MCPair
    MaxRuns = 3
    Surfaces = {"main", "nested", "cancel", "send"}
PROPERTIES NothingStranded EveryRunSettles RunsKeepTheirNotices StaleRunsArePowerless
CHECK_DEADLOCK FALSE
