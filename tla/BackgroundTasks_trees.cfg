SPECIFICATION Spec
CONSTANTS
    a = a
    b = b
    c = c
    Main = Main
    Tasks <- MCTasks
    MaxRuns = 3
    Surfaces = {"directive", "nested", "stop", "shell", "late"}
INVARIANTS InventoryHasOwner ParkedHasWork TermMatchesQueue DetachedChildReports
PROPERTIES ImplementsDelivery
CHECK_DEADLOCK FALSE
SYMMETRY TaskSymmetry
