SPECIFICATION Spec
CONSTANTS
    a = a
    b = b
    c = c
    d = d
    e = e
    Inputs = {a, b, c, d, e}
    Kind <- KindGuard
    Jobs = {j1, j2, j3}
    MaxGen = 4
    Features = {"cancel", "restore", "work", "block", "refuse", "retry", "phone_queue"}
SYMMETRY JobSymmetry
INVARIANT GuardHasHolder
INVARIANT TurnsAreSerial
\* The inputs and MaxGen run out: a session nobody talks to stops.
CHECK_DEADLOCK FALSE
