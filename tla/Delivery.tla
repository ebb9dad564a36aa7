------------------------------ MODULE Delivery ------------------------------
(***************************************************************************)
(* What the session promises about every notification, whoever carries it: *)
(* it waits for one owner or for the main conversation, an owner that goes *)
(* away hands it to the main conversation, and once it has left it is never *)
(* handed out again.  The queue and the background tasks implement this.   *)
(***************************************************************************)
CONSTANT Items

VARIABLE place

Places == {"unborn", "owner", "main", "gone"}

\* Where an item may be after a step: forward, never back to a private inventory
\* and never out of "gone".
Later(p) ==
    CASE p = "unborn" -> Places
      [] p = "owner"  -> {"owner", "main", "gone"}
      [] p = "main"   -> {"main", "gone"}
      [] p = "gone"   -> {"gone"}

TypeOK == place \in [Items -> Places]

Init == place = [i \in Items |-> "unborn"]

\* One call may move several items: a drain hands over everything it picked.
Next ==
    /\ place' \in [Items -> Places]
    /\ \A i \in Items : place'[i] \in Later(place[i])

Spec == Init /\ [][Next]_place

Waiting(i) == place[i] \in {"owner", "main"}

\* No notification waits for ever.
NothingStranded == \A i \in Items : Waiting(i) ~> place[i] = "gone"

============================================================================
