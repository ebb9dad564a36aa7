----------------------------- MODULE MCTurnLoop -----------------------------
(* Instances of TurnLoop for TLC. *)
EXTENDS TurnLoop

\* The turn that may be taken over calls two tools at once, its successor one.
TwoThenOne == <<2, 1>>
OneEach == <<1, 1>>
NoLengths == <<0, 0>>
OneLength == <<1, 0>>

\* One turn is taken over at every await of its rounds and its tool calls, by one that
\* compacts.
RoundsOfTools == <<{"fail", "typed", "silent", "malformed"}, {"fail", "compact", "force"}>>
\* The first turn compacts, leaves calls without an answer and goes round again
\* for every reason there is, the second leaves calls without an answer beside it.
Compactions == <<{"compact", "force", "orphan", "silent", "malformed"}, {"orphan"}>>
=============================================================================
