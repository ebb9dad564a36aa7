-------------------------- MODULE MCBackgroundTasks --------------------------
(* Small sessions: which tasks there are and which surfaces touch them. *)
EXTENDS BackgroundTasks, TLC

CONSTANTS a, b, c

MCTasks == {a, b, c}
MCPair == {a, b}
TaskSymmetry == Permutations(MCTasks)

=============================================================================
