---------------------------- MODULE MCTurnDispatch ----------------------------
(* Small instances of TurnDispatch: what each input is, and who is alike. *)
EXTENDS TurnDispatch, TLC

CONSTANTS a, b, c, d, e

\* One input of every kind the guard run needs, with the phone and /clear.
KindGuard ==
    (a :> "text") @@ (b :> "remote") @@ (c :> "skill") @@ (d :> "clear") @@ (e :> "command")
\* A prompt, a skill that expands inline and a compact queue behind each other.
KindQueue == (a :> "text") @@ (b :> "inline") @@ (c :> "compact")

JobSymmetry == Permutations(Jobs)
===============================================================================
