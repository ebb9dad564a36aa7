----------------------------- MODULE AutoCompact -----------------------------
(***************************************************************************)
(* When a conversation is compacted by itself, and when not: the           *)
(* accounting of maybeCompact (engine/queue/runtime/compact/auto.ts).      *)
(*                                                                         *)
(* Auto-compaction is the only bound on the conversation, so the two       *)
(* breakers that stop it, one for summaries that fail and one for a        *)
(* context that refills at once, must re-arm. The accounting is one record *)
(* that every turn reads before its summary and writes after it; a turn    *)
(* the user has stopped may still write while its successor runs.          *)
(***************************************************************************)
EXTENDS Naturals, FiniteSets

CONSTANTS
  MaxTurn,      \* bound: turns of a session
  MaxStopped,   \* bound: stopped turns whose summary is still under way
  Span,         \* RAPID_REFILL_TURN_SPAN
  Limit,        \* RAPID_REFILL_STREAK_LIMIT
  MaxFailures   \* MAX_CONSECUTIVE_COMPACT_FAILURES

ASSUME BoundsAssumption ==
  /\ MaxTurn \in Nat /\ MaxStopped \in Nat
  /\ Span \in Nat \ {0} /\ Limit \in Nat \ {0} /\ MaxFailures \in Nat \ {0}

VARIABLES
  state,      \* CompactState
  attempted,  \* attemptedAutoCompactTurns: the turn of the last attempt
  attempts,   \* the summaries under way, of the turn and of stopped ones
  turn,       \* host.currentTurnId
  live,       \* the turn runs and was not stopped
  hears,      \* its controller is the active one: Esc reaches its next attempt
  \* History.
  tried,      \* the turns that have made an attempt
  skipped,    \* turns in a row that opened over the threshold and made none
  age,        \* turns begun since the last compaction, Span and more alike
  streak,     \* compactions in a row that came within Span of the one before
  undone      \* an attempt wrote its accounting over newer accounting

history == <<tried, skipped, age, streak, undone>>
vars == <<state, attempted, attempts, turn, live, hears, history>>

Turn == 1..MaxTurn
NoTurn == 0

\* A counter that is only compared with its limit.
Up(n, limit) == IF n < limit THEN n + 1 ELSE limit

\* turnsSinceLast starts at Infinity: the same as Span, for every comparison.
States == [since : 0..Span, rapid : 0..Limit, open : BOOLEAN,
           failures : 0..MaxFailures, last : 0..MaxTurn]

FreshState ==
  [since |-> Span, rapid |-> 0, open |-> FALSE, failures |-> 0, last |-> NoTurn]

Attempts == [turn : Turn, before : States, plan : States, hears : BOOLEAN, cut : BOOLEAN]

Init ==
  /\ state = FreshState
  /\ attempted = NoTurn
  /\ attempts = {}
  /\ turn = NoTurn
  /\ live = FALSE
  /\ hears = FALSE
  /\ tried = {}
  /\ skipped = 0
  /\ age = Span
  /\ streak = 0
  /\ undone = FALSE

-----------------------------------------------------------------------------
(* The look: maybeCompact up to its first await.                           *)

\* Fault: the breakers never re-arm.
Paused_Forever(s) == s.failures >= MaxFailures \/ s.open

\* A breaker is open and the context has refilled within Span turns.
Paused(s) == (s.failures >= MaxFailures \/ s.open) /\ s.since < Span

\* Fault: only the accounting remembers the attempt, and a failure restores it.
Tried_NotKept(s, t) == s.last = t

Tried(s, t) == s.last = t \/ attempted = t

\* Fault: every compaction starts the count anew.
Plan_FromZero(s, t) ==
  [open |-> FALSE, rapid |-> IF s.since < Span THEN 1 ELSE 0,
   failures |-> IF s.failures >= MaxFailures THEN 0 ELSE s.failures,
   since |-> s.since, last |-> t]

Plan(s, t) ==
  [open |-> FALSE,
   rapid |-> IF s.since < Span THEN Up(s.rapid, Limit) ELSE 0,
   failures |-> IF s.failures >= MaxFailures THEN 0 ELSE s.failures,
   since |-> s.since,
   last |-> t]

Thrashes(s, t) == Plan(s, t).rapid >= Limit

MayAttempt(s, t) == ~Paused(s) /\ ~Tried(s, t)

Attempt(s, t, heard) ==
  [turn |-> t, before |-> s, plan |-> Plan(s, t), hears |-> heard, cut |-> FALSE]

\* Turn t looks while the accounting is s and the conversation is too long.
LookAt(s, t, heard) ==
  \/ /\ ~MayAttempt(s, t)
     /\ state' = s
     /\ UNCHANGED <<attempted, attempts, tried>>
  \/ /\ MayAttempt(s, t)
     /\ Thrashes(s, t)
     /\ attempted' = t
     /\ state' = [Plan(s, t) EXCEPT !.open = TRUE]
     /\ UNCHANGED <<attempts, tried>>
  \/ /\ MayAttempt(s, t)
     /\ ~Thrashes(s, t)
     /\ attempted' = t
     /\ state' = s
     /\ attempts' = attempts \cup {Attempt(s, t, heard)}
     /\ tried' = tried \cup {t}

Summarizing(t) == \E a \in attempts : a.turn = t

-----------------------------------------------------------------------------
(* Turns.                                                                  *)

NewTurn == [state EXCEPT !.since = Up(@, Span)]

\* runTurnRounds up to its opening look. The new turn has its own controller.
BeginTurn(over) ==
  /\ ~live
  /\ turn < MaxTurn
  /\ Cardinality(attempts) <= MaxStopped
  /\ turn' = turn + 1
  /\ live' = TRUE
  /\ hears' = TRUE
  /\ age' = Up(age, Span)
  /\ IF over
     THEN /\ LookAt(NewTurn, turn', TRUE)
          /\ skipped' = IF attempts' # attempts THEN 0 ELSE skipped + 1
     ELSE /\ state' = NewTurn
          /\ skipped' = 0
          /\ UNCHANGED <<attempted, attempts, tried>>
  /\ UNCHANGED <<streak, undone>>

\* The looks at the top of a round and after the answer.
LooksAgain ==
  /\ live
  /\ ~Summarizing(turn)
  /\ LookAt(state, turn, hears)
  /\ skipped' = IF attempts' # attempts THEN 0 ELSE skipped
  /\ UNCHANGED <<turn, live, hears, age, streak, undone>>

EndTurn ==
  /\ live
  /\ ~Summarizing(turn)
  /\ live' = FALSE
  /\ UNCHANGED <<state, attempted, attempts, turn, hears, history>>

\* Esc: Agent.cancel aborts the active controller.
Cancel ==
  /\ live
  /\ live' = FALSE
  /\ attempts' = {[a EXCEPT !.cut = @ \/ (a.turn = turn /\ a.hears)] : a \in attempts}
  /\ UNCHANGED <<state, attempted, turn, hears, history>>

-----------------------------------------------------------------------------
(* The end of an attempt: maybeCompact after its summary.                  *)

\* What an attempt writes replaces what others wrote since it looked.
Overwrites(a) == undone \/ state # a.before

Compacted ==
  /\ skipped' = 0
  /\ age' = 0

\* The boundary is in the record. A stopped turn may still get here: its
\* controller is not asked again once the summary is there.
Succeeds(a) ==
  /\ attempts' = attempts \ {a}
  /\ state' = [a.plan EXCEPT !.since = 0, !.failures = 0]
  /\ Compacted
  /\ streak' = IF age < Span THEN Up(streak, Limit) ELSE 0
  /\ undone' = Overwrites(a)
  /\ UNCHANGED <<attempted, turn, live, hears, tried>>

SummaryEmpty(a) ==
  /\ attempts' = attempts \ {a}
  /\ state' = [state EXCEPT !.failures = Up(a.plan.failures, MaxFailures)]
  /\ undone' = Overwrites(a)
  /\ UNCHANGED <<attempted, turn, live, hears, tried, skipped, age, streak>>

\* No summary: an abort leaves everything as it was, an error counts.
SummaryFails(a) ==
  /\ attempts' = attempts \ {a}
  /\ state' = [a.before EXCEPT
       !.failures = IF a.cut THEN @ ELSE Up(a.plan.failures, MaxFailures)]
  /\ undone' = Overwrites(a)
  /\ UNCHANGED <<attempted, turn, live, hears, tried, skipped, age, streak>>

\* The record could not be written: the plan is rolled back whole.
BoundaryFails(a) ==
  /\ attempts' = attempts \ {a}
  /\ state' = a.before
  /\ undone' = Overwrites(a)
  /\ UNCHANGED <<attempted, turn, live, hears, tried, skipped, age, streak>>

-----------------------------------------------------------------------------
(* Compactions that were asked for, and a new conversation.                *)

ByHand(s) == [s EXCEPT !.rapid = 0, !.open = FALSE, !.since = 0]

\* applyCompactSummary, for /compact and for an overflow whose turn was stopped.
CompactsByHand ==
  /\ state' = ByHand(state)
  /\ Compacted
  /\ streak' = 0
  /\ undone' = FALSE
  /\ UNCHANGED <<attempted, attempts, turn, live, hears, tried>>

\* forceCompactOnOverflow in the running turn, which leaves it without an
\* active controller whether it succeeds or not.
CompactsOnOverflow(succeeds) ==
  /\ live
  /\ ~Summarizing(turn)
  /\ hears' = FALSE
  /\ IF succeeds
     THEN /\ state' = ByHand(state)
          /\ Compacted
          /\ streak' = 0
          /\ undone' = FALSE
     ELSE UNCHANGED <<state, skipped, age, streak, undone>>
  /\ UNCHANGED <<attempted, attempts, turn, live, tried>>

\* resetMicrocompactState: /clear and rewind take a new CompactState. What is
\* under way writes to the old one.
Clear ==
  /\ ~live
  /\ state' = FreshState
  /\ attempted' = NoTurn
  /\ attempts' = {}
  /\ skipped' = 0
  /\ age' = Span
  /\ streak' = 0
  /\ undone' = FALSE
  /\ UNCHANGED <<turn, live, hears, tried>>

-----------------------------------------------------------------------------

Ends(a) == Succeeds(a) \/ SummaryEmpty(a) \/ SummaryFails(a) \/ BoundaryFails(a)

Next ==
  \/ \E over \in BOOLEAN : BeginTurn(over)
  \/ LooksAgain \/ EndTurn \/ Cancel
  \/ \E a \in attempts : Ends(a)
  \/ CompactsByHand
  \/ \E succeeds \in BOOLEAN : CompactsOnOverflow(succeeds)
  \/ Clear

Spec == Init /\ [][Next]_vars

-----------------------------------------------------------------------------
(* Properties.                                                             *)

\* Every variable keeps its type, and attempts belong to turns that began.
TypeOK ==
  /\ state \in States
  /\ attempted \in 0..MaxTurn
  /\ attempts \subseteq Attempts
  /\ turn \in 0..MaxTurn
  /\ live \in BOOLEAN /\ hears \in BOOLEAN /\ undone \in BOOLEAN
  /\ tried \subseteq 1..turn
  /\ skipped \in Nat
  /\ age \in 0..Span
  /\ streak \in 0..Limit

\* The comment at auto.ts:127-131: no breaker may disable auto-compaction for
\* the rest of the session. Fewer than Span turns in a row open too long and
\* make no attempt, whatever failed before them. Not so after a stopped turn
\* has written its old accounting over newer (README, limits).
NeverOffForLong == ~undone => skipped < Span

\* A conversation that refills at once is not compacted Limit times in a row;
\* the same exception.
ThrashingStops == ~undone => streak < Limit

\* A turn pays for one summary: rounds that follow a failed one do not retry.
AttemptsOncePerTurn ==
  [][\A a \in attempts' \ attempts : a.cut \/ a.turn \notin tried]_vars

=============================================================================
