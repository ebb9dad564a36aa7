-------------------------- MODULE AutoCompact_proofs --------------------------
(***************************************************************************)
(* What AutoCompact promises for every Span, Limit and MaxFailures, for    *)
(* every number of turns and of stopped turns that still write.            *)
(***************************************************************************)
EXTENDS AutoCompact, TLAPS

\* Since the last overwriting: the accounting knows the age of the last
\* compaction, and as many turns were skipped as have begun since, at most.
Aged == ~undone => state.since = age /\ skipped <= state.since

\* A closed breaker has counted every compaction of the streak.
Counted == ~undone /\ ~state.open => streak <= state.rapid

\* An attempt was planned from the accounting it saw, with no breaker open.
Planned ==
  \A a \in attempts :
    /\ a.plan = Plan(a.before, a.turn)
    /\ ~Paused(a.before)
    /\ a.plan.rapid < Limit
    /\ a.turn \in tried

\* Nothing knows of a turn that has not begun.
Past ==
  /\ state.last <= turn /\ attempted <= turn
  /\ \A a \in attempts : a.before.last <= turn

\* The attempt of the running turn is remembered outside the accounting.
Remembered == live /\ turn \in tried => attempted = turn

IInv == TypeOK /\ Aged /\ Counted /\ Planned /\ Past /\ Remembered
        /\ NeverOffForLong /\ ThrashingStops

-----------------------------------------------------------------------------
(* The operators.                                                          *)

\* A capped counter stays within its cap.
LEMMA UpInRange ==
  ASSUME NEW limit \in Nat, NEW n \in 0..limit
  PROVE  Up(n, limit) \in 0..limit
BY DEF Up

\* A plan is an accounting.
LEMMA PlanIsState ==
  ASSUME NEW s \in States, NEW t \in 0..MaxTurn
  PROVE  Plan(s, t) \in States
<1>1. Up(s.rapid, Limit) \in 0..Limit
  BY UpInRange, BoundsAssumption DEF States
<1>. QED
  BY <1>1, BoundsAssumption DEF Plan, States

\* So are the accounting of a new turn and the one a compaction by hand leaves.
LEMMA OtherStates ==
  ASSUME NEW s \in States
  PROVE  /\ [s EXCEPT !.since = Up(@, Span)] \in States
         /\ ByHand(s) \in States
         /\ FreshState \in States
<1>1. Up(s.since, Span) \in 0..Span
  BY UpInRange, BoundsAssumption DEF States
<1>2. [s EXCEPT !.since = Up(@, Span)] \in States
  BY <1>1 DEF States
<1>3. ByHand(s) \in States
  <2>. DEFINE s1 == [s EXCEPT !.rapid = 0]
  <2>. DEFINE s2 == [s1 EXCEPT !.open = FALSE]
  <2>1. s1 \in States
    BY BoundsAssumption DEF States
  <2>. HIDE DEF s1
  <2>2. s2 \in States
    BY <2>1 DEF States
  <2>. HIDE DEF s2
  <2>3. [s2 EXCEPT !.since = 0] \in States
    BY <2>2, BoundsAssumption DEF States
  <2>. QED
    BY <2>3 DEF ByHand, s1, s2
<1>4. FreshState \in States
  BY BoundsAssumption DEF States, FreshState, NoTurn
<1>. QED
  BY <1>2, <1>3, <1>4

-----------------------------------------------------------------------------
(* A look.                                                                 *)

\* A look that makes no attempt: turn t is refused, or it opens the breaker.
Refused(s, t) ==
  /\ UNCHANGED <<attempts, tried>>
  /\ attempted' \in {attempted, t}
  /\ state' \in States /\ state'.since = s.since /\ state'.last \in {s.last, t}
  /\ state' = s \/ state'.open
  /\ s.since < Span \/ Tried(s, t)

\* A look that makes the one attempt of turn t.
Attempted(s, t, heard) ==
  /\ ~Tried(s, t)
  /\ ~Paused(s)
  /\ Plan(s, t).rapid < Limit
  /\ attempted' = t
  /\ state' = s
  /\ attempts' = attempts \cup {Attempt(s, t, heard)}
  /\ tried' = tried \cup {t}

\* A look is one of the two.
LEMMA LookIsEither ==
  ASSUME NEW s \in States, NEW t \in Turn, NEW heard \in BOOLEAN, LookAt(s, t, heard)
  PROVE  Refused(s, t) \/ Attempted(s, t, heard)
<1>. USE BoundsAssumption DEF Turn
<1>1. Plan(s, t) \in States
  BY PlanIsState
<1>2. CASE ~MayAttempt(s, t)
  <2>1. s.since < Span \/ Tried(s, t)
    BY <1>2 DEF MayAttempt, Paused
  <2>. QED
    BY <1>2, <2>1 DEF LookAt, Refused
<1>3. CASE MayAttempt(s, t) /\ Thrashes(s, t)
  <2>1. state' = [Plan(s, t) EXCEPT !.open = TRUE] /\ attempted' = t
        /\ UNCHANGED <<attempts, tried>>
    BY <1>3 DEF LookAt
  <2>2. state' \in States /\ state'.open
    BY <2>1, <1>1 DEF States
  <2>3. state'.since = s.since /\ state'.last = t
    BY <2>1 DEF Plan
  <2>4. s.since < Span
    BY <1>3, BoundsAssumption DEF Thrashes, Plan, States
  <2>. QED
    BY <2>1, <2>2, <2>3, <2>4 DEF Refused
<1>4. CASE MayAttempt(s, t) /\ ~Thrashes(s, t)
  <2>1. Plan(s, t).rapid < Limit
    BY <1>1, <1>4 DEF Thrashes, States
  <2>. QED
    BY <1>4, <2>1 DEF LookAt, Attempted, MayAttempt
<1>. QED
  BY <1>2, <1>3, <1>4

-----------------------------------------------------------------------------
(* The steps.                                                              *)

\* What a step of the running turn does to the plans: nothing, or one more.
LEMMA LookKeepsPlans ==
  ASSUME TypeOK, Planned, Past, NEW s \in States, s.last <= turn,
         NEW t \in Turn, t >= turn, NEW heard \in BOOLEAN,
         turn' = t, Refused(s, t) \/ Attempted(s, t, heard)
  PROVE  /\ state' \in States /\ attempted' \in 0..MaxTurn
         /\ attempts' \subseteq Attempts /\ tried' \subseteq 1..t
         /\ Planned' /\ Past'
<1>. USE BoundsAssumption DEF TypeOK, Turn
<1>1. CASE Refused(s, t)
  BY <1>1 DEF Refused, Planned, Past, Plan, Paused, States, Attempts
<1>2. CASE Attempted(s, t, heard)
  <2>. DEFINE a == Attempt(s, t, heard)
  <2>1. Plan(s, t) \in States
    BY PlanIsState
  <2>2. a \in Attempts
    BY <2>1 DEF Attempt, Attempts
  <2>3. /\ a.plan = Plan(a.before, a.turn) /\ ~Paused(a.before)
        /\ a.plan.rapid < Limit /\ a.turn = t /\ a.before = s
    BY <1>2 DEF Attempt, Attempted
  <2>4. attempts' = attempts \cup {a} /\ tried' = tried \cup {t}
        /\ attempted' = t /\ state' = s
    BY <1>2 DEF Attempted
  <2>5. Planned'
    BY <2>3, <2>4 DEF Planned, Plan, Paused
  <2>6. Past'
    BY <2>3, <2>4 DEF Past, States, Attempts
  <2>. QED
    BY <2>2, <2>4, <2>5, <2>6
<1>. QED
  BY <1>1, <1>2

\* The opening look: a turn it skips is one of the Span - 1 that may be.
LEMMA BeginTurnKeeps ==
  ASSUME IInv, NEW over \in BOOLEAN, BeginTurn(over)
  PROVE  IInv'
<1>. USE BoundsAssumption DEF Turn
<1>. DEFINE s == NewTurn
            t == turn + 1
<1>1. t \in Turn /\ turn' = t /\ live' = TRUE /\ hears' = TRUE /\ age' = Up(age, Span)
      /\ streak' = streak /\ undone' = undone
  BY DEF BeginTurn, IInv, TypeOK
<1>2. s \in States
  BY OtherStates DEF NewTurn, IInv, TypeOK
<1>3. s.since = Up(state.since, Span) /\ s.last = state.last /\ s.rapid = state.rapid
      /\ s.open = state.open
  BY DEF NewTurn, IInv, TypeOK, States
<1>4. ~undone => s.since = age'
  BY <1>1, <1>3 DEF IInv, Aged
<1>5. ~Tried(s, t) /\ t \notin tried
  BY <1>3 DEF Tried, IInv, Past, TypeOK, States
<1>6. age' \in 0..Span
  BY <1>1, UpInRange DEF IInv, TypeOK
<1>7. CASE over
  <2>1. LookAt(s, t, TRUE)
        /\ skipped' = IF attempts' # attempts THEN 0 ELSE skipped + 1
    BY <1>7, <1>1 DEF BeginTurn
  <2>2. Refused(s, t) \/ Attempted(s, t, TRUE)
    BY <1>1, <1>2, <2>1, LookIsEither
  <2>3. /\ state' \in States /\ attempted' \in 0..MaxTurn
        /\ attempts' \subseteq Attempts /\ tried' \subseteq 1..t
        /\ Planned' /\ Past'
    <3>1. TypeOK /\ Planned /\ Past /\ s.last <= turn /\ t >= turn
      BY <1>3 DEF IInv, Past, TypeOK
    <3>. HIDE DEF s, t, TypeOK
    <3>. QED
      BY <1>1, <1>2, <2>2, <3>1, LookKeepsPlans
  <2>4. CASE Refused(s, t)
    <3>1. s.since < Span /\ skipped' = skipped + 1
      BY <2>1, <2>4, <1>5 DEF Refused
    <3>2. ~undone => skipped' <= s.since
      BY <3>1, <1>3, <1>2 DEF IInv, Aged, Up, TypeOK, States
    <3>3. state'.since = s.since
      BY <2>4 DEF Refused
    <3>4. Aged' /\ NeverOffForLong'
      BY <1>1, <1>2, <1>4, <3>1, <3>2, <3>3 DEF Aged, NeverOffForLong, States, IInv, TypeOK
    <3>5. Counted' /\ ThrashingStops'
      BY <1>1, <1>3, <2>4 DEF Refused, Counted, ThrashingStops, IInv
    <3>6. Remembered'
      BY <1>1, <1>5, <2>4 DEF Refused, Remembered
    <3>. QED
      BY <1>1, <1>6, <2>3, <3>1, <3>4, <3>5, <3>6 DEF IInv, TypeOK
  <2>5. CASE Attempted(s, t, TRUE)
    <3>1. attempts' # attempts
      <4>1. Attempt(s, t, TRUE) \notin attempts
        BY <1>5 DEF IInv, Planned, Attempt
      <4>. QED
        BY <4>1, <2>5 DEF Attempted
    <3>2. skipped' = 0 /\ state' = s
      BY <2>1, <2>5, <3>1 DEF Attempted
    <3>3. Aged' /\ NeverOffForLong'
      BY <1>1, <1>2, <1>4, <3>2 DEF Aged, NeverOffForLong, States
    <3>4. Counted' /\ ThrashingStops'
      BY <1>1, <1>3, <3>2 DEF Counted, ThrashingStops, IInv
    <3>5. Remembered'
      BY <1>1, <2>5 DEF Attempted, Remembered
    <3>. QED
      BY <1>1, <1>6, <2>3, <3>2, <3>3, <3>4, <3>5 DEF IInv, TypeOK
  <2>. QED
    BY <2>2, <2>4, <2>5
<1>8. CASE ~over
  <2>1. state' = s /\ skipped' = 0 /\ UNCHANGED <<attempted, attempts, tried>>
    BY <1>8 DEF BeginTurn
  <2>2. TypeOK'
    BY <1>1, <1>2, <1>6, <2>1 DEF IInv, TypeOK
  <2>3. Aged' /\ NeverOffForLong'
    BY <1>1, <1>2, <1>4, <2>1 DEF Aged, NeverOffForLong, States
  <2>4. Counted' /\ ThrashingStops'
    BY <1>1, <1>3, <2>1 DEF Counted, ThrashingStops, IInv
  <2>5. Planned'
    BY <2>1 DEF IInv, Planned, Plan, Paused
  <2>6. Past' /\ Remembered'
    BY <1>1, <1>3, <1>5, <2>1 DEF IInv, Past, Remembered, TypeOK, Attempts, States
  <2>. QED
    BY <2>2, <2>3, <2>4, <2>5, <2>6 DEF IInv
<1>. QED
  BY <1>7, <1>8

\* A later look of the running turn.
LEMMA LooksAgainKeeps ==
  ASSUME IInv, LooksAgain
  PROVE  IInv'
<1>. USE BoundsAssumption DEF Turn
<1>1. turn \in Turn \/ turn = 0
  BY DEF IInv, TypeOK
<1>2. UNCHANGED <<turn, live, hears, age, streak, undone>> /\ live
      /\ skipped' \in {0, skipped} /\ LookAt(state, turn, hears)
  BY DEF LooksAgain
<1>3. TypeOK /\ Planned /\ Past /\ state.last <= turn /\ state \in States
  BY DEF IInv, Past, TypeOK
<1>4. CASE turn = 0
  <2>1. state.last = turn
    BY <1>3, <1>4 DEF States
  <2>2. ~MayAttempt(state, turn)
    BY <2>1 DEF MayAttempt, Tried
  <2>3. state' = state /\ UNCHANGED <<attempted, attempts, tried>>
    BY <1>2, <2>2 DEF LookAt
  <2>. QED
    BY <1>2, <1>3, <2>3 DEF IInv, TypeOK, Aged, Counted, Planned, Plan, Paused, Past,
      Remembered, NeverOffForLong, ThrashingStops, States
<1>5. CASE turn \in Turn
  <2>1. Refused(state, turn) \/ Attempted(state, turn, hears)
    BY <1>2, <1>3, <1>5, LookIsEither DEF TypeOK
  <2>2. /\ state' \in States /\ attempted' \in 0..MaxTurn
        /\ attempts' \subseteq Attempts /\ tried' \subseteq 1..turn
        /\ Planned' /\ Past'
    <3>1. turn >= turn /\ hears \in BOOLEAN
      BY <1>3, <1>5 DEF TypeOK
    <3>. HIDE DEF TypeOK
    <3>. QED
      BY <1>2, <1>3, <1>5, <2>1, <3>1, LookKeepsPlans
  <2>3. state'.since = state.since /\ (state' = state \/ state'.open)
    BY <2>1 DEF Refused, Attempted
  <2>4. Aged' /\ NeverOffForLong'
    BY <1>2, <1>3, <2>3 DEF IInv, Aged, NeverOffForLong, TypeOK, States
  <2>5. Counted' /\ ThrashingStops'
    BY <1>2, <2>3 DEF IInv, Counted, ThrashingStops
  <2>6. Remembered'
    BY <1>2, <2>1 DEF IInv, Remembered, Refused, Attempted
  <2>. QED
    BY <1>2, <2>2, <2>4, <2>5, <2>6 DEF IInv, TypeOK
<1>. QED
  BY <1>1, <1>4, <1>5

\* Esc marks the attempts of the running turn.
LEMMA CancelKeeps ==
  ASSUME IInv, Cancel
  PROVE  IInv'
<1>. DEFINE Cut(a) == [a EXCEPT !.cut = @ \/ (a.turn = turn /\ a.hears)]
<1>1. attempts' = {Cut(a) : a \in attempts} /\ live' = FALSE
      /\ UNCHANGED <<state, attempted, turn, hears, tried, skipped, age, streak, undone>>
  BY DEF Cancel, history
<1>2. \A a \in attempts :
        /\ Cut(a) \in Attempts
        /\ Cut(a).plan = a.plan /\ Cut(a).before = a.before /\ Cut(a).turn = a.turn
  <2>1. TAKE a \in attempts
  <2>2. a \in Attempts
    BY DEF IInv, TypeOK
  <2>3. (a.cut \/ (a.turn = turn /\ a.hears)) \in BOOLEAN
    OBVIOUS
  <2>. QED
    BY <2>2, <2>3 DEF Attempts
<1>. HIDE DEF Cut
<1>3. TypeOK'
  BY <1>1, <1>2 DEF IInv, TypeOK
<1>4. Planned'
  BY <1>1, <1>2 DEF IInv, Planned, Plan, Paused
<1>5. Past' /\ Remembered'
  BY <1>1, <1>2 DEF IInv, Past, Remembered
<1>6. Aged' /\ Counted' /\ NeverOffForLong' /\ ThrashingStops'
  BY <1>1 DEF IInv, Aged, Counted, NeverOffForLong, ThrashingStops
<1>. QED
  BY <1>3, <1>4, <1>5, <1>6 DEF IInv

\* What an attempt writes is an accounting, and not one of a turn to come.
LEMMA WrittenStates ==
  ASSUME IInv, NEW a \in attempts
  PROVE  LET n == Up(a.plan.failures, MaxFailures)
             restored == [a.before EXCEPT !.failures = IF a.cut THEN @ ELSE n]
             counted == [state EXCEPT !.failures = n]
             done == [a.plan EXCEPT !.since = 0, !.failures = 0]
         IN  /\ {restored, counted, done, a.before} \subseteq States
             /\ \A s \in {restored, counted, done, a.before} : s.last <= turn
             /\ \A s \in {restored, a.before} :
                  s.since = a.before.since /\ s.open = a.before.open /\ s.rapid = a.before.rapid
             /\ counted.since = state.since /\ counted.open = state.open
             /\ counted.rapid = state.rapid
             /\ done.since = 0 /\ done.rapid = a.plan.rapid /\ ~done.open
<1>. USE BoundsAssumption
<1>. DEFINE n == Up(a.plan.failures, MaxFailures)
            restored == [a.before EXCEPT !.failures = IF a.cut THEN @ ELSE n]
            counted == [state EXCEPT !.failures = n]
            half == [a.plan EXCEPT !.since = 0]
            done == [half EXCEPT !.failures = 0]
<1>1. /\ a.before \in States /\ a.plan \in States /\ state \in States
      /\ a.before.last <= turn /\ state.last <= turn
      /\ a.plan = Plan(a.before, a.turn) /\ a.turn \in tried /\ tried \subseteq 1..turn
      /\ turn \in Nat
  BY DEF IInv, TypeOK, Planned, Past, Attempts
<1>2. n \in 0..MaxFailures
  BY <1>1, UpInRange DEF States
<1>. HIDE DEF n
<1>3. /\ restored \in States /\ restored.last = a.before.last
      /\ restored.since = a.before.since /\ restored.open = a.before.open
      /\ restored.rapid = a.before.rapid
  <2>1. CASE a.cut
    BY <1>1, <2>1 DEF States
  <2>2. CASE ~a.cut
    BY <1>1, <1>2, <2>2 DEF States
  <2>. QED
    BY <2>1, <2>2
<1>4. /\ counted \in States /\ counted.last = state.last /\ counted.since = state.since
      /\ counted.open = state.open /\ counted.rapid = state.rapid
  BY <1>1, <1>2 DEF States
<1>5. a.plan.last = a.turn /\ a.turn <= turn /\ ~a.plan.open
  <2>1. Plan(a.before, a.turn).last = a.turn /\ ~Plan(a.before, a.turn).open
    BY DEF Plan
  <2>2. a.turn \in 1..turn
    BY <1>1
  <2>. QED
    BY <1>1, <2>1, <2>2
<1>6. half \in States /\ half.last = a.plan.last /\ half.open = a.plan.open
      /\ half.rapid = a.plan.rapid /\ half.since = 0
  BY <1>1 DEF States
<1>. HIDE DEF half
<1>7. done \in States /\ done.last = half.last /\ done.open = half.open
      /\ done.rapid = half.rapid /\ done.since = half.since
  BY <1>6 DEF States
<1>. HIDE DEF done, restored, counted
<1>8. /\ {restored, counted, done, a.before} \subseteq States
      /\ \A s \in {restored, counted, done, a.before} : s.last <= turn
      /\ \A s \in {restored, a.before} :
           s.since = a.before.since /\ s.open = a.before.open /\ s.rapid = a.before.rapid
      /\ counted.since = state.since /\ counted.open = state.open
      /\ counted.rapid = state.rapid
      /\ done.since = 0 /\ done.rapid = a.plan.rapid /\ ~done.open
  BY <1>1, <1>3, <1>4, <1>5, <1>6, <1>7
<1>. QED
  BY <1>8 DEF done, half, restored, counted, n

\* The end of an attempt, but for what its success counts.
LEMMA EndKeepsRest ==
  ASSUME IInv, NEW a \in attempts, Ends(a)
  PROVE  TypeOK' /\ Planned' /\ Past' /\ Remembered'
<1>. USE BoundsAssumption
<1>1. /\ attempts' = attempts \ {a}
      /\ UNCHANGED <<attempted, turn, live, hears, tried>>
      /\ undone' = (undone \/ state # a.before)
  BY DEF Ends, Succeeds, SummaryEmpty, SummaryFails, BoundaryFails, Overwrites
<1>2. state' \in States /\ state'.last <= turn
  BY WrittenStates DEF Ends, Succeeds, SummaryEmpty, SummaryFails, BoundaryFails
<1>3. /\ skipped' \in {0, skipped} /\ age' \in {0, age}
      /\ streak' \in {0, streak, Up(streak, Limit)}
  BY DEF Ends, Succeeds, SummaryEmpty, SummaryFails, BoundaryFails, Compacted
<1>4. Up(streak, Limit) \in 0..Limit
  BY UpInRange DEF IInv, TypeOK
<1>5. TypeOK'
  BY <1>1, <1>2, <1>3, <1>4 DEF IInv, TypeOK
<1>6. Planned'
  BY <1>1 DEF IInv, Planned, Plan, Paused
<1>7. Past' /\ Remembered'
  BY <1>1, <1>2 DEF IInv, Past, Remembered
<1>. QED
  BY <1>5, <1>6, <1>7

\* A compaction counts in the streak what its plan counted, and a plan below
\* the limit was needed to make it.
LEMMA SucceedsKeeps ==
  ASSUME IInv, NEW a \in attempts, Succeeds(a)
  PROVE  IInv'
<1>. USE BoundsAssumption
<1>1. TypeOK' /\ Planned' /\ Past' /\ Remembered'
  BY EndKeepsRest DEF Ends
<1>2. /\ skipped' = 0 /\ age' = 0 /\ undone' = (undone \/ state # a.before)
      /\ streak' = IF age < Span THEN Up(streak, Limit) ELSE 0
  BY DEF Succeeds, Compacted, Overwrites
<1>3. state'.since = 0 /\ state'.rapid = a.plan.rapid /\ ~state'.open
  BY WrittenStates DEF Succeeds
<1>4. Aged' /\ NeverOffForLong'
  BY <1>2, <1>3 DEF Aged, NeverOffForLong
<1>5. a.plan \in States /\ a.plan.rapid < Limit /\ a.plan.rapid \in Nat
  BY DEF IInv, TypeOK, Planned, Attempts, States
<1>6. ASSUME ~undone' PROVE streak' <= a.plan.rapid
  <2>1. state = a.before /\ ~undone /\ state.since = age
    BY <1>2, <1>6 DEF IInv, Aged
  <2>2. CASE age >= Span
    BY <1>2, <1>5, <2>2 DEF IInv, TypeOK
  <2>3. CASE age < Span
    <3>1. ~state.open
      BY <2>1, <2>3 DEF IInv, Planned, Paused
    <3>2. streak <= state.rapid
      BY <2>1, <3>1 DEF IInv, Counted
    <3>3. a.plan.rapid = Up(state.rapid, Limit)
      <4>1. a.plan = Plan(state, a.turn)
        BY <2>1 DEF IInv, Planned
      <4>2. Plan(state, a.turn).rapid = Up(state.rapid, Limit)
        BY <2>1, <2>3 DEF Plan
      <4>. QED
        BY <4>1, <4>2
    <3>4. state.rapid \in 0..Limit /\ streak \in 0..Limit
      BY DEF IInv, TypeOK, States
    <3>. QED
      BY <1>2, <2>3, <3>2, <3>3, <3>4 DEF Up
  <2>. QED
    BY <2>2, <2>3 DEF IInv, TypeOK
<1>7. Counted' /\ ThrashingStops'
  BY <1>1, <1>3, <1>5, <1>6 DEF Counted, ThrashingStops, TypeOK
<1>. QED
  BY <1>1, <1>4, <1>7 DEF IInv

\* An attempt that fails leaves what it saw, but for the failures.
LEMMA FailsKeeps ==
  ASSUME IInv, NEW a \in attempts,
         SummaryEmpty(a) \/ SummaryFails(a) \/ BoundaryFails(a)
  PROVE  IInv'
<1>1. TypeOK' /\ Planned' /\ Past' /\ Remembered'
  BY EndKeepsRest DEF Ends
<1>2. UNCHANGED <<skipped, age, streak>> /\ undone' = (undone \/ state # a.before)
  BY DEF SummaryEmpty, SummaryFails, BoundaryFails, Overwrites
<1>3. ~undone' => /\ state'.since = state.since /\ state'.open = state.open
                  /\ state'.rapid = state.rapid
  BY <1>2, WrittenStates DEF SummaryEmpty, SummaryFails, BoundaryFails
<1>4. Aged' /\ NeverOffForLong' /\ Counted' /\ ThrashingStops'
  BY <1>2, <1>3 DEF IInv, Aged, NeverOffForLong, Counted, ThrashingStops
<1>. QED
  BY <1>1, <1>4 DEF IInv

\* A compaction by hand starts every count anew.
LEMMA ByHandKeeps ==
  ASSUME IInv, CompactsByHand \/ \E succeeds \in BOOLEAN : CompactsOnOverflow(succeeds)
  PROVE  IInv'
<1>. USE BoundsAssumption
<1>1. /\ UNCHANGED <<attempted, attempts, turn, live, tried>> /\ hears' \in BOOLEAN
      /\ \/ UNCHANGED <<state, skipped, age, streak, undone>>
         \/ state' = ByHand(state) /\ skipped' = 0 /\ age' = 0 /\ streak' = 0 /\ ~undone'
            /\ undone' \in BOOLEAN
  BY DEF CompactsByHand, CompactsOnOverflow, Compacted, IInv, TypeOK
<1>2. CASE UNCHANGED <<state, skipped, age, streak, undone>>
  BY <1>1, <1>2 DEF IInv, TypeOK, Aged, Counted, Planned, Plan, Paused, Past, Remembered,
    NeverOffForLong, ThrashingStops
<1>3. CASE state' = ByHand(state) /\ skipped' = 0 /\ age' = 0 /\ streak' = 0 /\ ~undone'
           /\ undone' \in BOOLEAN
  <2>1. state \in States /\ ByHand(state) \in States
    BY OtherStates DEF IInv, TypeOK
  <2>2. ByHand(state).since = 0 /\ ByHand(state).rapid = 0 /\ ByHand(state).last = state.last
    BY <2>1 DEF ByHand, States
  <2>3. TypeOK'
    BY <1>1, <1>3, <2>1 DEF IInv, TypeOK
  <2>4. Planned' /\ Past' /\ Remembered'
    BY <1>1, <1>3, <2>2 DEF IInv, Planned, Plan, Paused, Past, Remembered
  <2>5. Aged' /\ Counted' /\ NeverOffForLong' /\ ThrashingStops'
    BY <1>3, <2>2 DEF Aged, Counted, NeverOffForLong, ThrashingStops
  <2>. QED
    BY <2>3, <2>4, <2>5 DEF IInv
<1>. QED
  BY <1>1, <1>2, <1>3

\* A new conversation starts from nothing.
LEMMA ClearKeeps ==
  ASSUME IInv, Clear
  PROVE  IInv'
<1>. USE BoundsAssumption
<1>1. /\ state' = FreshState /\ attempted' = 0 /\ attempts' = {} /\ skipped' = 0
      /\ age' = Span /\ streak' = 0 /\ undone' = FALSE /\ live' = FALSE
      /\ UNCHANGED <<turn, hears, tried>>
  BY DEF Clear, NoTurn, IInv, TypeOK
<1>2. FreshState \in States /\ FreshState.last = 0 /\ FreshState.since = Span
      /\ FreshState.rapid = 0
  BY DEF States, FreshState, NoTurn
<1>3. TypeOK'
  <2>1. /\ state' \in States /\ attempts' \subseteq Attempts /\ live' \in BOOLEAN
        /\ undone' \in BOOLEAN
    BY <1>1, <1>2
  <2>2. turn' \in 0..MaxTurn /\ hears' \in BOOLEAN /\ tried' \subseteq 1..turn'
    BY <1>1 DEF IInv, TypeOK
  <2>3. attempted' \in 0..MaxTurn /\ skipped' \in Nat /\ age' \in 0..Span
        /\ streak' \in 0..Limit
    BY <1>1
  <2>. QED
    BY <2>1, <2>2, <2>3 DEF TypeOK
<1>4. Planned' /\ Past' /\ Remembered'
  BY <1>1, <1>2 DEF Planned, Past, Remembered, IInv, TypeOK
<1>5. Aged' /\ Counted' /\ NeverOffForLong' /\ ThrashingStops'
  BY <1>1, <1>2 DEF Aged, Counted, NeverOffForLong, ThrashingStops
<1>. QED
  BY <1>3, <1>4, <1>5 DEF IInv

\* Nothing else touches the accounting.
LEMMA EndTurnKeeps ==
  ASSUME IInv, EndTurn \/ UNCHANGED vars
  PROVE  IInv'
<1>1. UNCHANGED <<state, attempted, attempts, turn, hears, tried, skipped, age, streak, undone>>
      /\ live' \in BOOLEAN /\ (live' => live)
  <2>1. CASE EndTurn
    BY <2>1 DEF EndTurn, history
  <2>2. CASE UNCHANGED vars
    BY <2>2 DEF vars, history, IInv, TypeOK
  <2>. QED
    BY <2>1, <2>2
<1>2. TypeOK' /\ Remembered'
  BY <1>1 DEF IInv, TypeOK, Remembered
<1>3. Aged' /\ Counted' /\ NeverOffForLong' /\ ThrashingStops'
  BY <1>1 DEF IInv, Aged, Counted, NeverOffForLong, ThrashingStops
<1>4. Planned' /\ Past'
  BY <1>1 DEF IInv, Planned, Plan, Paused, Past
<1>. QED
  BY <1>2, <1>3, <1>4 DEF IInv

\* A session begins with nothing counted.
LEMMA InitHolds == Init => IInv
<1>. SUFFICES ASSUME Init PROVE IInv
  OBVIOUS
<1>. USE BoundsAssumption DEF Init, NoTurn
<1>1. FreshState \in States /\ FreshState.last = 0 /\ FreshState.since = Span
      /\ FreshState.rapid = 0
  BY DEF States, FreshState
<1>2. TypeOK
  <2>1. state \in States /\ attempts \subseteq Attempts /\ tried \subseteq 1..turn
        /\ live \in BOOLEAN /\ hears \in BOOLEAN /\ undone \in BOOLEAN
    BY <1>1
  <2>2. attempted \in 0..MaxTurn /\ turn \in 0..MaxTurn /\ skipped \in Nat
        /\ age \in 0..Span /\ streak \in 0..Limit
    OBVIOUS
  <2>. QED
    BY <2>1, <2>2 DEF TypeOK
<1>3. Aged /\ Counted /\ NeverOffForLong /\ ThrashingStops
  BY <1>1 DEF Aged, Counted, NeverOffForLong, ThrashingStops
<1>4. Planned /\ Past /\ Remembered
  BY <1>1 DEF Planned, Past, Remembered
<1>. QED
  BY <1>2, <1>3, <1>4 DEF IInv

\* The invariant is inductive.
LEMMA StepKeeps == IInv /\ [Next]_vars => IInv'
<1>. SUFFICES ASSUME IInv, [Next]_vars PROVE IInv'
  OBVIOUS
<1>1. ASSUME NEW over \in BOOLEAN, BeginTurn(over) PROVE IInv'
  BY <1>1, BeginTurnKeeps
<1>2. CASE LooksAgain
  BY <1>2, LooksAgainKeeps
<1>3. CASE Cancel
  BY <1>3, CancelKeeps
<1>4. ASSUME NEW a \in attempts, Ends(a) PROVE IInv'
  BY <1>4, SucceedsKeeps, FailsKeeps DEF Ends
<1>5. CASE CompactsByHand \/ \E succeeds \in BOOLEAN : CompactsOnOverflow(succeeds)
  BY <1>5, ByHandKeeps
<1>6. CASE Clear
  BY <1>6, ClearKeeps
<1>7. CASE EndTurn \/ UNCHANGED vars
  BY <1>7, EndTurnKeeps
<1>. QED
  BY <1>1, <1>2, <1>3, <1>4, <1>5, <1>6, <1>7 DEF Next

\* It holds.
LEMMA InvHolds == Spec => []IInv
  BY InitHolds, StepKeeps, PTL DEF Spec

-----------------------------------------------------------------------------
(* The theorems.                                                           *)

\* The accounting keeps its shape, whatever stopped turns still write.
THEOREM TypeCorrect == Spec => []TypeOK
<1>1. IInv => TypeOK
  BY DEF IInv
<1>. QED
  BY <1>1, InvHolds, PTL

\* However its summaries end, auto-compaction is back within Span turns.
THEOREM AutoCompactionComesBack == Spec => []NeverOffForLong
<1>1. IInv => NeverOffForLong
  BY DEF IInv
<1>. QED
  BY <1>1, InvHolds, PTL

\* A context that refills at once is compacted less than Limit times in a row.
THEOREM RapidRefillStops == Spec => []ThrashingStops
<1>1. IInv => ThrashingStops
  BY DEF IInv
<1>. QED
  BY <1>1, InvHolds, PTL

\* An attempt is new in its turn: no step of a turn that made one adds another.
LEMMA NewAttemptIsFirst ==
  ASSUME IInv, [Next]_vars
  PROVE  \A a \in attempts' \ attempts : a.cut \/ a.turn \notin tried
<1>. USE BoundsAssumption DEF Turn
<1>1. ASSUME NEW s \in States, NEW t \in Turn, NEW heard \in BOOLEAN,
             LookAt(s, t, heard), t \in tried => attempted = t
      PROVE  \A a \in attempts' \ attempts : a.cut \/ a.turn \notin tried
  <2>1. Refused(s, t) \/ Attempted(s, t, heard)
    BY <1>1, LookIsEither
  <2>2. Attempt(s, t, heard).turn = t
    BY DEF Attempt
  <2>. QED
    BY <1>1, <2>1, <2>2 DEF Refused, Attempted, Tried
<1>2. ASSUME NEW over \in BOOLEAN, BeginTurn(over)
      PROVE  \A a \in attempts' \ attempts : a.cut \/ a.turn \notin tried
  <2>1. turn + 1 \in Turn /\ turn' = turn + 1 /\ turn + 1 \notin tried /\ NewTurn \in States
    BY <1>2, OtherStates DEF BeginTurn, IInv, TypeOK, NewTurn
  <2>2. LookAt(NewTurn, turn + 1, TRUE) \/ attempts' = attempts
    BY <1>2, <2>1 DEF BeginTurn
  <2>. QED
    BY <1>1, <2>1, <2>2
<1>3. CASE LooksAgain
  <2>1. LookAt(state, turn, hears) /\ state \in States /\ hears \in BOOLEAN
        /\ (turn \in tried => attempted = turn)
    BY <1>3 DEF LooksAgain, IInv, TypeOK, Remembered
  <2>2. CASE turn \in Turn
    BY <1>1, <2>1, <2>2
  <2>3. CASE turn = 0
    <3>1. state.last = turn
      BY <2>1, <2>3 DEF IInv, Past, States
    <3>2. attempts' = attempts
      BY <2>1, <3>1 DEF LookAt, MayAttempt, Tried
    <3>. QED
      BY <3>2
  <2>. QED
    BY <2>2, <2>3 DEF IInv, TypeOK
<1>4. CASE Cancel
  <2>1. TAKE a \in attempts' \ attempts
  <2>2. PICK b \in attempts : a = [b EXCEPT !.cut = @ \/ (b.turn = turn /\ b.hears)]
    BY <1>4 DEF Cancel
  <2>3. b \in Attempts
    BY DEF IInv, TypeOK
  <2>4. CASE b.turn = turn /\ b.hears
    BY <2>2, <2>3, <2>4 DEF Attempts
  <2>5. CASE ~(b.turn = turn /\ b.hears)
    <3>1. a = b
      BY <2>2, <2>3, <2>5 DEF Attempts
    <3>. QED
      BY <3>1
  <2>. QED
    BY <2>4, <2>5
<1>5. ASSUME NEW a \in attempts, Ends(a) PROVE attempts' \subseteq attempts
  BY <1>5 DEF Ends, Succeeds, SummaryEmpty, SummaryFails, BoundaryFails
<1>6. CASE EndTurn \/ CompactsByHand \/ (\E succeeds \in BOOLEAN : CompactsOnOverflow(succeeds))
           \/ Clear \/ UNCHANGED vars
  BY <1>6 DEF EndTurn, CompactsByHand, CompactsOnOverflow, Clear, vars
<1>. QED
  BY <1>2, <1>3, <1>4, <1>5, <1>6 DEF Next

\* A turn pays for one summary, whatever the first one did to the accounting.
THEOREM OneAttemptPerTurn == Spec => AttemptsOncePerTurn
<1>1. IInv /\ [Next]_vars =>
        [\A a \in attempts' \ attempts : a.cut \/ a.turn \notin tried]_vars
  BY NewAttemptIsFirst
<1>. QED
  BY <1>1, InvHolds, PTL DEF Spec, AttemptsOncePerTurn

=============================================================================
