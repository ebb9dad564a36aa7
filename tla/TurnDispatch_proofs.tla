------------------------- MODULE TurnDispatch_proofs -------------------------
(***************************************************************************)
(* The safety of the turn guard for every set of inputs, call chains and   *)
(* features. The argument follows the guard, not the paths: every path is  *)
(* a sequence of a few moves (a job leaves, settles, reserves, releases,   *)
(* begins, is stopped), and each move keeps what Safe says of a guard and  *)
(* the jobs around it. Two facts the properties do not state are needed:   *)
(* no turn holds a generation the guard has not reached, so a new one is   *)
(* new; and a turn without a generation never owns the guard.              *)
(***************************************************************************)
EXTENDS TurnDispatch, TLAPS

GuardType == [state : {"idle", "dispatching", "running"}, gen : Nat]
JobType == [pc : Pcs, carries : SUBSET Inputs, gen : Nat,
            hold : {"none", "finally", "driver"}, cancelled : BOOLEAN]
QueueType == [messages : SUBSET Inputs, commands : Seq(Inputs)]

Held(g, js) == g.state # "idle" => \E j \in Jobs : Holds(js[j], g)
Serial(g, js) ==
    \A j \in Jobs : js[j].pc \in Turning /\ js[j].gen # 0 =>
        /\ \A k \in Jobs \ {j} : js[k].pc \in Turning => js[k].gen # js[j].gen
        /\ ~Settles(g, js[j].gen) => js[j].cancelled
\* No turn is ahead of the guard.
Bounded(g, js) == \A j \in Jobs : js[j].pc \in Turning => js[j].gen <= g.gen
\* Generation 0 stands for "none": no running guard has it, no slash job owns one.
NoneIsZero(g, js) ==
    /\ g.state = "running" => g.gen # 0
    /\ \A j \in Jobs : js[j].pc = "slash" => js[j].gen = 0

Safe(g, js) == Held(g, js) /\ Serial(g, js) /\ Bounded(g, js) /\ NoneIsZero(g, js)

IInv == TypeOK /\ Safe(guard, job)

----------------------------------------------------------------------------
(* What the operators return *)

LEMMA GuardTypes ==
    ASSUME NEW g \in GuardType, NEW n \in Nat
    PROVE  /\ Dispatching(g) \in GuardType
           /\ Begun(g) \in GuardType
           /\ Released(g) \in GuardType
           /\ Settled(g, n) \in GuardType
           /\ Aborted(g) \in GuardType
BY DEF GuardType, Dispatching, Begun, Released, Settled, Settles, Aborted

LEMMA JobTypes ==
    /\ Idle \in JobType
    /\ \A pc \in Pcs, inputs \in SUBSET Inputs, gen \in Nat, hold \in {"none", "finally", "driver"} :
         At(pc, inputs, gen, hold) \in JobType
BY DEF JobType, Idle, At, Pcs

LEMMA QueueTypes ==
    /\ Empty \in QueueType
    /\ \A q \in QueueType :
         /\ Drained(q) \in QueueType
         /\ \A i \in Inputs : Pushed(q, i) \in QueueType
         /\ q # Empty => Rest(q) \in QueueType
         /\ q # Empty /\ q.messages = {} => Head(q.commands) \in Inputs
<1>1. Empty \in QueueType
  BY DEF Empty, QueueType
<1>2. ASSUME NEW q \in QueueType
      PROVE  /\ Drained(q) \in QueueType
             /\ \A i \in Inputs : Pushed(q, i) \in QueueType
  <2>1. Drained(q) \in QueueType
    BY DEF Drained, QueueType
  <2>2. ASSUME NEW i \in Inputs
        PROVE  Pushed(q, i) \in QueueType
    <3>1. q.commands \in Seq(Inputs) /\ q.messages \in SUBSET Inputs
      BY DEF QueueType
    <3>2. Append(q.commands, i) \in Seq(Inputs)
      BY <3>1
    <3> QED
      BY <3>1, <3>2 DEF Pushed, QueueType
  <2> QED
    BY <2>1, <2>2
<1>3. ASSUME NEW q \in QueueType, q # Empty, q.messages = {}
      PROVE  q.commands # <<>>
  BY <1>3 DEF QueueType, Empty
<1>4. ASSUME NEW q \in QueueType, q # Empty
      PROVE  Rest(q) \in QueueType
  <2>1. CASE q.messages # {}
    BY <1>2, <2>1 DEF Rest
  <2>2. CASE q.messages = {}
    <3>1. Tail(q.commands) \in Seq(Inputs)
      BY <1>3, <1>4, <2>2 DEF QueueType
    <3> QED
      BY <2>2, <3>1 DEF Rest, QueueType
  <2> QED
    BY <2>1, <2>2
<1>5. ASSUME NEW q \in QueueType, q # Empty, q.messages = {}
      PROVE  Head(q.commands) \in Inputs
  <2>1. q.commands \in Seq(Inputs)
    BY DEF QueueType
  <2> QED
    BY <1>3, <1>5, <2>1
<1> QED
  BY <1>1, <1>2, <1>4, <1>5

LEMMA SlashTypes ==
    ASSUME NEW i \in Inputs, NEW g \in GuardType, NEW q \in QueueType
    PROVE  /\ HandleSlash(i, g, q).guard \in GuardType
           /\ HandleSlash(i, g, q).queue \in QueueType
           /\ HandleSlash(i, g, q).running \in BOOLEAN
           /\ HandleSlash(i, g, q).job \in JobType
<1>1. At("slash", {i}, 0, "none") \in JobType
  BY JobTypes DEF Pcs
<1>2. g.gen + 1 \in Nat
  BY DEF GuardType
<1>3. At("compact", {i}, g.gen + 1, "none") \in JobType
  BY <1>2, JobTypes DEF Pcs, Turning
<1> QED
  BY <1>1, <1>3, GuardTypes, QueueTypes, JobTypes DEF HandleSlash

LEMMA TurnTypes ==
    ASSUME NEW g \in GuardType, NEW k \in JobType, NEW pc \in Turning
    PROVE  LET turn == [k EXCEPT !.pc = pc, !.gen = g.gen + 1]
           IN  turn \in JobType /\ turn.pc \in Turning /\ turn.gen = g.gen + 1
<1> DEFINE turn == [k EXCEPT !.pc = pc, !.gen = g.gen + 1]
<1>1. g.gen + 1 \in Nat /\ pc \in Pcs
  BY DEF GuardType, Pcs
<1>2. turn \in JobType
  BY <1>1 DEF JobType
<1>3. turn.pc = pc /\ turn.gen = g.gen + 1
  BY DEF JobType
<1> QED
  BY <1>2, <1>3

----------------------------------------------------------------------------
(* The moves *)

\* A job that does not hold the guard goes anywhere but into a turn.
LEMMA Leaves ==
    ASSUME NEW g \in GuardType, NEW js \in [Jobs -> JobType], NEW j \in Jobs, NEW k \in JobType,
           Safe(g, js), ~Holds(js[j], g), k.pc \notin Turning, k.pc = "slash" => k.gen = 0
    PROVE  Safe(g, [js EXCEPT ![j] = k])
<1> DEFINE after == [js EXCEPT ![j] = k]
<1>1. Held(g, after)
  BY DEF Safe, Held
<1>2. Serial(g, after) /\ Bounded(g, after)
  BY DEF Safe, Serial, Bounded
<1>3. NoneIsZero(g, after)
  BY DEF Safe, NoneIsZero
<1> QED
  BY <1>1, <1>2, <1>3 DEF Safe

\* A turn ends: it settles the guard if it still owns it.
LEMMA Ends ==
    ASSUME NEW g \in GuardType, NEW js \in [Jobs -> JobType], NEW j \in Jobs, NEW k \in JobType,
           Safe(g, js), js[j].pc \in Turning, k.pc \notin Turning, k.pc = "slash" => k.gen = 0
    PROVE  Safe(Settled(g, js[j].gen), [js EXCEPT ![j] = k])
<1> DEFINE after == [js EXCEPT ![j] = k]
<1>1. CASE ~Settles(g, js[j].gen)
  <2>1. ~Holds(js[j], g)
    BY <1>1 DEF Holds, Settles, Turning
  <2>2. Settled(g, js[j].gen) = g
    BY <1>1 DEF Settled
  <2> QED
    BY <2>1, <2>2, Leaves
<1>2. CASE Settles(g, js[j].gen)
  <2> DEFINE idle == Settled(g, js[j].gen)
  <2>1. idle.state = "idle" /\ idle.gen = g.gen
    BY <1>2 DEF Settled, GuardType
  <2>2. js[j].gen = g.gen /\ g.gen # 0
    BY <1>2 DEF Settles, Safe, NoneIsZero
  <2>3. Held(idle, after)
    BY <2>1 DEF Held
  <2>4. Serial(idle, after)
    <3> SUFFICES ASSUME NEW i \in Jobs, after[i].pc \in Turning, after[i].gen # 0
                 PROVE  /\ \A h \in Jobs \ {i} : after[h].pc \in Turning => after[h].gen # after[i].gen
                        /\ after[i].cancelled
      BY DEF Serial
    <3>1. i # j /\ after[i] = js[i]
      OBVIOUS
    <3>2. js[i].gen # js[j].gen
      BY <3>1, <2>2 DEF Safe, Serial
    <3>3. ~Settles(g, js[i].gen)
      BY <3>2, <2>2 DEF Settles
    <3> QED
      BY <3>1, <3>3 DEF Safe, Serial
  <2>5. Bounded(idle, after)
    BY <2>1 DEF Safe, Bounded
  <2>6. NoneIsZero(idle, after)
    BY <2>1 DEF Safe, NoneIsZero
  <2> QED
    BY <2>3, <2>4, <2>5, <2>6 DEF Safe
<1> QED
  BY <1>1, <1>2

\* A job reserves or claims a guard that no turn has.
LEMMA Reserves ==
    ASSUME NEW g \in GuardType, NEW js \in [Jobs -> JobType], NEW j \in Jobs, NEW k \in JobType,
           Safe(g, js), g.state # "running",
           k.pc = "claimed" \/ (k.pc = "hooks" /\ k.hold # "none")
    PROVE  Safe(Dispatching(g), [js EXCEPT ![j] = k])
<1> DEFINE after == [js EXCEPT ![j] = k]
           held == Dispatching(g)
<1>1. held.state = "dispatching" /\ held.gen = g.gen
  BY DEF Dispatching, GuardType
<1>2. k.pc \notin Turning /\ k.pc # "slash"
  BY DEF Turning
<1>3. Held(held, after)
  <2>1. Holds(after[j], held)
    BY <1>1 DEF Holds
  <2> QED
    BY <2>1 DEF Held
<1>4. Serial(held, after)
  BY <1>1, <1>2 DEF Safe, Serial, Settles
<1>5. Bounded(held, after) /\ NoneIsZero(held, after)
  BY <1>1, <1>2 DEF Safe, Bounded, NoneIsZero
<1> QED
  BY <1>3, <1>4, <1>5 DEF Safe

\* A job that is not in a turn gives a reservation back.
LEMMA Releases ==
    ASSUME NEW g \in GuardType, NEW js \in [Jobs -> JobType], NEW j \in Jobs, NEW k \in JobType,
           Safe(g, js), js[j].pc \notin Turning, k.pc \notin Turning, k.pc = "slash" => k.gen = 0
    PROVE  Safe(Released(g), [js EXCEPT ![j] = k])
<1> DEFINE after == [js EXCEPT ![j] = k]
<1>1. CASE g.state # "dispatching"
  <2>1. ~Holds(js[j], g)
    BY <1>1 DEF Holds
  <2>2. Released(g) = g
    BY <1>1 DEF Released
  <2> QED
    BY <2>1, <2>2, Leaves
<1>2. CASE g.state = "dispatching"
  <2> DEFINE idle == Released(g)
  <2>1. idle.state = "idle" /\ idle.gen = g.gen
    BY <1>2 DEF Released, GuardType
  <2>2. Held(idle, after)
    BY <2>1 DEF Held
  <2>3. Serial(idle, after)
    BY <1>2, <2>1 DEF Safe, Serial, Settles
  <2>4. Bounded(idle, after) /\ NoneIsZero(idle, after)
    BY <2>1 DEF Safe, Bounded, NoneIsZero
  <2> QED
    BY <2>2, <2>3, <2>4 DEF Safe
<1> QED
  BY <1>1, <1>2

\* A job begins a turn: its generation is one nobody has, and every turn before
\* it had been stopped.
LEMMA Begins ==
    ASSUME NEW g \in GuardType, NEW js \in [Jobs -> JobType], NEW j \in Jobs, NEW k \in JobType,
           Safe(g, js), CanBegin(g), k.pc \in Turning, k.gen = g.gen + 1
    PROVE  Safe(Begun(g), [js EXCEPT ![j] = k])
<1> DEFINE after == [js EXCEPT ![j] = k]
           run == Begun(g)
<1>1. run.state = "running" /\ run.gen = g.gen + 1 /\ g.gen \in Nat
  BY DEF Begun, GuardType
<1>2. k.pc # "slash"
  BY DEF Turning
<1>3. \A i \in Jobs \ {j} : after[i] = js[i] /\ js[i].gen \in Nat
  BY DEF JobType
<1>4. after[j] = k
  OBVIOUS
<1>5. \A i \in Jobs \ {j} : js[i].pc \in Turning => js[i].gen <= g.gen
  BY DEF Safe, Bounded
<1>6. Held(run, after)
  <2>1. Holds(after[j], run)
    BY <1>1, <1>4 DEF Holds
  <2> QED
    BY <2>1 DEF Held
<1>7. Serial(run, after)
  <2> SUFFICES ASSUME NEW i \in Jobs, after[i].pc \in Turning, after[i].gen # 0
               PROVE  /\ \A h \in Jobs \ {i} : after[h].pc \in Turning => after[h].gen # after[i].gen
                      /\ ~Settles(run, after[i].gen) => after[i].cancelled
    BY DEF Serial
  <2>1. CASE i = j
    BY <1>1, <1>3, <1>4, <1>5, <2>1 DEF Settles
  <2>2. CASE i # j
    <3>1. js[i].cancelled
      BY <1>3, <2>2 DEF Safe, Serial, Settles, CanBegin
    <3>2. \A h \in Jobs \ {i} : after[h].pc \in Turning => after[h].gen # after[i].gen
      <4> SUFFICES ASSUME NEW h \in Jobs \ {i}, after[h].pc \in Turning
                   PROVE  after[h].gen # after[i].gen
        OBVIOUS
      <4>1. CASE h = j
        BY <1>1, <1>3, <1>4, <1>5, <2>2, <4>1
      <4>2. CASE h # j
        BY <1>3, <2>2, <4>2 DEF Safe, Serial
      <4> QED
        BY <4>1, <4>2
    <3> QED
      BY <3>1, <3>2, <1>3, <2>2
  <2> QED
    BY <2>1, <2>2
<1>8. Bounded(run, after)
  BY <1>1, <1>3, <1>4, <1>5 DEF Bounded
<1>9. NoneIsZero(run, after)
  BY <1>1, <1>2 DEF Safe, NoneIsZero
<1> QED
  BY <1>6, <1>7, <1>8, <1>9 DEF Safe

\* The user's stop: who held the guard is marked, nobody holds it any more.
LEMMA Stops ==
    ASSUME guard \in GuardType, job \in [Jobs -> JobType], Safe(guard, job)
    PROVE  /\ Stopped \in [Jobs -> JobType]
           /\ Safe(Aborted(guard), Stopped)
           /\ \A j \in Jobs : Stopped[j].pc = job[j].pc /\ ~Holds(Stopped[j], Aborted(guard))
<1> DEFINE idle == Aborted(guard)
<1>1. Stopped \in [Jobs -> JobType]
  BY DEF Stopped, JobType
<1>2. \A j \in Jobs : /\ Stopped[j].pc = job[j].pc
                      /\ Stopped[j].gen = job[j].gen
                      /\ Holds(job[j], guard) => Stopped[j].cancelled
                      /\ job[j].cancelled => Stopped[j].cancelled
  BY DEF Stopped, JobType
<1>3. idle.state = "idle" /\ idle.gen \in Nat /\ guard.gen \in Nat /\ idle.gen >= guard.gen
  BY DEF Aborted, GuardType
<1>4. Held(idle, Stopped)
  BY <1>3 DEF Held
<1>5. Serial(idle, Stopped)
  <2> SUFFICES ASSUME NEW j \in Jobs, Stopped[j].pc \in Turning, Stopped[j].gen # 0
               PROVE  /\ \A k \in Jobs \ {j} : Stopped[k].pc \in Turning => Stopped[k].gen # Stopped[j].gen
                      /\ Stopped[j].cancelled
    BY DEF Serial
  <2>1. \A k \in Jobs \ {j} : Stopped[k].pc \in Turning => Stopped[k].gen # Stopped[j].gen
    BY <1>2 DEF Safe, Serial
  <2>2. Settles(guard, job[j].gen) => Holds(job[j], guard)
    BY <1>2 DEF Settles, Holds
  <2> QED
    BY <1>2, <2>1, <2>2 DEF Safe, Serial
<1>6. Bounded(idle, Stopped)
  <2>1. \A j \in Jobs : job[j].gen \in Nat
    BY DEF JobType
  <2> QED
    BY <1>2, <1>3, <2>1 DEF Safe, Bounded
<1>7. NoneIsZero(idle, Stopped)
  BY <1>2, <1>3 DEF Safe, NoneIsZero
<1>8. \A j \in Jobs : ~Holds(Stopped[j], idle)
  BY <1>3 DEF Holds
<1> QED
  BY <1>1, <1>2, <1>4, <1>5, <1>6, <1>7, <1>8 DEF Safe

\* A slash command, run by a job that does not hold the guard.
LEMMA SlashStarts ==
    ASSUME NEW g \in GuardType, NEW js \in [Jobs -> JobType], NEW j \in Jobs,
           NEW i \in Inputs, NEW q \in QueueType,
           Safe(g, js), ~Holds(js[j], g)
    PROVE  Safe(HandleSlash(i, g, q).guard, [js EXCEPT ![j] = HandleSlash(i, g, q).job])
<1> DEFINE done == HandleSlash(i, g, q)
<1>1. done.job \in JobType
  BY SlashTypes
<1>2. CASE Kind[i] # "compact"
  <2>1. done.guard = g /\ done.job = At("slash", {i}, 0, "none")
    BY <1>2 DEF HandleSlash
  <2>2. done.job.pc \notin Turning /\ done.job.gen = 0
    BY <2>1 DEF At, Turning
  <2> QED
    BY <1>1, <2>1, <2>2, Leaves
<1>3. CASE Kind[i] = "compact" /\ CanBegin(g)
  <2>1. done.guard = Begun(g) /\ done.job = At("compact", {i}, g.gen + 1, "none")
    BY <1>3 DEF HandleSlash
  <2>2. done.job.pc \in Turning /\ done.job.gen = g.gen + 1
    BY <2>1 DEF At, Turning
  <2> QED
    BY <1>1, <1>3, <2>1, <2>2, Begins
<1>4. CASE Kind[i] = "compact" /\ ~CanBegin(g)
  <2>1. done.guard = g /\ done.job = Idle
    BY <1>4 DEF HandleSlash
  <2>2. done.job.pc \notin Turning /\ done.job.pc # "slash"
    BY <2>1 DEF Idle, Turning
  <2> QED
    BY <1>1, <2>1, <2>2, Leaves
<1> QED
  BY <1>2, <1>3, <1>4

----------------------------------------------------------------------------
(* The three ways into and out of a submitted turn *)

LEMMA Claims ==
    ASSUME IInv, NEW j \in Jobs, NEW inputs \in SUBSET Inputs,
           job[j].pc \in {"free", "hooks", "slash", "goal"}, ClaimsTurn(j, inputs)
    PROVE  guard' \in GuardType /\ job' \in [Jobs -> JobType] /\ Safe(guard', job')
<1>1. guard \in GuardType /\ job \in [Jobs -> JobType] /\ Safe(guard, job)
  BY DEF IInv, TypeOK, GuardType, JobType
<1>2. CASE CanClaim(guard)
  <2> DEFINE k == [job[j] EXCEPT !.pc = "claimed", !.carries = inputs, !.hold = "none"]
  <2>1. guard' = Dispatching(guard) /\ job' = [job EXCEPT ![j] = k]
    BY <1>2 DEF ClaimsTurn
  <2>2. k \in JobType /\ k.pc = "claimed"
    BY <1>1 DEF JobType, Pcs
  <2>3. Safe(guard', job')
    BY <1>1, <1>2, <2>1, <2>2, Reserves DEF CanClaim
  <2> QED
    BY <1>1, <2>1, <2>2, <2>3, GuardTypes
<1>3. CASE ~CanClaim(guard)
  <2>1. guard' = guard /\ job' = [job EXCEPT ![j] = Idle]
    BY <1>3 DEF ClaimsTurn
  <2>2. ~Holds(job[j], guard)
    BY <1>3 DEF CanClaim, Holds, Turning
  <2>3. Idle \in JobType /\ Idle.pc \notin Turning /\ Idle.pc # "slash"
    BY JobTypes DEF Idle, Turning
  <2>4. Safe(guard', job')
    BY <1>1, <2>1, <2>2, <2>3, Leaves
  <2> QED
    BY <1>1, <2>1, <2>3, <2>4
<1> QED
  BY <1>2, <1>3

LEMMA Resumes ==
    ASSUME IInv, NEW j \in Jobs, ResumesTurn(j)
    PROVE  /\ guard' \in GuardType /\ job' \in [Jobs -> JobType] /\ Safe(guard', job')
           /\ running' \in BOOLEAN /\ work' \in BOOLEAN /\ queue' \in QueueType
<1>1. guard \in GuardType /\ job \in [Jobs -> JobType] /\ Safe(guard, job)
  BY DEF IInv, TypeOK, GuardType, JobType
<1> DEFINE k == At("live", {}, guard.gen + 1, "none")
<1>2. guard.gen + 1 \in Nat
  BY <1>1 DEF GuardType
<1>3. k \in JobType /\ k.pc \in Turning /\ k.gen = guard.gen + 1
  <2>1. k \in JobType
    BY <1>2, JobTypes DEF Pcs, Turning
  <2> QED
    BY <2>1 DEF At, Turning
<1>4. CanBegin(guard) /\ guard' = Begun(guard) /\ job' = [job EXCEPT ![j] = k]
  BY DEF ResumesTurn, CanClaim, CanBegin
<1>5. Safe(guard', job')
  BY <1>1, <1>3, <1>4, Begins
<1>6. queue' \in QueueType
  BY QueueTypes DEF ResumesTurn, IInv, TypeOK, QueueType
<1> QED
  BY <1>1, <1>3, <1>4, <1>5, <1>6, GuardTypes DEF ResumesTurn

LEMMA Finishes ==
    ASSUME IInv, NEW j \in Jobs, NEW gen \in Nat, Finally(j, gen),
           \/ job[j].pc \in Turning /\ gen = job[j].gen
           \/ job[j].pc = "claimed" /\ gen = 0 /\ guard.state = "running"
    PROVE  /\ guard' \in GuardType /\ job' \in [Jobs -> JobType] /\ Safe(guard', job')
           /\ running' \in BOOLEAN /\ timer' \in BOOLEAN /\ queue' \in QueueType
<1> DEFINE isLive  == gen # 0 /\ Settles(guard, gen)
           settled == IF gen # 0 THEN Settled(guard, gen) ELSE guard
           promote == ~isLive /\ queue # Empty /\ CanReserve(settled)
           held    == IF promote THEN Dispatching(settled) ELSE settled
           gone    == [job EXCEPT ![j] = Idle]
<1>1. /\ guard \in GuardType /\ job \in [Jobs -> JobType] /\ Safe(guard, job)
      /\ queue \in QueueType /\ running \in BOOLEAN /\ timer \in BOOLEAN
  BY DEF IInv, TypeOK, GuardType, JobType, QueueType
<1>2. settled \in GuardType /\ held \in GuardType
  BY <1>1, GuardTypes
<1>3. ASSUME NEW k \in JobType, k.pc \notin Turning, k.pc # "slash"
      PROVE  Safe(settled, [job EXCEPT ![j] = k])
  <2>1. CASE job[j].pc \in Turning /\ gen = job[j].gen
    <3>1. settled = Settled(guard, gen)
      BY <1>1 DEF Settled, Settles, Safe, NoneIsZero
    <3> QED
      BY <1>1, <1>3, <2>1, <3>1, Ends
  <2>2. CASE job[j].pc = "claimed" /\ gen = 0 /\ guard.state = "running"
    <3>1. settled = guard /\ ~Holds(job[j], guard)
      BY <2>2 DEF Holds, Turning
    <3> QED
      BY <1>1, <1>3, <3>1, Leaves
  <2> QED
    BY <2>1, <2>2
<1>4. Idle \in JobType /\ Idle.pc = "free" /\ "free" \notin Turning
  BY JobTypes DEF Idle, Turning
<1>5. gone \in [Jobs -> JobType] /\ Safe(settled, gone) /\ ~Holds(gone[j], settled)
  <2>1. gone \in [Jobs -> JobType] /\ gone[j] = Idle
    BY <1>1, <1>4
  <2>2. Safe(settled, gone)
    BY <1>3, <1>4
  <2> QED
    BY <1>4, <2>1, <2>2 DEF Holds
<1>6. \A k : [gone EXCEPT ![j] = k] = [job EXCEPT ![j] = k]
  BY <1>1
<1>7. CASE ~((isLive \/ promote) /\ queue # Empty)
  <2>1. guard' = settled /\ job' = gone /\ queue' = queue /\ running' = FALSE
    BY <1>7 DEF Finally
  <2>2. timer' \in BOOLEAN
    BY <1>1, <1>7 DEF Finally, Armed, CanResume
  <2> QED
    BY <1>1, <1>2, <1>5, <2>1, <2>2
<1>8. CASE (isLive \/ promote) /\ queue # Empty /\ queue.messages # {}
  <2> DEFINE k == At("hooks", queue.messages, 0, IF promote THEN "finally" ELSE "none")
  <2>1. guard' = held /\ job' = [job EXCEPT ![j] = k] /\ queue' = Rest(queue)
        /\ running' = running /\ timer' = timer
    BY <1>8 DEF Finally
  <2>2. queue.messages \in SUBSET Inputs
    BY <1>1 DEF QueueType
  <2>3. k \in JobType
    BY <2>2, JobTypes DEF Pcs
  <2>4. k.pc = "hooks" /\ k.pc \notin Turning /\ (promote => k.hold # "none")
    BY DEF At, Turning
  <2>5. Safe(guard', job')
    <3>1. CASE promote
      <4>1. settled.state # "running"
        BY <3>1 DEF CanReserve
      <4>2. Safe(Dispatching(settled), [gone EXCEPT ![j] = k])
        BY <1>2, <1>5, <2>3, <2>4, <3>1, <4>1, Reserves
      <4> QED
        BY <1>6, <2>1, <3>1, <4>2
    <3>2. CASE ~promote
      BY <1>3, <2>1, <2>3, <2>4, <3>2
    <3> QED
      BY <3>1, <3>2
  <2>6. queue' \in QueueType
    BY <1>1, <1>8, <2>1, QueueTypes
  <2> QED
    BY <1>1, <1>2, <2>1, <2>3, <2>5, <2>6
<1>9. CASE (isLive \/ promote) /\ queue # Empty /\ queue.messages = {}
  <2> DEFINE i == Head(queue.commands)
             rest == Rest(queue)
             done == HandleSlash(i, held, rest)
  <2>1. guard' = (IF promote THEN Released(done.guard) ELSE done.guard)
        /\ queue' = done.queue /\ running' = done.running
        /\ job' = [job EXCEPT ![j] = done.job]
        /\ timer' = Armed(done.guard, done.queue, work)
    BY <1>9 DEF Finally
  <2>2. i \in Inputs /\ rest \in QueueType
    BY <1>1, <1>9, QueueTypes
  <2>3. done.guard \in GuardType /\ done.queue \in QueueType
        /\ done.running \in BOOLEAN /\ done.job \in JobType
    BY <1>2, <2>2, SlashTypes
  <2>4. timer' \in BOOLEAN
    BY <1>1, <2>1 DEF Armed, CanResume
  <2>5. Safe(guard', job')
    <3>1. CASE ~promote
      <4>1. Safe(done.guard, [gone EXCEPT ![j] = done.job])
        BY <1>2, <1>5, <2>2, <3>1, SlashStarts
      <4> QED
        BY <1>6, <2>1, <3>1, <4>1
    <3>2. CASE promote
      <4>1. settled.state = "idle" /\ held = Dispatching(settled)
        BY <3>2 DEF CanReserve
      <4>2. held.state = "dispatching" /\ held.gen = settled.gen
        BY <1>2, <4>1 DEF Dispatching, GuardType
      <4>3. CASE Kind[i] # "compact"
        <5>1. done.guard = held /\ done.job = At("slash", {i}, 0, "none")
          BY <4>3 DEF HandleSlash
        <5>2. Released(held) = settled
          BY <1>2, <4>1 DEF Released, Dispatching, GuardType
        <5>3. done.job.pc \notin Turning /\ done.job.gen = 0
          BY <5>1 DEF At, Turning
        <5>4. Safe(settled, [gone EXCEPT ![j] = done.job])
          BY <1>2, <1>5, <2>3, <5>3, Leaves
        <5> QED
          BY <1>6, <2>1, <3>2, <5>1, <5>2, <5>4
      <4>4. CASE Kind[i] = "compact"
        <5>1. CanBegin(held) /\ CanBegin(settled)
          BY <4>1, <4>2 DEF CanBegin
        <5>2. done.guard = Begun(held) /\ done.job = At("compact", {i}, held.gen + 1, "none")
          BY <4>4, <5>1 DEF HandleSlash
        <5>3. Begun(held) = Begun(settled) /\ Released(Begun(held)) = Begun(held)
          BY <4>2 DEF Begun, Released
        <5>4. done.job.pc \in Turning /\ done.job.gen = settled.gen + 1
          BY <4>2, <5>2 DEF At, Turning
        <5>5. Safe(Begun(settled), [gone EXCEPT ![j] = done.job])
          BY <1>2, <1>5, <2>3, <5>1, <5>4, Begins
        <5> QED
          BY <1>6, <2>1, <3>2, <5>2, <5>3, <5>5
      <4> QED
        BY <4>3, <4>4
    <3> QED
      BY <3>1, <3>2
  <2>6. guard' \in GuardType
    BY <2>1, <2>3, GuardTypes
  <2> QED
    BY <1>1, <2>1, <2>3, <2>4, <2>5, <2>6
<1> QED
  BY <1>7, <1>8, <1>9

----------------------------------------------------------------------------
(* Every action keeps the invariant *)

LEMMA InitSafe == Init => IInv
<1> SUFFICES ASSUME Init PROVE IInv
  OBVIOUS
<1>1. Idle \in JobType /\ Idle.pc = "free" /\ Idle.gen = 0
  BY JobTypes DEF Idle
<1>2. TypeOK
  BY <1>1, QueueTypes DEF Init, TypeOK, JobType, QueueType
<1>3. Safe(guard, job)
  BY <1>1 DEF Init, Safe, Held, Serial, Bounded, NoneIsZero, Turning
<1> QED
  BY <1>2, <1>3 DEF IInv

LEMMA StepSafe ==
    ASSUME IInv, [Next]_vars
    PROVE  IInv'
<1>1. /\ guard \in GuardType /\ job \in [Jobs -> JobType] /\ Safe(guard, job)
      /\ queue \in QueueType /\ fresh \subseteq Inputs
      /\ running \in BOOLEAN /\ timer \in BOOLEAN /\ work \in BOOLEAN /\ panel \in BOOLEAN
  BY DEF IInv, TypeOK, GuardType, JobType, QueueType
<1>2. SUFFICES /\ guard' \in GuardType /\ job' \in [Jobs -> JobType] /\ Safe(guard', job')
               /\ queue' \in QueueType /\ fresh' \subseteq Inputs
               /\ running' \in BOOLEAN /\ timer' \in BOOLEAN /\ work' \in BOOLEAN /\ panel' \in BOOLEAN
  BY DEF IInv, TypeOK, GuardType, JobType, QueueType, Safe, Held, Serial, Bounded, NoneIsZero
<1>3. /\ "free" \notin Turning /\ "hooks" \notin Turning /\ "claimed" \notin Turning /\ "slash" \notin Turning
      /\ Idle \in JobType /\ Idle.pc = "free"
  BY JobTypes DEF Turning, Idle
<1>4. \A g \in GuardType, q \in QueueType, w \in BOOLEAN : Armed(g, q, w) \in BOOLEAN
  BY <1>1 DEF Armed, CanResume
<1>5. ASSUME NEW inputs \in SUBSET Inputs, NEW hold \in {"none", "finally", "driver"}
      PROVE  LET k == At("hooks", inputs, 0, hold)
             IN  k \in JobType /\ k.pc = "hooks" /\ k.hold = hold
  BY JobTypes DEF Pcs, At
<1>6. ASSUME NEW j \in Jobs, ~Holds(job[j], guard), NEW k \in JobType, k.pc \notin Turning, k.pc # "slash"
      PROVE  Safe(guard, [job EXCEPT ![j] = k])
  BY <1>1, <1>6, Leaves
<1>7. ASSUME NEW i \in Inputs, SubmitText(i) PROVE <1>2!1
  <2>1. CASE running
    BY <1>1, <1>7, <2>1, QueueTypes DEF SubmitText
  <2>2. CASE ~running
    <3>1. PICK j \in Jobs : Free(j) /\ job' = [job EXCEPT ![j] = At("hooks", {i}, 0, "none")] /\ queue' = queue
      BY <1>7, <2>2 DEF SubmitText
    <3>2. ~Holds(job[j], guard)
      BY <1>3, <3>1 DEF Free, Holds
    <3>3. Safe(guard, job')
      BY <1>3, <1>5, <1>6, <3>1, <3>2
    <3> QED
      BY <1>1, <1>5, <1>7, <3>1, <3>3 DEF SubmitText
  <2> QED
    BY <2>1, <2>2
<1>8. ASSUME NEW i \in Inputs, SubmitCommand(i) PROVE <1>2!1
  <2>1. CASE running
    BY <1>1, <1>8, <2>1, QueueTypes DEF SubmitCommand
  <2>2. CASE ~running
    <3> DEFINE done == HandleSlash(i, guard, queue)
    <3>1. PICK j \in Jobs : /\ Free(j) /\ guard' = done.guard /\ queue' = done.queue
                            /\ running' = done.running /\ job' = [job EXCEPT ![j] = done.job]
      BY <1>8, <2>2 DEF SubmitCommand
    <3>2. ~Holds(job[j], guard)
      BY <1>3, <3>1 DEF Free, Holds
    <3>3. Safe(guard', job')
      BY <1>1, <3>1, <3>2, SlashStarts
    <3> QED
      BY <1>1, <1>8, <3>1, <3>3, SlashTypes DEF SubmitCommand
  <2> QED
    BY <2>1, <2>2
<1>9. ASSUME NEW i \in Inputs, RemoteMessage(i) PROVE <1>2!1
  <2>1. CASE running
    BY <1>1, <1>9, <2>1, QueueTypes DEF RemoteMessage
  <2>2. CASE ~running
    <3>1. PICK j \in Jobs : Free(j) /\ ClaimsTurn(j, {i}) /\ queue' = queue
      BY <1>9, <2>2 DEF RemoteMessage
    <3>2. guard' \in GuardType /\ job' \in [Jobs -> JobType] /\ Safe(guard', job')
      BY <3>1, Claims DEF Free
    <3> QED
      BY <1>1, <1>9, <3>1, <3>2 DEF RemoteMessage
  <2> QED
    BY <2>1, <2>2
<1>10. ASSUME NEW i \in Inputs, RemoteQueued(i) PROVE <1>2!1
  BY <1>1, <1>10, QueueTypes DEF RemoteQueued
<1>11. ASSUME NEW j \in Jobs, HooksPass(j) \/ StartInline(j) PROVE <1>2!1
  <2>1. job[j].pc \in {"hooks", "slash"} /\ ClaimsTurn(j, job[j].carries)
    BY <1>11 DEF HooksPass, StartInline
  <2>2. job[j].carries \in SUBSET Inputs
    BY <1>1 DEF JobType
  <2>3. guard' \in GuardType /\ job' \in [Jobs -> JobType] /\ Safe(guard', job')
    BY <2>1, <2>2, Claims
  <2> QED
    BY <1>1, <1>11, <2>3 DEF HooksPass, StartInline
<1>12. ASSUME NEW j \in Jobs, HooksBlock(j) PROVE <1>2!1
  <2>1. job[j].pc = "hooks" /\ job' = [job EXCEPT ![j] = Idle]
        /\ guard' = (IF job[j].hold = "none" THEN guard ELSE Released(guard))
    BY <1>12 DEF HooksBlock
  <2>2. guard' \in GuardType
    BY <1>1, <2>1, GuardTypes
  <2>3. Safe(guard', job')
    <3>1. CASE job[j].hold = "none"
      <4>1. ~Holds(job[j], guard)
        BY <1>3, <2>1, <3>1 DEF Holds
      <4> QED
        BY <1>3, <1>6, <2>1, <3>1, <4>1
    <3>2. CASE job[j].hold # "none"
      BY <1>1, <1>3, <2>1, <3>2, Releases
    <3> QED
      BY <3>1, <3>2
  <2>4. timer' \in BOOLEAN
    BY <1>1, <1>4, <1>12, <2>1, <2>2 DEF HooksBlock
  <2> QED
    BY <1>1, <1>3, <1>12, <2>1, <2>2, <2>3, <2>4 DEF HooksBlock
<1>13. ASSUME NEW j \in Jobs, Refuse(j) PROVE <1>2!1
  <2>1. Safe(guard', job')
    BY <1>1, <1>3, <1>13, Releases DEF Refuse
  <2> QED
    BY <1>1, <1>3, <1>13, <2>1, GuardTypes DEF Refuse
<1>14. ASSUME NEW j \in Jobs, OpenTurn(j) PROVE <1>2!1
  <2>1. CASE CanBegin(guard)
    <3> DEFINE k == [job[j] EXCEPT !.pc = "opening", !.gen = guard.gen + 1]
    <3>1. guard' = Begun(guard) /\ job' = [job EXCEPT ![j] = k] /\ running' = TRUE
          /\ queue' = queue /\ timer' = timer
      BY <1>1, <1>14, <2>1 DEF OpenTurn
    <3>2. k \in JobType /\ k.pc \in Turning /\ k.gen = guard.gen + 1
      <4>1. job[j] \in JobType /\ "opening" \in Turning
        BY <1>1 DEF Turning
      <4> QED
        BY <1>1, <4>1, TurnTypes
    <3>3. Safe(guard', job')
      BY <1>1, <2>1, <3>1, <3>2, Begins
    <3> QED
      BY <1>1, <1>14, <3>1, <3>2, <3>3, GuardTypes DEF OpenTurn
  <2>2. CASE ~CanBegin(guard)
    <3>1. Finally(j, 0) /\ job[j].pc = "claimed" /\ guard.state = "running"
      BY <1>14, <2>2 DEF OpenTurn, CanBegin
    <3>2. /\ guard' \in GuardType /\ job' \in [Jobs -> JobType] /\ Safe(guard', job')
          /\ running' \in BOOLEAN /\ timer' \in BOOLEAN /\ queue' \in QueueType
      BY <3>1, Finishes
    <3> QED
      BY <1>1, <1>14, <3>2 DEF OpenTurn
  <2> QED
    BY <2>1, <2>2
<1>15. ASSUME NEW j \in Jobs, EnterLoop(j) PROVE <1>2!1
  <2> DEFINE k == [job[j] EXCEPT !.pc = "live"]
  <2>1. job[j].pc = "opening" /\ job' = [job EXCEPT ![j] = k] /\ guard' = guard
    BY <1>1, <1>15 DEF EnterLoop
  <2>2. k \in JobType
    BY <1>1 DEF JobType, Pcs, Turning
  <2>3. "opening" \in Turning /\ "live" \in Turning /\ job[j] \in JobType
    BY <1>1 DEF Turning
  <2>4. /\ k.pc = "live" /\ k.gen = job[j].gen /\ k.cancelled = job[j].cancelled
        /\ Holds(job[j], guard) => Holds(k, guard)
    BY <2>1, <2>3 DEF Holds, JobType
  <2>5. job' \in [Jobs -> JobType] /\ job'[j] = k /\ \A i \in Jobs \ {j} : job'[i] = job[i]
    BY <1>1, <2>1, <2>2
  <2>6. Held(guard, job')
    BY <1>1, <2>4, <2>5 DEF Safe, Held
  <2>7. Serial(guard, job')
    BY <1>1, <2>1, <2>3, <2>4, <2>5 DEF Safe, Serial
  <2>8. Bounded(guard, job') /\ NoneIsZero(guard, job')
    BY <1>1, <2>1, <2>3, <2>4, <2>5 DEF Safe, Bounded, NoneIsZero
  <2>9. Safe(guard', job')
    BY <2>1, <2>6, <2>7, <2>8 DEF Safe
  <2> QED
    BY <1>1, <1>15, <2>1, <2>5, <2>9 DEF EnterLoop
<1>16. ASSUME NEW j \in Jobs, Boundary(j) PROVE <1>2!1
  BY <1>1, <1>16, QueueTypes DEF Boundary
<1>17. ASSUME NEW j \in Jobs, EndTurn(j) PROVE <1>2!1
  <2>1. job[j].pc \in Turning /\ job[j].gen \in Nat /\ Finally(j, job[j].gen)
    BY <1>1, <1>17 DEF EndTurn, Turning, JobType
  <2>2. /\ guard' \in GuardType /\ job' \in [Jobs -> JobType] /\ Safe(guard', job')
        /\ running' \in BOOLEAN /\ timer' \in BOOLEAN /\ queue' \in QueueType
    BY <2>1, Finishes
  <2>3. panel' \in BOOLEAN
    BY <1>1, <1>17 DEF EndTurn
  <2> QED
    BY <1>1, <1>17, <2>2, <2>3 DEF EndTurn
<1>18. ASSUME Retry PROVE <1>2!1
  <2>1. CASE ~running /\ CanClaim(guard)
    <3>1. PICK j \in Jobs : ResumesTurn(j)
      BY <1>18, <2>1 DEF Retry
    <3> QED
      BY <1>1, <1>18, <3>1, Resumes DEF Retry
  <2>2. CASE ~(~running /\ CanClaim(guard))
    BY <1>1, <1>18, <2>2 DEF Retry
  <2> QED
    BY <2>1, <2>2
<1>19. ASSUME NEW j \in Jobs, EndCompact(j) PROVE <1>2!1
  <2>1. job[j].pc \in Turning /\ job[j].gen \in Nat
    BY <1>1, <1>19 DEF EndCompact, Turning, JobType
  <2>2. guard' = Settled(guard, job[j].gen) /\ job' = [job EXCEPT ![j] = Idle]
    BY <1>19 DEF EndCompact
  <2>3. Safe(guard', job')
    BY <1>1, <1>3, <2>1, <2>2, Ends
  <2>4. guard' \in GuardType
    BY <1>1, <2>1, <2>2, GuardTypes
  <2>5. timer' \in BOOLEAN
    BY <1>1, <1>4, <1>19, <2>2, <2>4 DEF EndCompact
  <2> QED
    BY <1>1, <1>3, <1>19, <2>2, <2>3, <2>4, <2>5 DEF EndCompact
<1>20. ASSUME NEW j \in Jobs, EndCommand(j) \/ SetGoal(j) \/ StartGoal(j) PROVE <1>2!1
  <2>1. job[j].pc \in {"slash", "goal"} /\ ~Holds(job[j], guard) /\ job[j].carries \in SUBSET Inputs
    BY <1>1, <1>3, <1>20 DEF EndCommand, SetGoal, StartGoal, Holds, JobType, Turning
  <2>2. CASE job' = [job EXCEPT ![j] = Idle] /\ guard' = guard
    <3>1. Safe(guard', job')
      BY <1>3, <1>6, <2>1, <2>2
    <3> QED
      BY <1>1, <1>3, <1>20, <2>2, <3>1 DEF EndCommand, SetGoal, StartGoal
  <2>3. CASE \E inputs \in SUBSET Inputs : ClaimsTurn(j, inputs)
    <3>1. guard' \in GuardType /\ job' \in [Jobs -> JobType] /\ Safe(guard', job')
      BY <2>1, <2>3, Claims
    <3> QED
      BY <1>1, <1>20, <3>1 DEF EndCommand, SetGoal, StartGoal
  <2>4. CASE SetGoal(j) /\ ~running
    <3> DEFINE k == At("goal", job[j].carries, 0, "none")
    <3>1. k \in JobType /\ k.pc = "goal"
      BY <2>1, JobTypes DEF Pcs, At
    <3>2. job' = [job EXCEPT ![j] = k] /\ guard' = guard
      BY <1>1, <2>4 DEF SetGoal
    <3>3. "goal" \notin Turning
      BY DEF Turning
    <3> HIDE DEF k
    <3>4. Safe(guard', job')
      BY <1>6, <2>1, <3>1, <3>2, <3>3
    <3> QED
      BY <1>1, <2>4, <3>1, <3>2, <3>4 DEF SetGoal
  <2> QED
    BY <1>1, <1>20, <2>1, <2>2, <2>3, <2>4 DEF EndCommand, SetGoal, StartGoal
<1>21. ASSUME NEW j \in Jobs, Clear(j) PROVE <1>2!1
  <2>1. Stopped \in [Jobs -> JobType] /\ Safe(Aborted(guard), Stopped)
        /\ ~Holds(Stopped[j], Aborted(guard))
    BY <1>1, Stops
  <2>2. Aborted(guard) \in GuardType
    BY <1>1, GuardTypes
  <2>3. ~Holds(job[j], guard)
    BY <1>3, <1>21 DEF Clear, Holds
  <2>4. guard' \in GuardType /\ job' \in [Jobs -> JobType] /\ Safe(guard', job')
    <3>1. CASE running
      <4>1. guard' = Aborted(guard) /\ job' = [Stopped EXCEPT ![j] = Idle]
        BY <1>21, <3>1 DEF Clear
      <4>2. Safe(guard', job')
        BY <1>3, <2>1, <2>2, <4>1, Leaves
      <4> QED
        BY <1>3, <2>1, <2>2, <4>1, <4>2
    <3>2. CASE ~running
      <4>1. guard' = guard /\ job' = [job EXCEPT ![j] = Idle]
        BY <1>21, <3>2 DEF Clear
      <4> QED
        BY <1>1, <1>3, <1>6, <2>3, <4>1
    <3> QED
      BY <3>1, <3>2
  <2> QED
    BY <1>1, <1>21, <2>4, QueueTypes DEF Clear
<1>22. ASSUME NEW j \in Jobs, StartSkill(j) PROVE <1>2!1
  <2>1. job[j] \in JobType /\ job[j].pc = "slash" /\ job[j].gen = 0
    BY <1>1, <1>22 DEF StartSkill, Safe, NoneIsZero
  <2>2. CASE CanBegin(guard)
    <3> DEFINE k == [job[j] EXCEPT !.pc = "skill", !.gen = guard.gen + 1]
    <3>1. guard' = Begun(guard) /\ job' = [job EXCEPT ![j] = k]
      BY <1>1, <1>22, <2>2 DEF StartSkill
    <3>2. k \in JobType /\ k.pc \in Turning /\ k.gen = guard.gen + 1
      <4>1. "skill" \in Turning
        BY DEF Turning
      <4> QED
        BY <1>1, <2>1, <4>1, TurnTypes
    <3>3. Safe(guard', job')
      BY <1>1, <2>2, <3>1, <3>2, Begins
    <3> QED
      BY <1>1, <1>22, <3>1, <3>2, <3>3, GuardTypes DEF StartSkill
  <2>3. CASE ~CanBegin(guard)
    <3> DEFINE k == [job[j] EXCEPT !.pc = "skill"]
    <3>1. guard' = guard /\ job' = [job EXCEPT ![j] = k]
      BY <1>1, <1>22, <2>3 DEF StartSkill
    <3>2. k \in JobType /\ k.pc = "skill" /\ k.gen = 0
      BY <2>1 DEF JobType, Pcs, Turning
    <3>3. job' \in [Jobs -> JobType] /\ job'[j] = k /\ \A i \in Jobs \ {j} : job'[i] = job[i]
      BY <1>1, <3>1, <3>2
    <3>4. ~Holds(job[j], guard) /\ guard.gen >= 0
      BY <1>1, <1>3, <2>1 DEF Holds, GuardType
    <3>5. Held(guard, job')
      BY <1>1, <3>3, <3>4 DEF Safe, Held
    <3>6. Serial(guard, job')
      BY <1>1, <3>2, <3>3, ZenonT(40) DEF Safe, Serial
    <3>7. Bounded(guard, job') /\ NoneIsZero(guard, job')
      BY <1>1, <3>2, <3>3, <3>4 DEF Safe, Bounded, NoneIsZero
    <3>8. Safe(guard', job')
      BY <3>1, <3>5, <3>6, <3>7 DEF Safe
    <3> QED
      BY <1>1, <1>22, <3>1, <3>3, <3>8 DEF StartSkill
  <2> QED
    BY <2>2, <2>3
<1>23. ASSUME NEW j \in Jobs, EndSkill(j) PROVE <1>2!1
  <2>1. job[j].pc \in Turning /\ job[j].gen \in Nat
    BY <1>1, <1>23 DEF EndSkill, Turning, JobType
  <2>2. job[j].gen = 0 => Settled(guard, job[j].gen) = guard
    BY <1>1 DEF Settled, Settles, Safe, NoneIsZero
  <2>3. guard' = Settled(guard, job[j].gen) /\ job' = [job EXCEPT ![j] = Idle]
    BY <1>23, <2>2 DEF EndSkill
  <2>4. Safe(guard', job')
    BY <1>1, <1>3, <2>1, <2>2, <2>3, Ends
  <2>5. guard' \in GuardType
    BY <1>1, <2>1, <2>2, <2>3, GuardTypes
  <2>6. timer' \in BOOLEAN
    BY <1>1, <1>4, <1>23, <2>3, <2>5 DEF EndSkill
  <2>7. running' \in BOOLEAN
    BY <1>1, <1>23 DEF EndSkill
  <2> QED
    BY <1>1, <1>3, <1>23, <2>3, <2>4, <2>5, <2>6, <2>7 DEF EndSkill
<1>24. CASE Cancel
  BY <1>1, <1>24, Stops, GuardTypes DEF Cancel
<1>25. CASE RestoreQueued
  BY <1>1, <1>25, QueueTypes DEF RestoreQueued
<1>26. CASE WorkArrives
  BY <1>1, <1>4, <1>26 DEF WorkArrives
<1>27. ASSUME TimerFires PROVE <1>2!1
  <2>1. CASE ~CanResume(guard, queue, work)
    BY <1>1, <1>27, <2>1 DEF TimerFires
  <2>2. CASE CanResume(guard, queue, work) /\ queue = Empty
    <3>1. PICK j \in Jobs : ResumesTurn(j) /\ timer' = FALSE
      BY <1>27, <2>2 DEF TimerFires
    <3> QED
      BY <1>1, <1>27, <3>1, Resumes DEF TimerFires
  <2>3. CASE CanResume(guard, queue, work) /\ queue # Empty /\ queue.messages # {}
    <3> DEFINE k == At("hooks", queue.messages, 0, "driver")
    <3>1. PICK j \in Jobs : /\ guard' = Dispatching(guard) /\ queue' = Rest(queue)
                            /\ job' = [job EXCEPT ![j] = k] /\ timer' = FALSE
                            /\ running' = running /\ work' = work
      BY <1>27, <2>3 DEF TimerFires
    <3>2. queue.messages \in SUBSET Inputs /\ guard.state # "running"
      BY <1>1, <2>3 DEF QueueType, CanResume
    <3>3. k \in JobType /\ k.pc = "hooks" /\ k.hold # "none"
      BY <1>5, <3>2
    <3>4. Safe(guard', job')
      BY <1>1, <3>1, <3>2, <3>3, Reserves
    <3>5. guard' \in GuardType /\ queue' \in QueueType
      BY <1>1, <2>3, <3>1, GuardTypes, QueueTypes
    <3> QED
      BY <1>1, <1>27, <3>1, <3>3, <3>4, <3>5 DEF TimerFires
  <2>4. CASE CanResume(guard, queue, work) /\ queue # Empty /\ queue.messages = {}
    <3> DEFINE i == Head(queue.commands)
               rest == Rest(queue)
               done == HandleSlash(i, guard, rest)
    <3>1. PICK j \in Jobs : /\ Free(j) /\ guard' = done.guard /\ queue' = done.queue
                            /\ running' = (running \/ done.running)
                            /\ job' = [job EXCEPT ![j] = done.job]
                            /\ timer' = CanResume(done.guard, done.queue, work) /\ work' = work
      BY <1>27, <2>4 DEF TimerFires
    <3>2. i \in Inputs /\ rest \in QueueType
      BY <1>1, <2>4, QueueTypes
    <3>3. ~Holds(job[j], guard)
      BY <1>3, <3>1 DEF Free, Holds
    <3>4. Safe(guard', job')
      BY <1>1, <3>1, <3>2, <3>3, SlashStarts
    <3>5. done.guard \in GuardType /\ done.queue \in QueueType
          /\ done.running \in BOOLEAN /\ done.job \in JobType
      BY <1>1, <3>2, SlashTypes
    <3>6. timer' \in BOOLEAN
      BY <3>1, <1>1 DEF CanResume
    <3> QED
      BY <1>1, <1>27, <3>1, <3>4, <3>5, <3>6 DEF TimerFires
  <2> QED
    BY <2>1, <2>2, <2>3, <2>4
<1>28. CASE UNCHANGED vars
  BY <1>1, <1>28 DEF vars
<1> QED
  BY <1>7, <1>8, <1>9, <1>10, <1>11, <1>12, <1>13, <1>14, <1>15, <1>16, <1>17, <1>18, <1>19, <1>20,
     <1>21, <1>22, <1>23, <1>24, <1>25, <1>26, <1>27, <1>28 DEF Next, JobStep

THEOREM Inductive == Spec => []IInv
<1>1. IInv /\ [Next]_vars => IInv'
  BY StepSafe
<1> QED
  BY InitSafe, <1>1, PTL DEF Spec

----------------------------------------------------------------------------
(* What it means for the program *)

\* The state of the dispatcher keeps its shape: a queued entry is always an
\* input, and the queue a command is promoted from is never empty.
THEOREM TypeCorrect == Spec => []TypeOK
BY Inductive, PTL DEF IInv

\* The claim of submitted-turn.ts that "the guard never sticks": whatever is
\* blocked, refused, cancelled or raced, a guard that is not idle has a call
\* chain under way that will give it back.
THEOREM GuardNeverSticks == Spec => []GuardHasHolder
<1>1. IInv => GuardHasHolder
  BY DEF IInv, Safe, Held, GuardHasHolder
<1> QED
  BY Inductive, <1>1, PTL

\* The promise of the generation counter: at most one turn that the user has
\* not stopped holds the guard, and no two hold the same generation.
THEOREM OneTurnAtATime == Spec => []TurnsAreSerial
<1>1. IInv => TurnsAreSerial
  BY DEF IInv, Safe, Serial, TurnsAreSerial
<1> QED
  BY Inductive, <1>1, PTL

----------------------------------------------------------------------------
(***************************************************************************)
(* What a session in which nothing is under way looks like. Two flags are  *)
(* kept apart from the guard, runningRef and the debounce, and each path   *)
(* must hand both on. Backed: the busy flag is up only while a chain lives *)
(* that will take it down. Seen: what waits has somebody who will look at  *)
(* it. While the guard is not idle its holder is that somebody, so only    *)
(* the steps that leave it idle have to be looked at.                      *)
(***************************************************************************)

\* The chain will lower the busy flag: a forked skill only while the guard is
\* at most one generation past its own (skill-runner.ts:195).
Clears(k, g) ==
    \/ k.pc \in {"hooks", "claimed", "opening", "live", "compact"}
    \/ k.pc = "skill" /\ (k.gen = 0 \/ g.gen <= k.gen + 1)

Backed == running => \E j \in Jobs : Clears(job[j], guard)
Seen == (queue # Empty \/ work) => timer \/ \E j \in Jobs : ~Free(j)

\* A chain in a slash handler carries the command it handles; no skill forks,
\* and no goal is set.
NoSkill ==
    \A j \in Jobs :
        /\ job[j].pc \notin {"skill", "goal"}
        /\ job[j].pc = "slash" => \E i \in Inputs : job[j].carries = {i}

LEMMA HolderClears ==
    ASSUME NEW g \in GuardType, NEW js \in [Jobs -> JobType], NEW j \in Jobs, Holds(js[j], g)
    PROVE  Clears(js[j], g) /\ Clears(js[j], Aborted(g)) /\ js[j].pc # "free"
<1>1. js[j].gen \in Nat /\ g.gen \in Nat
  BY DEF JobType, GuardType
<1>2. g.state # "idle" => Aborted(g).gen = g.gen + 1
  BY DEF Aborted
<1> QED
  BY <1>1, <1>2 DEF Holds, Clears, Turning

LEMMA ActiveIsBacked ==
    ASSUME IInv
    PROVE  guard.state # "idle" => /\ \E j \in Jobs : Clears(job[j], guard)
                                   /\ \E j \in Jobs : ~Free(j)
<1>1. guard \in GuardType /\ job \in [Jobs -> JobType] /\ Held(guard, job)
  BY DEF IInv, TypeOK, GuardType, JobType, Safe
<1>2. SUFFICES ASSUME guard.state # "idle"
               PROVE  \E j \in Jobs : Clears(job[j], guard) /\ ~Free(j)
  OBVIOUS
<1>3. PICK j \in Jobs : Holds(job[j], guard)
  BY <1>1, <1>2 DEF Held
<1> QED
  BY <1>1, <1>3, HolderClears DEF Free

\* A command that queues behind a turn, or starts.
LEMMA SlashOutcome ==
    ASSUME NEW i \in Inputs, NEW g \in GuardType, NEW q \in QueueType
    PROVE  LET done == HandleSlash(i, g, q)
           IN  /\ done.running => done.guard.state = "running" /\ done.job.pc = "compact"
               /\ CanBegin(g) => done.job.pc \in {"slash", "compact"} /\ done.queue = q
               /\ done.job.pc \in {"free", "slash"} => done.guard = g
               /\ done.job.pc \in {"free", "slash", "compact"}
               /\ done.job.pc = "slash" => done.job.carries = {i} /\ Kind[i] # "compact"
               /\ done.job.pc = "free" => ~CanBegin(g)
BY DEF HandleSlash, At, Idle, Begun

\* The way a turn ends keeps both, because it arms the debounce, goes on with
\* what it promoted, or leaves a guard that somebody else holds.
LEMMA FinallyBacked ==
    ASSUME IInv, IInv', NEW j \in Jobs, NEW gen \in Nat, Finally(j, gen)
    PROVE  Backed'
<1> DEFINE isLive  == gen # 0 /\ Settles(guard, gen)
           settled == IF gen # 0 THEN Settled(guard, gen) ELSE guard
           promote == ~isLive /\ queue # Empty /\ CanReserve(settled)
           held    == IF promote THEN Dispatching(settled) ELSE settled
<1>1. /\ guard \in GuardType /\ job \in [Jobs -> JobType] /\ queue \in QueueType
      /\ queue # Empty => Rest(queue) \in QueueType
      /\ queue # Empty /\ queue.messages = {} => Head(queue.commands) \in Inputs
  BY QueueTypes DEF IInv, TypeOK, GuardType, JobType, QueueType
<1>2. held \in GuardType
  BY <1>1, GuardTypes
<1>3. CASE ~((isLive \/ promote) /\ queue # Empty)
  BY <1>3 DEF Finally, Backed
<1>4. CASE (isLive \/ promote) /\ queue # Empty /\ queue.messages # {}
  <2> DEFINE k == At("hooks", queue.messages, 0, IF promote THEN "finally" ELSE "none")
  <2>1. job' = [job EXCEPT ![j] = k]
    BY <1>4 DEF Finally
  <2>2. job'[j].pc = "hooks"
    BY <1>1, <2>1 DEF At
  <2> QED
    BY <2>2 DEF Backed, Clears
<1>5. CASE (isLive \/ promote) /\ queue # Empty /\ queue.messages = {}
  <2> DEFINE done == HandleSlash(Head(queue.commands), held, Rest(queue))
  <2>1. running' = done.running /\ job' = [job EXCEPT ![j] = done.job]
    BY <1>5 DEF Finally
  <2>2. done.running => done.job.pc = "compact"
    BY <1>1, <1>2, <1>5, SlashOutcome
  <2>3. job'[j] = done.job
    BY <1>1, <2>1
  <2> QED
    BY <2>1, <2>2, <2>3 DEF Backed, Clears
<1> QED
  BY <1>3, <1>4, <1>5

LEMMA FinallySeen ==
    ASSUME IInv, IInv', NEW j \in Jobs, NEW gen \in Nat, Finally(j, gen), work' = work,
           job[j].pc # "free"
    PROVE  Seen'
<1> DEFINE isLive  == gen # 0 /\ Settles(guard, gen)
           settled == IF gen # 0 THEN Settled(guard, gen) ELSE guard
           promote == ~isLive /\ queue # Empty /\ CanReserve(settled)
           held    == IF promote THEN Dispatching(settled) ELSE settled
<1>1. /\ guard \in GuardType /\ job \in [Jobs -> JobType] /\ queue \in QueueType
      /\ queue # Empty => Rest(queue) \in QueueType
      /\ queue # Empty /\ queue.messages = {} => Head(queue.commands) \in Inputs
  BY QueueTypes DEF IInv, TypeOK, GuardType, JobType, QueueType
<1>2. held \in GuardType /\ (guard'.state # "idle" => \E h \in Jobs : job'[h].pc # "free")
  <2>1. held \in GuardType
    BY <1>1, GuardTypes
  <2>2. guard' \in GuardType /\ job' \in [Jobs -> JobType]
        /\ (guard'.state # "idle" => \E h \in Jobs : Holds(job'[h], guard'))
    BY DEF IInv, TypeOK, GuardType, JobType, Safe, Held
  <2> QED
    BY <2>1, <2>2, HolderClears
<1>3. CASE ~((isLive \/ promote) /\ queue # Empty)
  <2>1. guard' = settled /\ queue' = queue /\ timer' = Armed(settled, queue, work)
    BY <1>3 DEF Finally
  <2> QED
    BY <1>2, <2>1 DEF Seen, Free, Armed, CanResume
<1>4. CASE (isLive \/ promote) /\ queue # Empty /\ queue.messages # {}
  <2> DEFINE k == At("hooks", queue.messages, 0, IF promote THEN "finally" ELSE "none")
  <2>1. job' = [job EXCEPT ![j] = k]
    BY <1>4 DEF Finally
  <2>2. job'[j].pc = "hooks"
    BY <1>1, <2>1 DEF At
  <2> QED
    BY <2>2 DEF Seen, Free
<1>5. CASE (isLive \/ promote) /\ queue # Empty /\ queue.messages = {}
  <2> DEFINE done == HandleSlash(Head(queue.commands), held, Rest(queue))
  <2>1. job' = [job EXCEPT ![j] = done.job]
    BY <1>5 DEF Finally
  <2>2. CanBegin(held)
    BY <1>1, <1>5 DEF CanBegin, Dispatching, CanReserve, Settled, GuardType
  <2>3. done.job.pc # "free"
    BY <1>1, <1>2, <1>5, <2>2, SlashOutcome
  <2>4. job'[j] = done.job
    BY <1>1, <2>1
  <2> QED
    BY <2>3, <2>4 DEF Seen, Free
<1> QED
  BY <1>3, <1>4, <1>5

\* A step of one job that leaves the generation alone keeps the busy flag
\* backed, unless that job was to lower it and now will not.
LEMMA StillBacked ==
    ASSUME IInv, NEW j \in Jobs, NEW k, job' = [job EXCEPT ![j] = k], Backed,
           running' => running, guard'.gen = guard.gen,
           Clears(job[j], guard) => Clears(k, guard')
    PROVE  Backed'
<1>1. SUFFICES ASSUME running' PROVE \E i \in Jobs : Clears(job'[i], guard')
  BY DEF Backed
<1>2. job \in [Jobs -> JobType]
  BY DEF IInv, TypeOK, JobType
<1>3. PICK i \in Jobs : Clears(job[i], guard)
  BY <1>1 DEF Backed
<1>4. CASE i = j
  BY <1>2, <1>3, <1>4
<1>5. CASE i # j
  BY <1>2, <1>3, <1>5 DEF Clears
<1> QED
  BY <1>4, <1>5

LEMMA StepBacked ==
    ASSUME "block" \notin Features, "refuse" \notin Features,
           IInv, IInv', Backed, [Next]_vars
    PROVE  Backed'
<1>1. /\ guard \in GuardType /\ job \in [Jobs -> JobType] /\ queue \in QueueType
      /\ guard.gen \in Nat /\ running \in BOOLEAN
      /\ job' \in [Jobs -> JobType]
  BY DEF IInv, TypeOK, GuardType, JobType, QueueType
<1>2. guard'.state # "idle" => Backed'
  BY HolderClears DEF IInv, TypeOK, GuardType, JobType, Safe, Held, Backed
<1>3. ~running' => Backed'
  BY DEF Backed
<1>4. guard' = guard /\ job' = job /\ running' = running => Backed'
  BY DEF Backed
<1>5. ASSUME NEW i \in Inputs, SubmitText(i) PROVE Backed'
  <2>1. CASE running
    BY <1>4, <1>5, <2>1 DEF SubmitText
  <2>2. CASE ~running
    BY <1>3, <1>5, <2>2 DEF SubmitText
  <2> QED
    BY <2>1, <2>2
<1>6. ASSUME NEW i \in Inputs, SubmitCommand(i) PROVE Backed'
  <2>1. CASE running
    BY <1>4, <1>6, <2>1 DEF SubmitCommand
  <2>2. CASE ~running
    <3> DEFINE done == HandleSlash(i, guard, queue)
    <3>1. guard' = done.guard /\ running' = done.running
      BY <1>6, <2>2 DEF SubmitCommand
    <3>2. done.running => done.guard.state = "running"
      BY <1>1, SlashOutcome
    <3> QED
      BY <1>2, <1>3, <3>1, <3>2
  <2> QED
    BY <2>1, <2>2
<1>7. ASSUME NEW i \in Inputs, RemoteMessage(i) PROVE Backed'
  <2>1. CASE running
    BY <1>4, <1>7, <2>1 DEF RemoteMessage
  <2>2. CASE ~running
    BY <1>3, <1>7, <2>2 DEF RemoteMessage
  <2> QED
    BY <2>1, <2>2
<1>8. ASSUME NEW i \in Inputs, RemoteQueued(i) PROVE Backed'
  BY <1>4, <1>8 DEF RemoteQueued
<1>9. ASSUME NEW j \in Jobs, HooksPass(j) \/ StartInline(j) PROVE Backed'
  <2>1. ClaimsTurn(j, job[j].carries)
    BY <1>9 DEF HooksPass, StartInline
  <2>2. guard'.state # "idle"
    BY <1>1, <2>1 DEF ClaimsTurn, CanClaim, Dispatching, GuardType
  <2> QED
    BY <1>2, <2>2
<1>10. ASSUME NEW j \in Jobs, HooksBlock(j) \/ Refuse(j) PROVE Backed'
  BY <1>10 DEF HooksBlock, Refuse
<1>11. ASSUME NEW j \in Jobs, OpenTurn(j) PROVE Backed'
  <2>1. CASE CanBegin(guard)
    BY <1>2, <1>11, <2>1 DEF OpenTurn, Begun
  <2>2. CASE ~CanBegin(guard)
    <3>1. Finally(j, 0)
      BY <1>11, <2>2 DEF OpenTurn
    <3> QED
      BY <3>1, FinallyBacked
  <2> QED
    BY <2>1, <2>2
<1>12. ASSUME NEW j \in Jobs, EnterLoop(j) PROVE Backed'
  <2> DEFINE k == [job[j] EXCEPT !.pc = "live"]
  <2>1. job' = [job EXCEPT ![j] = k] /\ running' = running /\ guard' = guard
    BY <1>1, <1>12 DEF EnterLoop
  <2>2. k.pc = "live"
    BY <1>1 DEF JobType
  <2>3. Clears(k, guard')
    BY <2>2 DEF Clears
  <2> HIDE DEF k
  <2> QED
    BY <2>1, <2>3, StillBacked
<1>13. ASSUME NEW j \in Jobs, Boundary(j) PROVE Backed'
  BY <1>4, <1>13 DEF Boundary
<1>14. ASSUME NEW j \in Jobs, EndTurn(j) PROVE Backed'
  <2>1. Finally(j, job[j].gen) /\ job[j].gen \in Nat
    BY <1>1, <1>14 DEF EndTurn, JobType
  <2> QED
    BY <2>1, FinallyBacked
<1>15. CASE Retry
  <2>1. CASE ~running /\ CanClaim(guard)
    BY <1>2, <1>15, <2>1 DEF Retry, ResumesTurn, Begun
  <2>2. CASE ~(~running /\ CanClaim(guard))
    BY <1>4, <1>15, <2>2 DEF Retry
  <2> QED
    BY <2>1, <2>2
<1>16. ASSUME NEW j \in Jobs, EndCompact(j) \/ Clear(j) PROVE Backed'
  BY <1>3, <1>16 DEF EndCompact, Clear
<1>17. ASSUME NEW j \in Jobs, EndCommand(j) \/ SetGoal(j) \/ StartGoal(j) PROVE Backed'
  <2>1. job[j].pc \in {"slash", "goal"} /\ ~Clears(job[j], guard) /\ running' = running
    BY <1>17 DEF EndCommand, SetGoal, StartGoal, Clears
  <2>2. CASE \E k : job' = [job EXCEPT ![j] = k] /\ guard' = guard
    BY <2>1, <2>2, StillBacked
  <2>3. CASE \E inputs : ClaimsTurn(j, inputs) /\ CanClaim(guard)
    <3>1. guard'.state # "idle"
      BY <1>1, <2>3 DEF ClaimsTurn, Dispatching, GuardType
    <3> QED
      BY <1>2, <3>1
  <2> QED
    BY <1>17, <2>2, <2>3 DEF EndCommand, SetGoal, StartGoal, ClaimsTurn
<1>18. ASSUME NEW j \in Jobs, StartSkill(j) PROVE Backed'
  <2>1. CASE CanBegin(guard)
    BY <1>2, <1>18, <2>1 DEF StartSkill, Begun
  <2>2. CASE ~CanBegin(guard)
    BY <1>2, <1>18, <2>2 DEF StartSkill, CanBegin
  <2> QED
    BY <2>1, <2>2
<1>19. ASSUME NEW j \in Jobs, EndSkill(j), running' PROVE Backed'
  <2>1. job[j].gen \in Nat /\ job[j].gen # 0 /\ guard.gen > job[j].gen + 1 /\ running
    BY <1>1, <1>19 DEF EndSkill, JobType
  <2>2. guard' = guard /\ job' = [job EXCEPT ![j] = Idle]
    BY <1>1, <1>19, <2>1 DEF EndSkill, Settled, Settles
  <2>3. ~Clears(job[j], guard)
    BY <1>1, <1>19, <2>1 DEF EndSkill, Clears
  <2> QED
    BY <2>1, <2>2, <2>3, StillBacked
<1>20. CASE Cancel
  <2>1. guard.state # "idle" /\ guard' = Aborted(guard) /\ job' = Stopped
    BY <1>20 DEF Cancel
  <2>2. PICK j \in Jobs : Holds(job[j], guard)
    BY <2>1 DEF IInv, Safe, Held
  <2>3. Clears(job[j], Aborted(guard))
    BY <1>1, <2>2, HolderClears
  <2>4. job'[j].pc = job[j].pc /\ job'[j].gen = job[j].gen
    BY <1>1, <2>1 DEF Stopped, JobType
  <2> QED
    BY <2>1, <2>3, <2>4 DEF Backed, Clears
<1>21. CASE RestoreQueued
  BY <1>4, <1>21 DEF RestoreQueued
<1>22. CASE WorkArrives
  BY <1>4, <1>22 DEF WorkArrives
<1>23. CASE TimerFires
  <2>1. CASE ~CanResume(guard, queue, work)
    BY <1>4, <1>23, <2>1 DEF TimerFires
  <2>2. CASE CanResume(guard, queue, work) /\ queue = Empty
    BY <1>2, <1>23, <2>2 DEF TimerFires, ResumesTurn, Begun
  <2>3. CASE CanResume(guard, queue, work) /\ queue # Empty /\ queue.messages # {}
    <3>1. guard' = Dispatching(guard)
      BY <1>23, <2>3 DEF TimerFires
    <3> QED
      BY <1>1, <1>2, <3>1 DEF Dispatching, GuardType
  <2>4. CASE CanResume(guard, queue, work) /\ queue # Empty /\ queue.messages = {}
    <3> DEFINE i == Head(queue.commands)
               done == HandleSlash(i, guard, Rest(queue))
    <3>1. PICK j \in Jobs : /\ Free(j) /\ guard' = done.guard
                            /\ running' = (running \/ done.running)
                            /\ job' = [job EXCEPT ![j] = done.job]
      BY <1>23, <2>4 DEF TimerFires
    <3>2. i \in Inputs /\ Rest(queue) \in QueueType
      BY <1>1, <2>4, QueueTypes
    <3>3. /\ done.running => done.guard.state = "running"
          /\ done.guard # guard => done.guard.state = "running"
      BY <1>1, <3>2, SlashOutcome DEF HandleSlash, Begun
    <3>4. ~Clears(job[j], guard)
      BY <3>1 DEF Free, Clears
    <3> HIDE DEF done
    <3> QED
      BY <1>2, <3>1, <3>3, <3>4, StillBacked
  <2> QED
    BY <2>1, <2>2, <2>3, <2>4
<1>24. CASE UNCHANGED vars
  BY <1>4, <1>24 DEF vars
<1> QED
  BY <1>3, <1>5, <1>6, <1>7, <1>8, <1>9, <1>10, <1>11, <1>12, <1>13, <1>14, <1>15, <1>16, <1>17,
     <1>18, <1>19, <1>20, <1>21, <1>22, <1>23, <1>24 DEF Next, JobStep

\* The paths after which something really is left waiting are absent: a prompt
\* that is blocked or refused, a phone that queues behind a turn that has ended,
\* a forked skill that was cancelled, and the commands whose end does not ask for
\* a resume.
Plain ==
    /\ {"block", "refuse", "phone_queue"} \cap Features = {}
    /\ Kind \in [Inputs -> {"text", "remote", "inline", "compact"}]

LEMMA StepSeen ==
    ASSUME Plain, IInv, IInv', Backed, Seen, NoSkill, [Next]_vars
    PROVE  Seen'
<1>1. /\ guard \in GuardType /\ job \in [Jobs -> JobType] /\ queue \in QueueType
      /\ running \in BOOLEAN /\ timer \in BOOLEAN /\ work \in BOOLEAN
  BY DEF IInv, TypeOK, GuardType, JobType, QueueType
<1>2. guard'.state # "idle" => Seen'
  <2>1. guard' \in GuardType /\ job' \in [Jobs -> JobType]
        /\ (guard'.state # "idle" => \E h \in Jobs : Holds(job'[h], guard'))
    BY DEF IInv, TypeOK, GuardType, JobType, Safe, Held
  <2> QED
    BY <2>1, HolderClears DEF Seen, Free
<1>3. ASSUME NEW j \in Jobs, NEW k, job' = [job EXCEPT ![j] = k], k.pc # "free"
      PROVE  Seen'
  BY <1>1, <1>3 DEF Seen, Free
<1>4. (\E j \in Jobs : ~Free(j)) /\ job' = job => Seen'
  BY DEF Seen, Free
<1>5. running => \E j \in Jobs : ~Free(j)
  BY DEF Backed, Clears, Free
<1>6. \A i \in Inputs : ~(Kind[i] \in {"skill", "command", "clear"})
  BY DEF Plain
<1>7. queue' = queue /\ work' = work /\ timer' = timer /\ job' = job => Seen'
  BY DEF Seen, Free
<1>8. ASSUME NEW i \in Inputs, SubmitText(i) PROVE Seen'
  <2>1. CASE running
    BY <1>4, <1>5, <1>8, <2>1 DEF SubmitText
  <2>2. CASE ~running
    <3>1. PICK j \in Jobs : job' = [job EXCEPT ![j] = At("hooks", {i}, 0, "none")]
      BY <1>8, <2>2 DEF SubmitText
    <3>2. At("hooks", {i}, 0, "none").pc # "free"
      BY DEF At
    <3> QED
      BY <1>3, <3>1, <3>2
  <2> QED
    BY <2>1, <2>2
<1>9. ASSUME NEW i \in Inputs, SubmitCommand(i) PROVE Seen'
  <2>1. CASE running
    BY <1>4, <1>5, <1>9, <2>1 DEF SubmitCommand
  <2>2. CASE ~running
    <3> DEFINE done == HandleSlash(i, guard, queue)
    <3>1. PICK j \in Jobs : guard' = done.guard /\ job' = [job EXCEPT ![j] = done.job]
      BY <1>9, <2>2 DEF SubmitCommand
    <3>2. done.job.pc = "free" => done.guard = guard /\ guard.state # "idle"
      BY <1>1, SlashOutcome DEF CanBegin
    <3> HIDE DEF done
    <3> QED
      BY <1>2, <1>3, <3>1, <3>2
  <2> QED
    BY <2>1, <2>2
<1>10. ASSUME NEW j \in Jobs, NEW inputs, ClaimsTurn(j, inputs) PROVE Seen'
  <2>1. guard'.state # "idle"
    BY <1>1, <1>10 DEF ClaimsTurn, CanClaim, Dispatching, GuardType
  <2> QED
    BY <1>2, <2>1
<1>11. ASSUME NEW i \in Inputs, RemoteMessage(i) PROVE Seen'
  <2>1. CASE running
    BY <1>4, <1>5, <1>11, <2>1 DEF RemoteMessage
  <2>2. CASE ~running
    BY <1>10, <1>11, <2>2 DEF RemoteMessage
  <2> QED
    BY <2>1, <2>2
<1>12. ASSUME NEW j \in Jobs, HooksPass(j) \/ StartInline(j) PROVE Seen'
  BY <1>10, <1>12 DEF HooksPass, StartInline
<1>13. ASSUME NEW j \in Jobs, OpenTurn(j) PROVE Seen'
  <2>1. CASE CanBegin(guard)
    BY <1>2, <1>13, <2>1 DEF OpenTurn, Begun
  <2>2. CASE ~CanBegin(guard)
    <3>1. Finally(j, 0) /\ work' = work /\ job[j].pc # "free"
      BY <1>13, <2>2 DEF OpenTurn
    <3> QED
      BY <3>1, FinallySeen
  <2> QED
    BY <2>1, <2>2
<1>14. ASSUME NEW j \in Jobs, EnterLoop(j) PROVE Seen'
  <2> DEFINE k == [job[j] EXCEPT !.pc = "live"]
  <2>1. job' = [job EXCEPT ![j] = k]
    BY <1>1, <1>14 DEF EnterLoop
  <2>2. k.pc # "free"
    BY <1>1 DEF JobType
  <2> HIDE DEF k
  <2> QED
    BY <1>3, <2>1, <2>2
<1>15. ASSUME NEW j \in Jobs, Boundary(j) PROVE Seen'
  BY <1>4, <1>15 DEF Boundary, Free
<1>16. ASSUME NEW j \in Jobs, EndTurn(j) PROVE Seen'
  <2>1. Finally(j, job[j].gen) /\ job[j].gen \in Nat /\ work' = work /\ job[j].pc # "free"
    BY <1>1, <1>16 DEF EndTurn, JobType
  <2> QED
    BY <2>1, FinallySeen
<1>17. CASE Retry
  <2>1. CASE ~running /\ CanClaim(guard)
    BY <1>2, <1>17, <2>1 DEF Retry, ResumesTurn, Begun
  <2>2. CASE ~(~running /\ CanClaim(guard))
    BY <1>7, <1>17, <2>2 DEF Retry
  <2> QED
    BY <2>1, <2>2
<1>18. ASSUME NEW j \in Jobs, EndCompact(j) PROVE Seen'
  <2>1. timer' = Armed(guard', queue', work')
    BY <1>18 DEF EndCompact
  <2> QED
    BY <1>2, <2>1 DEF Seen, Armed, CanResume
<1>19. ASSUME NEW j \in Jobs,
              EndCommand(j) \/ SetGoal(j) \/ StartGoal(j) \/ Clear(j) \/ StartSkill(j) \/ EndSkill(j)
       PROVE  FALSE
  <2>1. job[j].pc = "slash"
    BY <1>19 DEF EndCommand, SetGoal, StartGoal, Clear, StartSkill, EndSkill, NoSkill
  <2>2. PICK i \in Inputs : job[j].carries = {i}
    BY <2>1 DEF NoSkill
  <2> QED
    BY <1>6, <1>19, <2>1, <2>2 DEF EndCommand, SetGoal, StartGoal, Clear, StartSkill, EndSkill
<1>20. CASE Cancel
  BY <1>1, <1>20 DEF Cancel, Stopped, JobType, Seen, Free
<1>21. CASE RestoreQueued
  BY <1>21 DEF RestoreQueued, Seen, Free
<1>22. CASE WorkArrives
  <2>1. CASE running \/ \E j \in Jobs : job[j].pc = "compact"
    BY <1>4, <1>5, <1>22, <2>1 DEF WorkArrives, Free
  <2>2. CASE ~(running \/ \E j \in Jobs : job[j].pc = "compact")
    <3>1. timer' = Armed(guard', queue', work')
      BY <1>22, <2>2 DEF WorkArrives
    <3> QED
      BY <1>2, <3>1 DEF Seen, Armed, CanResume
  <2> QED
    BY <2>1, <2>2
<1>23. CASE TimerFires
  <2>1. CASE ~CanResume(guard, queue, work)
    <3>1. guard' = guard /\ queue' = queue /\ work' = work
      BY <1>23, <2>1 DEF TimerFires
    <3> QED
      BY <1>2, <2>1, <3>1 DEF Seen, CanResume
  <2>2. CASE CanResume(guard, queue, work) /\ queue = Empty
    BY <1>2, <1>23, <2>2 DEF TimerFires, ResumesTurn, Begun
  <2>3. CASE CanResume(guard, queue, work) /\ queue # Empty /\ queue.messages # {}
    <3>1. guard' = Dispatching(guard)
      BY <1>23, <2>3 DEF TimerFires
    <3> QED
      BY <1>1, <1>2, <3>1 DEF Dispatching, GuardType
  <2>4. CASE CanResume(guard, queue, work) /\ queue # Empty /\ queue.messages = {}
    <3> DEFINE i == Head(queue.commands)
               done == HandleSlash(i, guard, Rest(queue))
    <3>1. PICK j \in Jobs : job' = [job EXCEPT ![j] = done.job]
      BY <1>23, <2>4 DEF TimerFires
    <3>2. i \in Inputs /\ Rest(queue) \in QueueType
      BY <1>1, <2>4, QueueTypes
    <3>3. done.job.pc # "free"
      BY <1>1, <2>4, <3>2, SlashOutcome DEF CanResume, CanBegin
    <3> HIDE DEF done
    <3> QED
      BY <1>3, <3>1, <3>3
  <2> QED
    BY <2>1, <2>2, <2>3, <2>4
<1>24. CASE UNCHANGED vars
  BY <1>7, <1>24 DEF vars
<1>25. \A j \in Jobs : ~HooksBlock(j) /\ ~Refuse(j)
  BY DEF Plain, HooksBlock, Refuse
<1>26. \A i \in Inputs : ~RemoteQueued(i)
  BY DEF Plain, RemoteQueued
<1> QED
  BY <1>8, <1>9, <1>11, <1>12, <1>13, <1>14, <1>15, <1>16, <1>17, <1>18, <1>19, <1>20, <1>21,
     <1>22, <1>23, <1>24, <1>25, <1>26 DEF Next, JobStep

LEMMA StepNoSkill ==
    ASSUME Plain, IInv, NoSkill, [Next]_vars
    PROVE  NoSkill'
<1> DEFINE Fine(k) == k.pc \notin {"skill", "goal"} /\ (k.pc = "slash" => \E i \in Inputs : k.carries = {i})
<1>1. /\ guard \in GuardType /\ job \in [Jobs -> JobType] /\ queue \in QueueType
      /\ queue # Empty => Rest(queue) \in QueueType
      /\ queue # Empty /\ queue.messages = {} => Head(queue.commands) \in Inputs
      /\ \A j \in Jobs : Fine(job[j])
  BY QueueTypes DEF IInv, TypeOK, GuardType, JobType, QueueType, NoSkill
<1>2. ASSUME NEW j \in Jobs, NEW k, job' = [job EXCEPT ![j] = k], Fine(k) PROVE NoSkill'
  <2>1. \A i \in Jobs : job'[i] = IF i = j THEN k ELSE job[i]
    BY <1>1, <1>2
  <2> QED
    BY <1>1, <1>2, <2>1 DEF NoSkill
<1>3. job' = job => NoSkill'
  BY DEF NoSkill
<1>4. ASSUME NEW i \in Inputs, NEW g \in GuardType, NEW q \in QueueType
      PROVE  Fine(HandleSlash(i, g, q).job)
  BY SlashOutcome
<1>5. /\ \A i \in Inputs : Kind[i] # "skill"
      /\ \A inputs, gen, hold : Fine(At("hooks", inputs, gen, hold)) /\ Fine(At("live", inputs, gen, hold))
      /\ Fine(Idle)
  BY DEF Plain, At, Idle
<1> HIDE DEF Fine
<1>6. ASSUME NEW i \in Inputs, SubmitText(i) PROVE NoSkill'
  BY <1>2, <1>3, <1>5, <1>6 DEF SubmitText
<1>7. ASSUME NEW i \in Inputs, SubmitCommand(i) PROVE NoSkill'
  BY <1>1, <1>2, <1>3, <1>4, <1>7 DEF SubmitCommand
<1>8. ASSUME NEW j \in Jobs, NEW inputs, ClaimsTurn(j, inputs) PROVE NoSkill'
  <2>1. Fine([job[j] EXCEPT !.pc = "claimed", !.carries = inputs, !.hold = "none"])
    BY <1>1 DEF JobType, Fine
  <2> QED
    BY <1>2, <1>5, <1>8, <2>1 DEF ClaimsTurn
<1>9. ASSUME NEW i \in Inputs, RemoteMessage(i) PROVE NoSkill'
  BY <1>3, <1>8, <1>9 DEF RemoteMessage
<1>10. ASSUME NEW i \in Inputs, RemoteQueued(i) PROVE NoSkill'
  BY <1>3, <1>10 DEF RemoteQueued
<1>11. ASSUME NEW j \in Jobs, HooksPass(j) \/ StartInline(j) PROVE NoSkill'
  BY <1>8, <1>11 DEF HooksPass, StartInline
<1>12. ASSUME NEW j \in Jobs,
              HooksBlock(j) \/ Refuse(j) \/ EndCompact(j) \/ EndSkill(j)
       PROVE  NoSkill'
  BY <1>2, <1>5, <1>12 DEF HooksBlock, Refuse, EndCompact, EndSkill
<1>13. ASSUME NEW j \in Jobs, NEW gen, Finally(j, gen), gen \in Nat PROVE NoSkill'
  <2> DEFINE isLive  == gen # 0 /\ Settles(guard, gen)
             settled == IF gen # 0 THEN Settled(guard, gen) ELSE guard
             promote == ~isLive /\ queue # Empty /\ CanReserve(settled)
             held    == IF promote THEN Dispatching(settled) ELSE settled
  <2>1. held \in GuardType
    BY <1>1, <1>13, GuardTypes
  <2>2. CASE ~((isLive \/ promote) /\ queue # Empty)
    BY <1>2, <1>5, <1>13, <2>2 DEF Finally
  <2>3. CASE (isLive \/ promote) /\ queue # Empty /\ queue.messages # {}
    BY <1>2, <1>5, <1>13, <2>3 DEF Finally
  <2>4. CASE (isLive \/ promote) /\ queue # Empty /\ queue.messages = {}
    <3>1. job' = [job EXCEPT ![j] = HandleSlash(Head(queue.commands), held, Rest(queue)).job]
      BY <1>13, <2>4 DEF Finally
    <3> QED
      BY <1>1, <1>2, <1>4, <2>1, <2>4, <3>1
  <2> QED
    BY <2>2, <2>3, <2>4
<1>14. ASSUME NEW j \in Jobs, OpenTurn(j) PROVE NoSkill'
  <2>1. CASE CanBegin(guard)
    <3>1. Fine([job[j] EXCEPT !.pc = "opening", !.gen = guard.gen + 1])
      BY <1>1 DEF JobType, Fine
    <3> QED
      BY <1>1, <1>2, <1>14, <2>1, <3>1 DEF OpenTurn
  <2>2. CASE ~CanBegin(guard)
    BY <1>13, <1>14, <2>2 DEF OpenTurn
  <2> QED
    BY <2>1, <2>2
<1>15. ASSUME NEW j \in Jobs, EnterLoop(j) PROVE NoSkill'
  <2>1. Fine([job[j] EXCEPT !.pc = "live"])
    BY <1>1 DEF JobType, Fine
  <2> QED
    BY <1>1, <1>2, <1>15, <2>1 DEF EnterLoop
<1>16. ASSUME NEW j \in Jobs, Boundary(j) PROVE NoSkill'
  BY <1>3, <1>16 DEF Boundary
<1>17. ASSUME NEW j \in Jobs, EndTurn(j) PROVE NoSkill'
  BY <1>1, <1>13, <1>17 DEF EndTurn, JobType
<1>18. CASE Retry
  BY <1>2, <1>3, <1>5, <1>18 DEF Retry, ResumesTurn
<1>19. ASSUME NEW j \in Jobs, EndCommand(j) \/ SetGoal(j) \/ StartGoal(j) \/ Clear(j) \/ StartSkill(j)
       PROVE  NoSkill'
  <2>1. job[j].pc = "slash" => \E i \in Inputs : job[j].carries = {i}
    BY DEF NoSkill
  <2>2. job[j].pc # "goal" /\ \A i \in Inputs : Kind[i] \notin {"command", "clear", "skill"}
    BY DEF NoSkill, Plain
  <2> QED
    BY <1>19, <2>1, <2>2 DEF EndCommand, SetGoal, StartGoal, Clear, StartSkill
<1>20. CASE Cancel
  BY <1>1, <1>20 DEF Cancel, Stopped, JobType, NoSkill
<1>21. CASE RestoreQueued \/ WorkArrives \/ UNCHANGED vars
  BY <1>3, <1>21 DEF RestoreQueued, WorkArrives, vars
<1>22. CASE TimerFires
  <2>1. CASE ~CanResume(guard, queue, work)
    BY <1>3, <1>22, <2>1 DEF TimerFires
  <2>2. CASE CanResume(guard, queue, work) /\ queue = Empty
    BY <1>2, <1>5, <1>22, <2>2 DEF TimerFires, ResumesTurn
  <2>3. CASE CanResume(guard, queue, work) /\ queue # Empty /\ queue.messages # {}
    BY <1>2, <1>5, <1>22, <2>3 DEF TimerFires
  <2>4. CASE CanResume(guard, queue, work) /\ queue # Empty /\ queue.messages = {}
    <3>1. PICK j \in Jobs :
             job' = [job EXCEPT ![j] = HandleSlash(Head(queue.commands), guard, Rest(queue)).job]
      BY <1>22, <2>4 DEF TimerFires
    <3> QED
      BY <1>1, <1>2, <1>4, <2>4, <3>1
  <2> QED
    BY <2>1, <2>2, <2>3, <2>4
<1> QED
  BY <1>6, <1>7, <1>9, <1>10, <1>11, <1>12, <1>14, <1>15, <1>16, <1>17, <1>18, <1>19, <1>20,
     <1>21, <1>22 DEF Next, JobStep

\* When nothing is under way the guard, the busy flag and the busy line all say
\* idle. The hypothesis leaves out a promoted prompt that a hook blocks or whose
\* image is refused: promoteContinuation relies on the next runSubmittedTurn for
\* runningRef, and that call returns without touching it.
THEOREM IdleSessionLooksIdle ==
    ASSUME "block" \notin Features, "refuse" \notin Features
    PROVE  Spec => []IdleShowsIdle
<1>1. Init => IInv /\ Backed
  BY InitSafe DEF Init, Backed
<1>2. (IInv /\ Backed) /\ [Next]_vars => (IInv /\ Backed)'
  BY StepSafe, StepBacked
<1>3. IInv /\ Backed => IdleShowsIdle
  <2>1. IInv /\ Backed /\ (\A j \in Jobs : Free(j)) => ~running /\ guard.state = "idle"
    BY ActiveIsBacked DEF Backed, Free, Clears
  <2> QED
    BY <2>1 DEF IdleShowsIdle, Quiet
<1> QED
  BY <1>1, <1>2, <1>3, PTL DEF Spec

\* Whatever order submissions, ends, stops and wake-ups come in, a session with
\* no chain under way and no debounce armed has nothing queued and nothing
\* parked: whoever saw a busy session left its input to a chain that, at its end,
\* goes on with it or arms the debounce.
THEOREM NobodyIsStranded ==
    ASSUME Plain
    PROVE  Spec => []NothingStranded
<1> DEFINE All == IInv /\ Backed /\ NoSkill /\ Seen
<1>1. Init => All
  <2>1. Init => Backed /\ NoSkill /\ Seen
    BY DEF Init, Backed, NoSkill, Seen, Idle, Empty
  <2> QED
    BY <2>1, InitSafe
<1>2. All /\ [Next]_vars => All'
  <2>1. "block" \notin Features /\ "refuse" \notin Features
    BY DEF Plain
  <2>2. All /\ [Next]_vars => IInv' /\ Backed' /\ NoSkill'
    BY <2>1, StepSafe, StepBacked, StepNoSkill
  <2> QED
    BY <2>2, StepSeen
<1>3. All => NothingStranded
  BY DEF Seen, NothingStranded, Quiet, IInv, TypeOK
<1> QED
  BY <1>1, <1>2, <1>3, PTL DEF Spec

============================================================================
