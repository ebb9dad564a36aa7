---------------------------- MODULE TurnDispatch ----------------------------
(***************************************************************************)
(* How the terminal UI turns input into turns. Four asynchronous paths     *)
(* start work: a submission, a slash command, a message from a paired      *)
(* phone and the background-resume timer. They meet in the TurnGuard       *)
(* (engine/queue/runtime/turn/guard.ts), in the prompt queue, and in       *)
(* runningRef, the flag the submission gate reads. JavaScript runs until   *)
(* an await, so one action here is the code between two awaits; the state  *)
(* read before an await may be stale after it, which is what goes wrong.   *)
(*                                                                         *)
(* A job is one call chain (runSubmittedTurn with the promotion its        *)
(* finally starts, a compact, a skill run). The agent's turn loop is       *)
(* abstract: it drains the queue at boundaries and ends.                   *)
(***************************************************************************)
EXTENDS Naturals, Sequences, FiniteSets

CONSTANTS
    Inputs,     \* the prompts the user or a phone sends, each once
    Kind,       \* what each input is
    Jobs,       \* call chains that may be under way together (a bound)
    MaxGen,     \* bound on the guard's generation
    Features    \* the optional events this instance explores

Slashes == {"compact", "skill", "inline", "command", "clear"}
Kinds == {"text", "remote"} \cup Slashes

ASSUME KindAssumption == Kind \in [Inputs -> Kinds]
ASSUME BoundAssumption == MaxGen \in Nat

VARIABLES
    guard,      \* TurnGuard: its state and its generation
    running,    \* runningRef.current
    queue,      \* the store's queued messages
    timer,      \* the background-resume debounce is armed
    work,       \* an injection or notification waits for the model
    job,        \* what each call chain is awaiting
    panel,      \* the error overlay is open
    fresh       \* inputs not sent yet

vars == <<guard, running, queue, timer, work, job, panel, fresh>>

IsSlash(i) == Kind[i] \in Slashes

(***************************************************************************)
(* The queue. Messages are always taken together and joined, commands one  *)
(* at a time and in order, so the two are kept apart.                      *)
(***************************************************************************)
Empty == [messages |-> {}, commands |-> <<>>]
Queued(q) == q.messages \cup {q.commands[n] : n \in DOMAIN q.commands}
Pushed(q, i) ==
    IF IsSlash(i) THEN [q EXCEPT !.commands = Append(@, i)] ELSE [q EXCEPT !.messages = @ \cup {i}]
\* The pending-input drainer takes the messages and keeps the commands.
Drained(q) == [q EXCEPT !.messages = {}]

(***************************************************************************)
(* A job. pc: awaiting the prompt hooks, holding a claim while the record  *)
(* is written or a ! command runs, begun while images are read, in the     *)
(* agent loop, in a slash handler or recording a goal, in a compact, in a  *)
(* skill fork. hold: who reserved the guard for it. cancelled is history:  *)
(* the user stopped this job while it held the guard.                      *)
(***************************************************************************)
Turning == {"opening", "live", "compact", "skill"}
Pcs == {"free", "hooks", "claimed", "slash", "goal"} \cup Turning
Idle == [pc |-> "free", carries |-> {}, gen |-> 0, hold |-> "none", cancelled |-> FALSE]
At(pc, inputs, gen, hold) ==
    [pc |-> pc, carries |-> inputs, gen |-> gen, hold |-> hold, cancelled |-> FALSE]

Free(j) == job[j].pc = "free"
Holds(k, g) ==
    \/ g.state = "dispatching" /\ (k.pc = "claimed" \/ (k.pc = "hooks" /\ k.hold # "none"))
    \/ g.state = "running" /\ k.pc \in Turning /\ k.gen = g.gen

Init ==
    /\ guard = [state |-> "idle", gen |-> 0]
    /\ running = FALSE
    /\ queue = Empty
    /\ timer = FALSE
    /\ work = FALSE
    /\ job = [j \in Jobs |-> Idle]
    /\ panel = FALSE
    /\ fresh = Inputs

-----------------------------------------------------------------------------
(* TurnGuard, operation by operation. *)

\* reserve(): only an idle guard can be reserved.
CanReserve(g) == g.state = "idle"
\* claim(): false only when a turn is running.
CanClaim(g) == g.state # "running"
\* begin(): idle or dispatching; null when a turn is running.
CanBegin(g) == g.state # "running"
Dispatching(g) == [g EXCEPT !.state = "dispatching"]
Begun(g) == [state |-> "running", gen |-> g.gen + 1]
\* Fault: a reservation is never released.
Released_Never(g) == g
\* cancelReservation()
Released(g) == IF g.state = "dispatching" THEN [g EXCEPT !.state = "idle"] ELSE g
\* Fault: a stale turn settles the turn that replaced it.
Settles_Any(g, n) == g.state = "running"
\* settle(generation)
Settles(g, n) == g.state = "running" /\ g.gen = n
\* Fault: the generation test is off by one.
Settled_Late(g, n) == IF g.state = "running" /\ n < g.gen THEN [g EXCEPT !.state = "idle"] ELSE g
Settled(g, n) == IF Settles(g, n) THEN [g EXCEPT !.state = "idle"] ELSE g
\* abort()
Aborted(g) == IF g.state = "idle" THEN g ELSE [state |-> "idle", gen |-> g.gen + 1]

-----------------------------------------------------------------------------
(* requestBackgroundResume() and what it tests. *)

\* Fault: only queued input wakes the session.
CanResume_QueueOnly(g, q, w) == g.state = "idle" /\ q # Empty
CanResume(g, q, w) == g.state = "idle" /\ (q # Empty \/ w)
Armed(g, q, w) == timer \/ CanResume(g, q, w)

Rest(q) == IF q.messages # {} THEN Drained(q) ELSE [q EXCEPT !.commands = Tail(@)]

\* handleSlash(): a compact holds the guard from here, or queues behind the
\* turn that has it; any other command goes on asynchronously.
HandleSlash(i, g, q) ==
    IF Kind[i] # "compact"
    THEN [guard |-> g, queue |-> q, running |-> FALSE, job |-> At("slash", {i}, 0, "none")]
    ELSE IF CanBegin(g)
    THEN [guard |-> Begun(g), queue |-> q, running |-> TRUE,
          job |-> At("compact", {i}, g.gen + 1, "none")]
    ELSE [guard |-> g, queue |-> Pushed(q, i), running |-> FALSE, job |-> Idle]

-----------------------------------------------------------------------------
(* How a turn starts. *)

\* runSubmittedTurn(text) up to its first await: a running turn turns the call
\* away, otherwise the guard is claimed while the record is written.
ClaimsTurn(j, inputs) ==
    IF CanClaim(guard)
    THEN /\ guard' = Dispatching(guard)
         /\ job' = [job EXCEPT ![j] =
               [@ EXCEPT !.pc = "claimed", !.carries = inputs, !.hold = "none"]]
    ELSE /\ job' = [job EXCEPT ![j] = Idle]
         /\ UNCHANGED guard

\* runSubmittedTurn(""): nothing to record, so it claims, begins and enters the
\* agent loop at once; the loop takes what was queued or parked.
ResumesTurn(j) ==
    /\ CanClaim(guard)
    /\ guard' = Begun(guard)
    /\ running' = TRUE
    /\ job' = [job EXCEPT ![j] = At("live", {}, guard.gen + 1, "none")]
    /\ queue' = Drained(queue)
    /\ work' = FALSE

\* A typed message: behind a running turn it queues, otherwise it goes through
\* the prompt hooks, and nothing is claimed while they run.
SubmitText(i) ==
    /\ i \in fresh /\ Kind[i] = "text" /\ ~panel
    /\ fresh' = fresh \ {i}
    /\ IF running
       THEN queue' = Pushed(queue, i) /\ UNCHANGED job
       ELSE \E j \in Jobs :
              /\ Free(j)
              /\ job' = [job EXCEPT ![j] = At("hooks", {i}, 0, "none")]
              /\ UNCHANGED queue
    /\ UNCHANGED <<guard, running, timer, work, panel>>

\* A typed command that is not an immediate one.
SubmitCommand(i) ==
    /\ i \in fresh /\ IsSlash(i) /\ ~panel
    /\ fresh' = fresh \ {i}
    /\ IF running
       THEN queue' = Pushed(queue, i) /\ UNCHANGED <<guard, running, job>>
       ELSE \E j \in Jobs : LET done == HandleSlash(i, guard, queue) IN
              /\ Free(j)
              /\ guard' = done.guard
              /\ queue' = done.queue
              /\ running' = done.running
              /\ job' = [job EXCEPT ![j] = done.job]
    /\ UNCHANGED <<timer, work, panel>>

\* A message from a paired phone takes the same gate without the hooks.
RemoteMessage(i) ==
    /\ i \in fresh /\ Kind[i] = "remote"
    /\ fresh' = fresh \ {i}
    /\ IF running
       THEN queue' = Pushed(queue, i) /\ UNCHANGED <<guard, job>>
       ELSE \E j \in Jobs : Free(j) /\ ClaimsTurn(j, {i}) /\ UNCHANGED queue
    /\ UNCHANGED <<running, timer, work, panel>>

\* A message the phone itself queued, believing a turn is live.
RemoteQueued(i) ==
    /\ "phone_queue" \in Features
    /\ i \in fresh /\ Kind[i] = "remote"
    /\ fresh' = fresh \ {i}
    /\ queue' = Pushed(queue, i)
    /\ UNCHANGED <<guard, running, timer, work, job, panel>>

\* Fault: a prompt waits for an idle guard, its own reservation included.
HooksPass_WaitsIdle(j) ==
    /\ job[j].pc = "hooks" /\ CanReserve(guard)
    /\ ClaimsTurn(j, job[j].carries)
    /\ UNCHANGED <<running, queue, timer, work, panel, fresh>>

\* The prompt hooks let the prompt through.
HooksPass(j) ==
    /\ job[j].pc = "hooks"
    /\ ClaimsTurn(j, job[j].carries)
    /\ UNCHANGED <<running, queue, timer, work, panel, fresh>>

\* A hook blocks it: whoever reserved the guard for it lets go.
HooksBlock(j) ==
    /\ "block" \in Features
    /\ job[j].pc = "hooks"
    /\ LET after == IF job[j].hold = "none" THEN guard ELSE Released(guard) IN
         /\ guard' = after
         /\ timer' = IF job[j].hold = "driver" THEN Armed(after, queue, work) ELSE timer
    /\ job' = [job EXCEPT ![j] = Idle]
    /\ UNCHANGED <<running, queue, work, panel, fresh>>

\* An image nobody can read, or a record that cannot be written, gives the
\* claim back.
Refuse(j) ==
    /\ "refuse" \in Features
    /\ job[j].pc = "claimed"
    /\ guard' = Released(guard)
    /\ job' = [job EXCEPT ![j] = Idle]
    /\ UNCHANGED <<running, queue, timer, work, panel, fresh>>

-----------------------------------------------------------------------------
(* How a turn ends: the finally of runSubmittedTurn. *)

\* gen is 0 when begin() found another turn running.
Finally(j, gen) ==
    LET isLive  == gen # 0 /\ Settles(guard, gen)
        settled == IF gen # 0 THEN Settled(guard, gen) ELSE guard
        promote == ~isLive /\ queue # Empty /\ CanReserve(settled)
        held    == IF promote THEN Dispatching(settled) ELSE settled
    IN  IF ~((isLive \/ promote) /\ queue # Empty)
        THEN /\ guard' = settled
             /\ running' = FALSE
             /\ job' = [job EXCEPT ![j] = Idle]
             /\ timer' = Armed(settled, queue, work)
             /\ UNCHANGED queue
        ELSE IF queue.messages # {}
        THEN /\ guard' = held
             /\ queue' = Rest(queue)
             /\ job' = [job EXCEPT ![j] =
                   At("hooks", queue.messages, 0, IF promote THEN "finally" ELSE "none")]
             /\ UNCHANGED <<running, timer>>
        ELSE LET done == HandleSlash(Head(queue.commands), held, Rest(queue)) IN
             /\ guard' = IF promote THEN Released(done.guard) ELSE done.guard
             /\ queue' = done.queue
             /\ running' = done.running
             /\ job' = [job EXCEPT ![j] = done.job]
             /\ timer' = Armed(done.guard, done.queue, work)

\* The record is written: beginTurn() and begin(). A null begin() returns
\* through the finally.
OpenTurn(j) ==
    /\ job[j].pc = "claimed"
    /\ IF CanBegin(guard)
       THEN /\ guard' = Begun(guard)
            /\ running' = TRUE
            /\ job' = [job EXCEPT ![j].pc = "opening", ![j].gen = guard.gen + 1]
            /\ UNCHANGED <<queue, timer>>
       ELSE Finally(j, 0)
    /\ UNCHANGED <<work, panel, fresh>>

\* The images are read: agent.runTurn clears the cancelled flag and starts.
EnterLoop(j) ==
    /\ job[j].pc = "opening"
    /\ job' = [job EXCEPT ![j].pc = "live"]
    /\ work' = FALSE
    /\ UNCHANGED <<guard, running, queue, timer, panel, fresh>>

\* A boundary of a turn that was not cancelled takes what waits for the model.
Boundary(j) ==
    /\ job[j].pc = "live" /\ Settles(guard, job[j].gen)
    /\ work \/ queue.messages # {}
    /\ queue' = Drained(queue)
    /\ work' = FALSE
    /\ UNCHANGED <<guard, running, timer, job, panel, fresh>>

\* The turn ends, by itself, by an error or because it was cancelled; the
\* error panel opens when it still owns the guard.
EndTurn(j) ==
    /\ job[j].pc \in {"opening", "live"}
    /\ panel' \in {panel, panel \/ ("retry" \in Features /\ guard.gen = job[j].gen)}
    /\ Finally(j, job[j].gen)
    /\ UNCHANGED <<work, fresh>>

\* The error panel's retry.
Retry ==
    /\ panel /\ guard.gen < MaxGen
    /\ panel' = FALSE
    /\ IF ~running /\ CanClaim(guard)
       THEN \E j \in Jobs : Free(j) /\ ResumesTurn(j)
       ELSE UNCHANGED <<guard, running, job, queue, work>>
    /\ UNCHANGED <<timer, fresh>>

-----------------------------------------------------------------------------
(* Slash commands. *)

\* A compact ends, cancelled or not.
EndCompact(j) ==
    /\ job[j].pc = "compact"
    /\ LET settled == Settled(guard, job[j].gen) IN
         /\ guard' = settled
         /\ timer' = Armed(settled, queue, work)
    /\ running' = FALSE
    /\ job' = [job EXCEPT ![j] = Idle]
    /\ UNCHANGED <<queue, work, panel, fresh>>

\* applySlashResult: the command has run. Its words may be a prompt, which
\* passes no hooks and is not sent while a turn shows.
EndCommand(j) ==
    /\ job[j].pc = "slash" /\ \A i \in job[j].carries : Kind[i] = "command"
    /\ \/ job' = [job EXCEPT ![j] = Idle] /\ UNCHANGED guard
       \/ ~running /\ ClaimsTurn(j, job[j].carries)
    /\ UNCHANGED <<running, queue, timer, work, panel, fresh>>

\* A goal leaves a message for the model, which a turn that runs will take.
SetGoal(j) ==
    /\ job[j].pc = "slash" /\ \A i \in job[j].carries : Kind[i] = "command"
    /\ work' = TRUE
    /\ job' = [job EXCEPT ![j] = IF running THEN Idle ELSE At("goal", @.carries, 0, "none")]
    /\ UNCHANGED <<guard, running, queue, timer, panel, fresh>>

\* If none ran then, the goal starts one, once the command is recorded.
StartGoal(j) ==
    /\ job[j].pc = "goal"
    /\ ClaimsTurn(j, {})
    /\ UNCHANGED <<running, queue, timer, work, panel, fresh>>

\* The user's stop reaches every job that holds the guard, and only those.
Stopped == [j \in Jobs |->
    IF Holds(job[j], guard) THEN [job[j] EXCEPT !.cancelled = TRUE] ELSE job[j]]

\* clearTranscript(): a turn that is running is aborted, the queue is emptied.
Clear(j) ==
    /\ job[j].pc = "slash" /\ \E i \in job[j].carries : Kind[i] = "clear"
    /\ guard' = IF running THEN Aborted(guard) ELSE guard
    /\ job' = [(IF running THEN Stopped ELSE job) EXCEPT ![j] = Idle]
    /\ running' = FALSE
    /\ queue' = Empty
    /\ UNCHANGED <<timer, work, panel, fresh>>

\* A skill that expands inline is a prompt like any other, and passes no gate.
StartInline(j) ==
    /\ job[j].pc = "slash" /\ \E i \in job[j].carries : Kind[i] = "inline"
    /\ ClaimsTurn(j, job[j].carries)
    /\ UNCHANGED <<running, queue, timer, work, panel, fresh>>

\* A forked skill begins the guard, or runs without it when a turn is live.
StartSkill(j) ==
    /\ job[j].pc = "slash" /\ \E i \in job[j].carries : Kind[i] = "skill"
    /\ running' = TRUE
    /\ IF CanBegin(guard)
       THEN /\ guard' = Begun(guard)
            /\ job' = [job EXCEPT ![j].pc = "skill", ![j].gen = guard.gen + 1]
       ELSE /\ job' = [job EXCEPT ![j].pc = "skill"]
            /\ UNCHANGED guard
    /\ UNCHANGED <<queue, timer, work, panel, fresh>>

\* It resumes the session only when it was not cancelled.
EndSkill(j) ==
    /\ job[j].pc = "skill"
    /\ LET gen       == job[j].gen
           settled   == IF gen # 0 THEN Settled(guard, gen) ELSE guard
           cancelled == gen # 0 /\ ~Settles(guard, gen)
       IN  /\ guard' = settled
           /\ running' = (running /\ gen # 0 /\ guard.gen > gen + 1)
           /\ timer' = IF cancelled THEN timer ELSE Armed(settled, queue, work)
    /\ job' = [job EXCEPT ![j] = Idle]
    /\ UNCHANGED <<queue, work, panel, fresh>>

-----------------------------------------------------------------------------
(* Around the turns. *)

\* Esc with an empty prompt: cancelTurn().
Cancel ==
    /\ "cancel" \in Features
    /\ running /\ guard.state # "idle" /\ guard.gen < MaxGen
    /\ guard' = Aborted(guard)
    /\ job' = Stopped
    /\ UNCHANGED <<running, queue, timer, work, panel, fresh>>

\* The user takes the queued messages back into the prompt.
RestoreQueued ==
    /\ "restore" \in Features
    /\ queue # Empty
    /\ queue' = Empty
    /\ UNCHANGED <<guard, running, timer, work, job, panel, fresh>>

\* A notification is parked for the model; an idle session is woken.
WorkArrives ==
    /\ "work" \in Features
    /\ ~work /\ guard.gen < MaxGen
    /\ work' = TRUE
    /\ timer' = IF running \/ \E j \in Jobs : job[j].pc = "compact"
                THEN timer ELSE Armed(guard, queue, TRUE)
    /\ UNCHANGED <<guard, running, queue, job, panel, fresh>>

\* The debounce fires: queued input first, else an empty resume turn.
TimerFires ==
    /\ timer
    /\ IF ~CanResume(guard, queue, work)
       THEN timer' = FALSE /\ UNCHANGED <<guard, running, queue, work, job>>
       ELSE \E j \in Jobs :
              /\ Free(j)
              /\ IF queue = Empty THEN ResumesTurn(j) /\ timer' = FALSE
                 ELSE IF queue.messages # {}
                 THEN /\ guard' = Dispatching(guard)
                      /\ queue' = Rest(queue)
                      /\ job' = [job EXCEPT ![j] = At("hooks", queue.messages, 0, "driver")]
                      /\ timer' = FALSE
                      /\ UNCHANGED <<running, work>>
                 ELSE LET done == HandleSlash(Head(queue.commands), guard, Rest(queue)) IN
                      /\ guard' = done.guard
                      /\ queue' = done.queue
                      /\ running' = (running \/ done.running)
                      /\ job' = [job EXCEPT ![j] = done.job]
                      /\ timer' = CanResume(done.guard, done.queue, work)
                      /\ UNCHANGED work
    /\ UNCHANGED <<panel, fresh>>

JobStep(j) ==
    \/ HooksPass(j) \/ HooksBlock(j) \/ Refuse(j)
    \/ OpenTurn(j) \/ EnterLoop(j) \/ Boundary(j) \/ EndTurn(j)
    \/ EndCompact(j) \/ EndCommand(j) \/ SetGoal(j) \/ StartGoal(j) \/ Clear(j)
    \/ StartInline(j) \/ StartSkill(j) \/ EndSkill(j)

Next ==
    \/ \E i \in Inputs : SubmitText(i) \/ SubmitCommand(i) \/ RemoteMessage(i) \/ RemoteQueued(i)
    \/ \E j \in Jobs : JobStep(j)
    \/ TimerFires \/ WorkArrives \/ Cancel \/ RestoreQueued \/ Retry

Spec == Init /\ [][Next]_vars

\* Every await ends: hooks, records, images and slash handlers have timeouts,
\* and the agent's loop ends or is cancelled. The debounce is a timer.
Progress(j) ==
    \/ HooksPass(j) \/ HooksBlock(j) \/ Refuse(j)
    \/ OpenTurn(j) \/ EnterLoop(j) \/ EndTurn(j)
    \/ EndCompact(j) \/ EndCommand(j) \/ StartGoal(j) \/ Clear(j)
    \/ StartInline(j) \/ StartSkill(j) \/ EndSkill(j)

FairSpec ==
    /\ Spec
    /\ \A j \in Jobs : WF_vars(Progress(j))
    /\ WF_vars(TimerFires)

-----------------------------------------------------------------------------
\* The shape of the state; the generation never becomes negative.
TypeOK ==
    /\ guard \in [state : {"idle", "dispatching", "running"}, gen : Nat]
    /\ running \in BOOLEAN /\ timer \in BOOLEAN /\ work \in BOOLEAN /\ panel \in BOOLEAN
    /\ queue \in [messages : SUBSET Inputs, commands : Seq(Inputs)]
    /\ fresh \subseteq Inputs
    /\ job \in [Jobs -> [pc : Pcs, carries : SUBSET Inputs, gen : Nat,
                         hold : {"none", "finally", "driver"}, cancelled : BOOLEAN]]

\* The claim comment of submitted-turn.ts (196-198): whatever happens between
\* claim and begin, the guard never sticks. A guard that is not idle always has
\* a call chain under way that will give it back.
GuardHasHolder == guard.state # "idle" => \E j \in Jobs : Holds(job[j], guard)

\* No generation is held twice, and a turn that began under the guard loses it
\* only to the user: at most one turn runs that nobody stopped.
TurnsAreSerial ==
    \A j \in Jobs : job[j].pc \in Turning /\ job[j].gen # 0 =>
        /\ \A k \in Jobs \ {j} : job[k].pc \in Turning => job[k].gen # job[j].gen
        /\ ~Settles(guard, job[j].gen) => job[j].cancelled

Quiet == ~timer /\ \A j \in Jobs : Free(j)

\* Every path that leaves input in the queue or work parked also leaves something
\* that will look at it: a session where nothing is under way has no queued input and no parked work.
NothingStranded == Quiet => queue = Empty /\ ~work

\* The submission gate (runningRef), the busy line and the guard are cleared on
\* different paths; when nothing is under way all of them say idle, or the user
\* could neither send nor cancel.
IdleShowsIdle == Quiet => ~running /\ guard.state = "idle"

\* Input queued behind a turn is not forgotten, whatever ends that turn: it
\* leaves the queue, for the model, for its own turn or back to the prompt.
QueuedIsTaken ==
    \A i \in Inputs : (i \in Queued(queue)) ~> (i \notin Queued(queue))
=============================================================================
