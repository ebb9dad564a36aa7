--------------------------- MODULE BackgroundTasks ---------------------------
(***************************************************************************)
(* Background agents and shells: the task store of                         *)
(* src/engine/background/tasks/background.ts, the fork runs that execute   *)
(* the agents (subagents/fork), and the notifications they leave in the    *)
(* delivery queue.                                                         *)
(*                                                                         *)
(* A task is a row of the store and survives its runs; a run is one        *)
(* execution of it, named by its run token.  A task id is also the id of   *)
(* the fork that runs it, so it is the owner of what that fork starts.     *)
(* Store calls run to completion; every await of a run is a step boundary. *)
(***************************************************************************)
EXTENDS Naturals, FiniteSets

CONSTANTS
    Tasks,     \* task ids (bound: tasks of the session)
    Main,      \* the main conversation: no owner, no parent
    MaxRuns,   \* bound: run tokens minted
    Surfaces   \* ways to start, resume, stop and remove tasks in this instance

AllSurfaces == {"main", "nested", "directive", "shell", "send", "view", "cancel",
                "stop", "taskstop", "close", "evict",
                "late"}   \* an agent is sent to the background after it was aborted

ASSUME TasksAssumption == Main \notin Tasks /\ IsFiniteSet(Tasks)
ASSUME BoundsAssumption == MaxRuns \in Nat /\ Surfaces \subseteq AllSurfaces

Runs == 1..MaxRuns
NoRun == 0

VARIABLES
    store,    \* the task rows; "unborn" ids were never used, "evicted" rows left the store
    run,      \* the executions, by run token
    ctl,      \* backgroundControllers: the run a stop of this task would abort
    queue,    \* the task notifications waiting in the delivery queue
    posted    \* history: the runs that have posted a notification

vars == <<store, run, ctl, queue, posted>>

\* The store's calls nest, so they are functions of the whole state.
Now == [store |-> store, run |-> run, ctl |-> ctl, queue |-> queue, posted |-> posted]
Become(S) ==
    /\ store' = S.store
    /\ run' = S.run
    /\ ctl' = S.ctl
    /\ queue' = S.queue
    /\ posted' = S.posted

Present(S, t) == S.store[t].status \notin {"unborn", "evicted"}
Running(S, t) == S.store[t].status = "running"
Agent(S, t) == S.store[t].kind = "agent"

\* taskMatchesRun: the row is still the one this run belongs to.
Matches(S, k) == LET t == S.run[k].task IN Present(S, t) /\ S.store[t].token = k

\* The fork holds its notification owner from registration to the end of its unwinding.
Registered(S, k) == S.run[k].pc \in {"loop", "parked", "exit"}
IsOwnerRegistered(S, o) == \E k \in Runs : S.run[k].task = o /\ Registered(S, k)

KeyOf(S, t) == [task |-> t, gen |-> S.store[t].gen]
Inventory(S, o) == {e \in S.queue : e.owner = o /\ e.private}

HasRunningOwnedWork(S, o) == \E t \in Tasks : Running(S, t) /\ S.store[t].owner = o

----------------------------------------------------------------------------
(* Ending a task *)

\* A linked agent answers through its tool result.  Of the others, only a task that
\* was put in the background, and was not told before, leaves a notification.
Answers(S, t) == Agent(S, t) /\ S.store[t].mode = "linked"

\* Fault: a task that was told before is told again.
Notifies_Again(S, t) == ~Answers(S, t) /\ S.store[t].bg

Notifies(S, t) == ~Answers(S, t) /\ S.store[t].bg /\ ~S.store[t].notified

\* Fault: the registration of the owner is not looked at.
Private_Unchecked(S, t) == S.store[t].owner # Main

\* It goes to the owner while that fork is registered, else to main.
Private(S, t) == S.store[t].owner # Main /\ IsOwnerRegistered(S, S.store[t].owner)

Notice(S, t) ==
    [key |-> KeyOf(S, t), token |-> S.store[t].token, owner |-> S.store[t].owner,
     private |-> Private(S, t)]

\* finishTaskForRun and routeBackgroundedNotification, for the rows of ts.  A fork
\* parked in waitForOwner wakes as its notification is filed.
Conclude(S, ts, status) ==
    LET told == {t \in ts : Notifies(S, t)} IN
    [S EXCEPT
        !.store = [t \in Tasks |->
            IF t \notin ts THEN @[t]
            ELSE IF Answers(S, t)
                 THEN [@[t] EXCEPT !.status = status[t], !.term = "parent", !.notified = TRUE]
            ELSE IF t \in told
                 THEN [@[t] EXCEPT !.status = status[t], !.notified = TRUE,
                                   !.term = IF Private(S, t) THEN "owner" ELSE "main"]
            ELSE [@[t] EXCEPT !.status = status[t]]],
        !.queue = {e \in @ : ~\E t \in told : e.key = KeyOf(S, t)} \cup {Notice(S, t) : t \in told},
        !.run = [k \in Runs |->
            IF @[k].pc = "parked" /\ \E t \in told : Private(S, t) /\ S.store[t].owner = @[k].task
            THEN [@[k] EXCEPT !.pc = "loop"] ELSE @[k]],
        !.posted = @ \cup {S.store[t].token : t \in told}]

\* The rows these runs may still end.
Current(S, ks) == {t \in Tasks : Running(S, t) /\ S.store[t].token \in ks}

Finish(S, ks, status) == Conclude(S, Current(S, ks), [t \in Tasks |-> status])

----------------------------------------------------------------------------
(* Cancelling a tree *)

\* A controller's abort reaches the children linked to the signal of the run.
AbortClosure(S, ks) ==
    {k \in Runs : \A A \in SUBSET Runs :
        (/\ ks \subseteq A
         /\ \A c \in Runs : S.run[c].linked /\ S.run[c].caller \in A => c \in A) => k \in A}

\* Fault: only a run that has begun its loop hears the controller.
Abort_OnlyRegistered(S, ks) ==
    [S EXCEPT !.run = [k \in Runs |->
        IF k \in AbortClosure(S, ks) /\ Registered(S, k) THEN [@[k] EXCEPT !.aborted = TRUE]
        ELSE @[k]]]

Abort(S, ks) ==
    [S EXCEPT !.run = [k \in Runs |->
        IF k \in AbortClosure(S, ks) THEN [@[k] EXCEPT !.aborted = TRUE] ELSE @[k]]]

Children(S, t) == {c \in Tasks : Present(S, c) /\ Agent(S, c) /\ S.store[c].parent = t}

\* The rows a walk from r enters; detached children are left out unless forced.
Tree(S, r, force) ==
    {t \in Tasks : \A V \in SUBSET Tasks :
        (/\ r \in V
         /\ \A x \in V : \A c \in Children(S, x) :
                (force \/ S.store[c].mode = "linked") => c \in V) => t \in V}

HasRunningAgentDescendant(S, t) ==
    \E c \in Tree(S, t, TRUE) \ {t} : Running(S, c)

WasParked(S, t) == S.store[t].status = "completed" /\ HasRunningAgentDescendant(S, t)

\* Detached children of a walk that does not enter them: they move to main, once per run.
Orphaned(S, V) ==
    {c \in Tasks \ V : /\ \E x \in V : c \in Children(S, x)
                       /\ Running(S, c)
                       /\ ~S.store[c].moved}

Stoppable(S, V, r, force) ==
    {t \in V : Running(S, t) \/ (force /\ (t = r \/ WasParked(S, t)))}

Withdraw(S, ts) == {e \in S.queue : ~\E t \in ts : e.key = KeyOf(S, t)}

\* What the walk does to the rows, and to the notices of those it silences or moves.
Walked(S, killed, silenced, moves, byUser) ==
    LET halted(t) == IF byUser /\ t \in killed THEN "row" ELSE S.store[t].halted
        row(t) == [S.store[t] EXCEPT !.halted = halted(t)]
    IN  [S EXCEPT
            !.store = [t \in Tasks |->
                IF t \in killed /\ t \in silenced
                THEN [row(t) EXCEPT !.status = "killed", !.term = "discarded", !.notified = TRUE]
                ELSE IF t \in moves THEN [row(t) EXCEPT !.owner = Main, !.moved = TRUE]
                ELSE row(t)],
            !.queue = {IF \E t \in moves : e.key = KeyOf(S, t)
                       THEN [e EXCEPT !.owner = Main, !.private = FALSE] ELSE e
                         : e \in Withdraw(S, silenced)}]

\* cancelTaskTree.  Everything below the root is silenced, the root too when it is
\* linked or "quiet"; a row that is already killed is not killed again.
CancelTaskTree(S, k, force, byUser, quiet) ==
    LET r == S.run[k].task
        V == Tree(S, r, force)
        stops == Stoppable(S, V, r, force)
        moves == IF force THEN {} ELSE Orphaned(S, V)
        silenced == {t \in stops : t # r \/ quiet \/ S.store[t].mode = "linked"}
        killed == {t \in stops : S.store[t].status # "killed"}
        walked == Walked(S, killed, silenced, moves, byUser)
        told == Conclude(walked, killed \ silenced, [t \in Tasks |-> "killed"])
    IN  IF ~Matches(S, k) THEN S
        ELSE Abort([told EXCEPT !.ctl = [t \in Tasks |-> IF t \in killed THEN NoRun ELSE @[t]]],
                   {S.ctl[t] : t \in killed} \ {NoRun})

----------------------------------------------------------------------------
(* Starting and detaching *)

Row(kind, k, mode, bg, owner, parent) ==
    [kind |-> kind, status |-> "running", gen |-> 0, token |-> k, mode |-> mode, bg |-> bg,
     owner |-> owner, parent |-> parent, term |-> "pending", notified |-> FALSE,
     moved |-> FALSE, halted |-> "no"]

Execution(t, how, pc, caller, gate) ==
    [task |-> t, how |-> how, pc |-> pc, caller |-> caller, linked |-> caller # NoRun,
     aborted |-> FALSE, gate |-> gate, outcome |-> "none"]

\* Tokens are minted in order.
Fresh(k) == run[k].pc = "unborn" /\ \A j \in Runs : j < k => run[j].pc # "unborn"

Launch(t, k, row, execution) ==
    /\ store[t].status = "unborn"
    /\ Fresh(k)
    /\ store' = [store EXCEPT ![t] = row]
    /\ run' = [run EXCEPT ![k] = execution]
    /\ ctl' = [ctl EXCEPT ![t] = IF row.kind = "agent" THEN k ELSE NoRun]
    /\ UNCHANGED <<queue, posted>>

\* The main turn calls the Agent tool.
StartMain(t, k) ==
    /\ "main" \in Surfaces
    /\ Launch(t, k, Row("agent", k, "linked", FALSE, Main, Main),
              Execution(t, "main", "launch", NoRun, "open"))

\* /fork starts a detached agent from the conversation.
StartDirective(t, k) ==
    /\ "directive" \in Surfaces
    /\ Launch(t, k, Row("agent", k, "detached", TRUE, Main, Main),
              Execution(t, "directive", "launch", NoRun, "none"))

Working(p) == run[p].pc = "loop" /\ ~run[p].aborted

\* A fork calls the Agent tool: its child is linked until it is sent to the background.
\* A run resumed from the agent view carries no task id for its children.
StartNested(p, t, k) ==
    /\ "nested" \in Surfaces
    /\ Working(p)
    /\ Launch(t, k,
              Row("agent", k, "linked", TRUE, run[p].task,
                  IF run[p].how = "view" THEN Main ELSE run[p].task),
              Execution(t, "nested", "launch", p, "open"))

OpenBatch(p) == {c \in Runs : run[c].caller = p /\ run[c].gate = "open"}
Dispatching(p) == OpenBatch(p) # {}

\* A background command of the main turn (p = NoRun) or of a fork.
StartShell(p, t, k) ==
    /\ "shell" \in Surfaces
    /\ p # NoRun => Working(p)
    /\ Launch(t, k, Row("shell", k, "detached", TRUE, IF p = NoRun THEN Main ELSE run[p].task, Main),
              Execution(t, "shell", "proc", NoRun, "none"))

\* ctrl+b, or an agent whose definition runs in the background: signal() of its controller.
Detach(k) ==
    LET t == run[k].task IN
    /\ run[k].gate = "open"
    /\ ctl[t] = k
    /\ Matches(Now, k)
    /\ store[t].mode = "linked"
    /\ run[k].aborted => "late" \in Surfaces
    /\ store' = [store EXCEPT ![t].mode = "detached", ![t].bg = TRUE]
    /\ run' = [run EXCEPT ![k].linked = FALSE]
    /\ UNCHANGED <<ctl, queue, posted>>

----------------------------------------------------------------------------
(* The life of a run *)

\* runForkLoop registers its owner after its set-up (MCP, worktree, durable spec).
Register(k) ==
    /\ run[k].pc = "launch"
    /\ run' = [run EXCEPT ![k].pc = "loop"]
    /\ UNCHANGED <<store, ctl, queue, posted>>

\* Fault: the rows are not told that their notification was read.
TakeForOwner_Unmarked(k) ==
    LET o == run[k].task IN
    /\ Working(k)
    /\ ~Dispatching(k)
    /\ Inventory(Now, o) # {}
    /\ queue' = queue \ Inventory(Now, o)
    /\ UNCHANGED <<store, run, ctl, posted>>

\* The top of the loop takes what waits for this fork.
TakeForOwner(k) ==
    LET o == run[k].task
        taken == Inventory(Now, o)
    IN  /\ Working(k)
        /\ ~Dispatching(k)
        /\ taken # {}
        /\ queue' = queue \ taken
        /\ store' = [t \in Tasks |->
             IF store[t].owner = o /\ store[t].term = "owner" /\ \E e \in taken : e.key = KeyOf(Now, t)
             THEN [store[t] EXCEPT !.term = "parent"] ELSE store[t]]
        /\ UNCHANGED <<run, ctl, posted>>

\* Fault: the fork looks for running work before it looks for what already ended.
Park_Unchecked(k) ==
    /\ Working(k)
    /\ ~Dispatching(k)
    /\ run' = [run EXCEPT ![k].pc = "parked"]
    /\ UNCHANGED <<store, ctl, queue, posted>>

\* The model has nothing more to say while work it owns still runs.
Park(k) ==
    /\ Working(k)
    /\ ~Dispatching(k)
    /\ Inventory(Now, run[k].task) = {}
    /\ HasRunningOwnedWork(Now, run[k].task)
    /\ run' = [run EXCEPT ![k].pc = "parked"]
    /\ UNCHANGED <<store, ctl, queue, posted>>

WakeUp(k) ==
    /\ run[k].pc = "parked"
    /\ run' = [run EXCEPT ![k].pc = "loop"]
    /\ UNCHANGED <<store, ctl, queue, posted>>

\* The abort signal ends the wait, and so does a message to the agent.
WakeAborted(k) == run[k].aborted /\ WakeUp(k)
Steer(k) == "send" \in Surfaces /\ WakeUp(k)

ShellsOf(S, o) == {t \in Tasks : ~Agent(S, t) /\ Running(S, t) /\ S.store[t].owner = o}

\* killShellsForOwner: the shells of a fork end with it and tell nobody.
KillShellsForOwner(S, o) ==
    [S EXCEPT !.store = [t \in Tasks |->
                IF t \in ShellsOf(S, o) THEN [@[t] EXCEPT !.status = "killed", !.notified = TRUE]
                ELSE @[t]],
              !.run = [k \in Runs |->
                IF k \in {S.store[t].token : t \in ShellsOf(S, o)} THEN [@[k] EXCEPT !.pc = "done"]
                ELSE @[k]]]

Leave(S, k, outcome) ==
    KillShellsForOwner([S EXCEPT !.run[k].pc = "exit", !.run[k].outcome = outcome], S.run[k].task)

\* The loop breaks with nothing pending and nothing running.
FinishLoop(k) ==
    /\ Working(k)
    /\ ~Dispatching(k)
    /\ Inventory(Now, run[k].task) = {}
    /\ ~HasRunningOwnedWork(Now, run[k].task)
    /\ Become(Leave(Now, k, "ok"))

\* An error, a refusal, a structured answer or the turn limit ends it early.
BreakLoop(k) ==
    /\ Working(k)
    /\ ~Dispatching(k)
    /\ \E outcome \in {"ok", "failed"} : Become(Leave(Now, k, outcome))

AbortLoop(k) ==
    /\ run[k].pc = "loop"
    /\ run[k].aborted
    /\ ~Dispatching(k)
    /\ Become(Leave(Now, k, "failed"))

\* Fault: what the fork never read stays private.
Promote_Forgotten(S, o) == S

\* The last registration of an owner hands its unread inventory to main.
Promote(S, o) ==
    IF IsOwnerRegistered(S, o) THEN S
    ELSE [S EXCEPT
            !.queue = {IF e \in Inventory(S, o) THEN [e EXCEPT !.private = FALSE] ELSE e : e \in @},
            !.store = [t \in Tasks |->
                IF /\ @[t].owner = o
                   /\ @[t].term = "owner"
                   /\ \E e \in Inventory(S, o) : e.key = KeyOf(S, t)
                THEN [@[t] EXCEPT !.term = "main"] ELSE @[t]]]

Ending(k) == IF run[k].outcome = "ok" THEN "completed" ELSE "error"

\* Fault: a run that never began its loop is not reported.
Publish_OnlyStarted(S, k) ==
    IF run[k].outcome = "setup" THEN S ELSE Finish(S, {k}, Ending(k))

\* How the caller of each kind of run reports it.  A directive names its task and
\* not its run; the others name the run.
Publish(S, k) ==
    CASE run[k].how = "directive" ->
           Finish(S, {S.store[run[k].task].token}, Ending(k))
      [] run[k].how = "main" /\ run[k].aborted -> CancelTaskTree(S, k, FALSE, TRUE, FALSE)
      [] run[k].how \in {"send", "view"} /\ run[k].aborted ->
           CancelTaskTree(S, k, FALSE, FALSE, FALSE)
      [] OTHER -> Finish(S, {k}, Ending(k))

\* The promise of the run settles and its controller, with its link
\* to the parent's signal, is released.  The call of a
\* tool is reported only once the batch it belongs to is in the conversation.
Report(S, k) ==
    LET t == run[k].task
        over == [S EXCEPT !.run[k].pc = "done",
                          !.run[k].linked = FALSE,
                          !.ctl[t] = IF @ = k THEN NoRun ELSE @]
    IN  IF run[k].gate \in {"none", "committed"} THEN Publish(over, k) ELSE over

Settle(k) ==
    /\ run[k].pc = "settle"
    /\ Become(Report(Now, k))

\* Before that the worktree and the MCP servers of the agent are closed, at their own
\* pace.  A directive has neither.
Close(S, k) == IF run[k].how = "directive" THEN Report(S, k) ELSE S

\* The set-up throws: nothing was registered and nothing is unwound.
LaunchFails(k) ==
    /\ run[k].pc = "launch"
    /\ Become(Close([Now EXCEPT !.run[k].pc = "settle", !.run[k].outcome = "setup"], k))

\* The finally block of runForkLoop: an aborted fork cancels the tree of its task,
\* whatever run that row now belongs to, and releases its owner.
Unwind(k) ==
    LET t == run[k].task
        swept == IF run[k].aborted /\ run[k].how # "view" /\ Present(Now, t)
                 THEN CancelTaskTree(Now, store[t].token, FALSE, FALSE, TRUE) ELSE Now
    IN  /\ run[k].pc = "exit"
        /\ Become(Close(Promote([swept EXCEPT !.run[k].pc = "settle"], t), k))

Settled(c) == run[c].pc = "done" \/ ~run[c].linked

\* The main turn commits the results of its batch, also when it was cancelled.
CommitMain(k) ==
    /\ run[k].how = "main"
    /\ run[k].gate = "open"
    /\ run[k].pc = "done" \/ store[run[k].task].mode = "detached"
    /\ LET closed == [Now EXCEPT !.run[k].gate = "committed"]
       IN  Become(IF run[k].pc = "done" THEN Publish(closed, k) ELSE closed)

Gated(S, cs, gate) ==
    [S EXCEPT !.run = [c \in Runs |-> IF c \in cs THEN [@[c] EXCEPT !.gate = gate] ELSE @[c]]]

\* Fault: the results enter the conversation before they are all there.
CommitBatch_Early(p) ==
    /\ run[p].pc = "loop"
    /\ Dispatching(p)
    /\ Become(Gated(Now, OpenBatch(p), "none"))

\* Fault: the calls that were sent to the background are taken for reported.
CommitBatch_LinkedOnly(p) ==
    /\ run[p].pc = "loop"
    /\ Dispatching(p)
    /\ \A c \in OpenBatch(p) : Settled(c)
    /\ LET closed == Gated(Now, OpenBatch(p), "committed")
           over == {c \in OpenBatch(p) : run[c].pc = "done" /\ store[run[c].task].mode = "linked"}
       IN  Become(Conclude(closed, Current(closed, over), [t \in Tasks |-> "completed"]))

\* A fork commits the calls of its batch, one report after the other.
CommitBatch(p) ==
    /\ run[p].pc = "loop"
    /\ Dispatching(p)
    /\ \A c \in OpenBatch(p) : Settled(c)
    /\ LET closed == Gated(Now, OpenBatch(p), "committed")
           over == {c \in OpenBatch(p) : run[c].pc = "done"}
       IN  Become(Conclude(closed, Current(closed, over),
                           [t \in Tasks |-> IF Running(closed, t) THEN Ending(store[t].token) ELSE "none"]))

\* An abort is noticed between two groups of a batch: the fork leaves without
\* committing the calls of the groups before.
AbandonBatch(p) ==
    /\ run[p].pc = "loop"
    /\ run[p].aborted
    /\ Dispatching(p)
    /\ \A c \in OpenBatch(p) : Settled(c)
    /\ Become(Leave(Gated(Now, OpenBatch(p), "lost"), p, "failed"))

----------------------------------------------------------------------------
(* Stopping *)

\* Esc: every registered controller that was not sent to the background aborts, those
\* of the agents a detached agent waits for included.
CancelTurn ==
    /\ "cancel" \in Surfaces
    /\ LET hit == {k \in Runs : /\ run[k].pc \notin {"unborn", "done"}
                                /\ ctl[run[k].task] = k
                                /\ store[run[k].task].mode = "linked"
                                /\ ~run[k].aborted}
       IN  hit # {} /\ Become(Abort(Now, hit))

\* stopTaskForUser, from the strip, the panel or its detail view.
UserStop(t) ==
    /\ "stop" \in Surfaces
    /\ Present(Now, t)
    /\ Agent(Now, t)
    /\ Become(CancelTaskTree(Now, store[t].token, TRUE, TRUE, FALSE))

\* TaskStop of the model.
TaskStop(t) ==
    /\ "taskstop" \in Surfaces
    /\ Agent(Now, t)
    /\ Running(Now, t) \/ WasParked(Now, t)
    /\ Become(CancelTaskTree(Now, store[t].token, ~Running(Now, t), FALSE, ~Running(Now, t)))

EndShell(t, status) ==
    /\ ~Agent(Now, t)
    /\ Running(Now, t)
    /\ Become(Finish([Now EXCEPT !.run[store[t].token].pc = "done"], {store[t].token}, status))

ShellExits(t) == EndShell(t, "completed")
KillShell(t) == {"stop", "taskstop"} \cap Surfaces # {} /\ EndShell(t, "killed")

\* What is left of a row that leaves the store: the durable spec of its agent, at
\* generation 0, and the marker that the user stopped it.
Durable(row) ==
    [Row(row.kind, NoRun, "detached", TRUE, Main, Main)
        EXCEPT !.status = "evicted", !.halted = row.halted]

Evicted(S, ts) ==
    [S EXCEPT !.store = [t \in Tasks |-> IF t \in ts THEN Durable(@[t]) ELSE @[t]]]

\* The timer of an ended run, or the release of the view that held it back.
Evict(t) ==
    /\ "evict" \in Surfaces
    /\ Present(Now, t)
    /\ ~Running(Now, t)
    /\ Become(Evicted(Now, {t}))

\* removeTaskTree: the user closes a row of the strip.
CloseRow(t) ==
    /\ "close" \in Surfaces
    /\ Present(Now, t)
    /\ Agent(Now, t)
    /\ store[t].bg
    /\ LET stopped == IF Running(Now, t)
                      THEN CancelTaskTree(Now, store[t].token, TRUE, TRUE, FALSE) ELSE Now
       IN  Become(Evicted(stopped, Tree(stopped, t, TRUE)))

----------------------------------------------------------------------------
(* Resuming *)

HasTranscript(t) ==
    \E k \in Runs : /\ run[k].task = t
                    /\ run[k].pc \in {"loop", "parked", "exit", "settle", "done"}
                    /\ run[k].outcome # "setup"

\* Fault: the new run begins with the notification of the old one.
Reopened_Told(row, k) ==
    [row EXCEPT !.status = "running", !.gen = @ + 1, !.token = k, !.mode = "detached",
                !.moved = FALSE]

\* Fault: the generation, and the replay key with it, stay what they were.
Reopened_SameGeneration(row, k) ==
    [row EXCEPT !.status = "running", !.token = k, !.mode = "detached",
                !.term = "pending", !.notified = FALSE, !.moved = FALSE]

\* prepareTaskForResume.  The row forgets that the user stopped it, the disk does not.
Reopened(row, k) ==
    [row EXCEPT !.status = "running", !.gen = @ + 1, !.token = k, !.mode = "detached",
                !.term = "pending", !.notified = FALSE, !.moved = FALSE,
                !.halted = IF @ = "row" THEN "disk" ELSE @]

OwnerAfterResume(t) ==
    IF IsOwnerRegistered(Now, store[t].owner) THEN store[t].owner ELSE Main

\* The registry knows a fork while its latest run is under way; else its files do.
HasProfile(t) ==
    LET k == store[t].token
    IN  /\ k \in Runs
        /\ Registered(Now, k) \/ (run[k].how = "send" /\ run[k].pc \in {"prep", "launch"})

StoppedByUser(t) ==
    \/ store[t].halted = "row"
    \/ store[t].halted = "disk" /\ ~HasProfile(t)

\* Fault: a task that runs is resumed again.
SendMessage_WhileRunning(t, k) ==
    /\ "send" \in Surfaces
    /\ Fresh(k)
    /\ Agent(Now, t)
    /\ store[t].status # "unborn"
    /\ ~StoppedByUser(t)
    /\ HasTranscript(t)
    /\ store' = [store EXCEPT ![t] =
         [Reopened(store[t], k) EXCEPT !.bg = TRUE, !.owner = OwnerAfterResume(t)]]
    /\ run' = [run EXCEPT ![k] = Execution(t, "send", "prep", NoRun, "none")]
    /\ UNCHANGED <<ctl, queue, posted>>

\* resumeForkWithMessage.  The end of the row, and not of its run, makes a fork resumable:
\* a run that was stopped may still be unwinding.
SendMessage(t, k) ==
    /\ "send" \in Surfaces
    /\ Fresh(k)
    /\ Agent(Now, t)
    /\ store[t].status \notin {"unborn", "running"}
    /\ ~StoppedByUser(t)
    /\ HasTranscript(t)
    /\ store' = [store EXCEPT ![t] =
         [Reopened(store[t], k) EXCEPT !.bg = TRUE, !.owner = OwnerAfterResume(t)]]
    /\ run' = [run EXCEPT ![k] = Execution(t, "send", "prep", NoRun, "none")]
    /\ UNCHANGED <<ctl, queue, posted>>

\* Fault: the row is not looked at again.
StartSent_Unchecked(k) ==
    /\ run[k].how = "send"
    /\ run[k].pc = "prep"
    /\ run' = [run EXCEPT ![k].pc = "launch"]
    /\ ctl' = [ctl EXCEPT ![run[k].task] = k]
    /\ UNCHANGED <<store, queue, posted>>

\* Its steers are recorded and its worktree leased: the run starts only if nobody
\* stopped it meanwhile.
StartSent(k) ==
    /\ run[k].how = "send"
    /\ run[k].pc = "prep"
    /\ IF Matches(Now, k) /\ Running(Now, run[k].task)
       THEN /\ run' = [run EXCEPT ![k].pc = "launch"]
            /\ ctl' = [ctl EXCEPT ![run[k].task] = k]
       ELSE run' = [run EXCEPT ![k].pc = "done"] /\ UNCHANGED ctl
    /\ UNCHANGED <<store, queue, posted>>

\* A directive runs without an agent definition.
HasDefinition(t) == ~\E k \in Runs : run[k].task = t /\ run[k].how = "directive"

\* resumeViewedAgent: it looks at the row and not at the runs of it.
ViewResume(t, k) ==
    /\ "view" \in Surfaces
    /\ Fresh(k)
    /\ Agent(Now, t)
    /\ Present(Now, t)
    /\ ~Running(Now, t)
    /\ HasTranscript(t)
    /\ HasDefinition(t)
    /\ store' = [store EXCEPT ![t] = Reopened(store[t], k)]
    /\ run' = [run EXCEPT ![k] = Execution(t, "view", "prep", NoRun, "none")]
    /\ UNCHANGED <<ctl, queue, posted>>

StartViewed(k) ==
    /\ run[k].how = "view"
    /\ run[k].pc = "prep"
    /\ run' = [run EXCEPT ![k].pc = "launch"]
    /\ ctl' = [ctl EXCEPT ![run[k].task] = k]
    /\ UNCHANGED <<store, queue, posted>>

\* The messages that waited for the agent cannot be recorded.
ResumeFails(k) ==
    /\ run[k].pc = "prep"
    /\ Become(Finish([Now EXCEPT !.run[k].pc = "done", !.run[k].outcome = "setup"], {k}, "error"))

----------------------------------------------------------------------------

\* The main turn drains what is public.
DrainMain ==
    /\ \E e \in queue : ~e.private
    /\ queue' = {e \in queue : e.private}
    /\ UNCHANGED <<store, run, ctl, posted>>

Init ==
    /\ store = [t \in Tasks |-> [Row("agent", NoRun, "linked", FALSE, Main, Main)
                                   EXCEPT !.status = "unborn"]]
    /\ run = [k \in Runs |-> Execution(Main, "none", "unborn", NoRun, "none")]
    /\ ctl = [t \in Tasks |-> NoRun]
    /\ queue = {}
    /\ posted = {}

Start(t, k) ==
    \/ StartMain(t, k)
    \/ StartDirective(t, k)
    \/ \E p \in Runs : StartNested(p, t, k)
    \/ \E p \in Runs \cup {NoRun} : StartShell(p, t, k)
    \/ SendMessage(t, k)
    \/ ViewResume(t, k)

RunStep(k) ==
    \/ StartSent(k)
    \/ StartViewed(k)
    \/ ResumeFails(k)
    \/ Register(k)
    \/ LaunchFails(k)
    \/ TakeForOwner(k)
    \/ Park(k)
    \/ WakeAborted(k)
    \/ Steer(k)
    \/ FinishLoop(k)
    \/ BreakLoop(k)
    \/ AbortLoop(k)
    \/ CommitBatch(k)
    \/ AbandonBatch(k)
    \/ Unwind(k)
    \/ Settle(k)
    \/ CommitMain(k)
    \/ Detach(k)

TaskStep(t) ==
    \/ UserStop(t)
    \/ TaskStop(t)
    \/ ShellExits(t)
    \/ KillShell(t)
    \/ Evict(t)
    \/ CloseRow(t)

Next ==
    \/ \E t \in Tasks, k \in Runs : Start(t, k)
    \/ \E k \in Runs : RunStep(k)
    \/ \E t \in Tasks : TaskStep(t)
    \/ CancelTurn
    \/ DrainMain

Spec == Init /\ [][Next]_vars

(***************************************************************************)
(* The steps of a run follow each other; a fork with nothing left to do    *)
(* answers; a batch whose calls have settled is committed or abandoned; a  *)
(* shell exits; and the main turn, which the resume driver starts, drains. *)
(***************************************************************************)
Progress(k) ==
    \/ StartSent(k)
    \/ StartViewed(k)
    \/ Register(k)
    \/ TakeForOwner(k)
    \/ WakeAborted(k)
    \/ FinishLoop(k)
    \/ AbortLoop(k)
    \/ CommitBatch(k)
    \/ AbandonBatch(k)
    \/ Unwind(k)
    \/ Settle(k)
    \/ CommitMain(k)

\* ENABLED <<Progress(k)>>_vars, written out: TLC then has no successor to compute for it.
Ready(k) ==
    \/ run[k].pc \in {"prep", "launch", "exit", "settle"}
    \/ run[k].pc = "parked" /\ run[k].aborted
    \/ /\ run[k].how = "main"
       /\ run[k].gate = "open"
       /\ run[k].pc = "done" \/ store[run[k].task].mode = "detached"
    \/ /\ run[k].pc = "loop"
       /\ Dispatching(k)
       /\ \A c \in OpenBatch(k) : Settled(c)
    \/ /\ run[k].pc = "loop"
       /\ ~Dispatching(k)
       /\ \/ run[k].aborted
          \/ Inventory(Now, run[k].task) # {}
          \/ ~HasRunningOwnedWork(Now, run[k].task)

\* Weak fairness of Progress(k).
RunFairness(k) == []<>~Ready(k) \/ []<><<Progress(k)>>_vars

Fairness ==
    /\ \A k \in Runs : RunFairness(k)
    /\ WF_vars(\E t \in Tasks : ShellExits(t))
    /\ WF_vars(DrainMain)

FairSpec == Spec /\ Fairness

----------------------------------------------------------------------------
(* Properties *)

RowType ==
    [kind : {"agent", "shell"},
     status : {"unborn", "running", "completed", "error", "killed", "evicted"},
     gen : 0..MaxRuns, token : Runs \cup {NoRun}, mode : {"linked", "detached"}, bg : BOOLEAN,
     owner : Tasks \cup {Main}, parent : Tasks \cup {Main},
     term : {"pending", "parent", "owner", "main", "discarded"},
     notified : BOOLEAN, moved : BOOLEAN, halted : {"no", "row", "disk"}]

RunType ==
    [task : Tasks \cup {Main},
     how : {"none", "main", "nested", "directive", "send", "view", "shell"},
     pc : {"unborn", "prep", "launch", "loop", "parked", "exit", "settle", "done", "proc"},
     caller : Runs \cup {NoRun}, linked : BOOLEAN, aborted : BOOLEAN,
     gate : {"none", "open", "committed", "lost"},
     outcome : {"none", "ok", "failed", "setup"}]

EnvelopeType ==
    [key : [task : Tasks, gen : 0..MaxRuns], token : Runs, owner : Tasks \cup {Main},
     private : BOOLEAN]

\* Every variable keeps its shape.
TypeOK ==
    /\ store \in [Tasks -> RowType]
    /\ run \in [Runs -> RunType]
    /\ ctl \in [Tasks -> Runs \cup {NoRun}]
    /\ queue \subseteq EnvelopeType
    /\ posted \subseteq Runs

\* A row that runs has told nobody about this run, however often it was resumed,
\* moved to main or restored from disk: reparentDetachedRun relies on it.
RunningIsUntold ==
    \A t \in Tasks : Running(Now, t) =>
        /\ store[t].term = "pending"
        /\ ~store[t].notified
        /\ store[t].token \notin posted

\* terminalNotification tells where the notification of the run is: an "owner"
\* envelope waits in the inventory, a "main" one was posted and is public, and the
\* three other values leave nothing in the queue.
TermMatchesQueue ==
    \A t \in Tasks : Present(Now, t) =>
        LET mine == {e \in queue : e.token = store[t].token} IN
        /\ store[t].term = "owner" <=> \E e \in mine : e.private
        /\ store[t].term \in {"pending", "parent", "discarded"} => mine = {}
        /\ store[t].term = "main" => store[t].token \in posted

\* A private notification has a registered fork to read it.
InventoryHasOwner == \A e \in queue : e.private => IsOwnerRegistered(Now, e.owner)

\* A killed agent does not work on: the run of its row was told to abort, or has
\* not started, or is over. Not so once it was resumed from the view, where a run
\* starts without a look at its row (README, limits).
KilledRunsAbort ==
    \A t \in Tasks : Present(Now, t) /\ Agent(Now, t) /\ store[t].status = "killed" =>
        LET k == store[t].token
            viewed == \E j \in Runs : run[j].task = t /\ run[j].how = "view"
        IN  viewed \/ run[k].aborted \/ run[k].pc \in {"prep", "settle", "done"}

\* A fork that is parked has nothing to read and something to wait for: every way
\* its last owned task can end, be silenced or be moved wakes it.
ParkedHasWork ==
    \A k \in Runs : run[k].pc = "parked" /\ ~run[k].aborted =>
        /\ Inventory(Now, run[k].task) = {}
        /\ HasRunningOwnedWork(Now, run[k].task)

\* A run whose report is out has ended its row.
ReportedRunsEnd ==
    \A t \in Tasks : Running(Now, t) =>
        LET k == store[t].token IN run[k].pc = "done" => run[k].gate \in {"open", "lost"}

\* A detached child that finishes after its parent reports, whatever the parent did.
DetachedChildReports ==
    \A t \in Tasks : Running(Now, t) /\ store[t].mode = "detached" =>
        LET k == store[t].token IN run[k].pc = "done" => run[k].gate = "open"

\* An execution that leaves does nothing to a newer run of its task.
StaleRunsArePowerless ==
    [][\A k \in Runs : run[k].pc \in {"exit", "settle"} /\ run'[k].pc # run[k].pc =>
          LET t == run[k].task IN store[t].token # k => store'[t] = store[t]]_vars

\* The notice of a run is not replaced by the notice of a later run of the same task:
\* the generation of the row keeps their replay keys apart.
RunsKeepTheirNotices ==
    [][\A e \in queue, f \in queue' \ queue : e.key = f.key => e.token = f.token]_vars

PlaceOf(k) ==
    LET mine == {e \in queue : e.token = k}
    IN  IF k \notin posted THEN "unborn"
        ELSE IF mine = {} THEN "gone"
        ELSE IF \E e \in mine : e.private THEN "owner" ELSE "main"

Abstract == INSTANCE Delivery WITH Items <- Runs, place <- [k \in Runs |-> PlaceOf(k)]

\* Each run posts one notification at most, which is handed out once.
ImplementsDelivery == Abstract!Spec

\* Every notification of a task is read or withdrawn.
NothingStranded == Abstract!NothingStranded

\* Every execution comes to its end: no fork stays parked, no batch stays open.
EveryRunSettles == \A k \in Runs : run[k].pc = "launch" ~> run[k].pc = "done"

=============================================================================
