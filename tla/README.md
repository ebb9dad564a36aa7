# Formal models of otherside-cli

otherside-cli is a terminal coding agent: a conversation with a model whose turns run
tools, start sub-agents and background shells, and can be interrupted, queued behind,
resumed and joined from a paired phone. Almost all of its defects that are hard to test
are about order. The program is a single JavaScript thread, so a call runs to completion,
but every `await` is a point where another path may run, and the state read before it may
be stale after it.

This directory holds TLA+ models of the parts whose correctness depends on that order, the
TLC runs that check them on small instances, and TLAPS proofs that hold for every value of
the constants. Every definition is translated from the source; `PROJECT.json` names the
lines each one stands for, the hazards the properties are aimed at, and for every checked
property a plausible fault of the code that breaks it.

Paths below are relative to `src/src/`.

## 1. The system

| Part | State it keeps | Operations | Talks to |
|---|---|---|---|
| Delivery queue, `engine/queue/emit.ts` | four class arrays, owner leases, consumed keys, published snapshot, pending waits | emit, emitForCompletion, drainForBoundary, takeForOwner, waitForOwner, registerOwner, cancel, reparent, setTurnActive | everything that notifies; the turn loop and forks drain it; the resume driver, print mode and scheduler subscribe |
| Background tasks and forks, `engine/background/tasks/background.ts`, `engine/background/subagents/` | task rows, controllers, run tokens, fork loops | start, detach, complete, stop, cancel a tree, resume by message or from the view, close, evict | files notices in the delivery queue; the turn loop commits its tool results; the UI stops and resumes |
| Turn dispatch, `ui/app/dispatch/`, `engine/queue/runtime/turn/guard.ts` | the turn guard and its generation, `runningRef`, the prompt queue, the resume timer | submit, slash commands, compact, skills, promotion, Esc, clear, retry, phone messages | starts the turn loop; woken by the delivery queue |
| Turn loop, `engine/queue/runtime/turn/` | the round, the batch of tool calls, the epoch | begin, rounds, drains at boundaries, commit of a batch, end | providers, tools, delivery queue |
| Scheduler and lease, `engine/background/cron/` | saved tasks, the lease file, next fires and spent tasks of a session | create, cancel, claim and release the lease, fire, retire, announce what was missed | delivery queue (`idle_prompt`), other processes through files |
| File lock, `kernel/std/fs/file-lock.ts` | a lock file with owner and age | acquire, heartbeat, discard a stale lock, release | task board, settings, saved tasks |
| Session sync, `backend/app/session/sync/`, `backend/shared/session-crypto.ts` | outgoing cursor, counters, pending claim, ratchets; incoming watermark and processed set | push, retry, reseed, suspend; apply broadcast and polled rows | the cortex service, the turn dispatch (phone messages) |
| Task board, `engine/background/tasks/index.ts` | tasks on disk and in memory, ids, turns | create, update, block, claim, remove, reset | forks and other processes |
| Compaction, `engine/queue/runtime/compact/`, `engine/session/compact/` | failure and refill breakers, the conversation it replaces | compact before a round or on request | turn loop |
| Workflows, `engine/background/workflows/` | runs of a script, gate, budget | start, pause, stop, notify | starts forks, delivery queue |
| Print mode, `modes/print/` | none of its own | runs turns until nothing blocks exit | delivery queue, background tasks |
| MCP runtime, `kernel/mcp/` | clients by server, error counts | connect, call, reconnect, drop | tools |
| Session records, `engine/session/` | the append-only log | append, rewrite, rewind, resume | everything that must survive |
| The rest | permissions and hooks, tools and shells, providers/translator/transport, plugins/skills/agents, sandbox, voice, kernel services, store/UI/terminal runtime, commands, design mode, devtools, boot | | |

What is hard, part by part, and the properties that make each correct:

* **Delivery queue.** Routing decides from a look at the owner leases and the lease may be
  gone at the next completion; a fork decides to sleep from a look at the queue; re-emission,
  promotion and reparenting change envelopes in place under readers of a published snapshot;
  turns supersede each other. Correct means: every notification reaches exactly one reader,
  exactly once; nobody sleeps on something it could take; a key stands for one envelope.
* **Background tasks and forks.** A row outlives its runs and its runs outlive each other: a
  stop, a resume, a detach, a close and an eviction can fall between any two awaits of a run.
  Correct means: each run reports at most once and each detached one does report; a stopped
  run aborts; an old run does nothing to a new one; a parked fork has something to wait for.
* **Turn dispatch.** Four asynchronous paths start turns; a cancelled turn unwinds beside its
  successor; three flags (guard, `runningRef`, the queue) are cleared on different paths.
  Correct means: one turn at a time; the guard never sticks; queued input is never stranded;
  what the user stopped stays stopped.
* **Turn loop.** A turn that was taken over goes on at its next await, with one flag shared by
  all turns of a host; a batch of tools ends with some calls settled, some refused, some never
  started, after its input has been taken from the queue. Correct means: no answer and no input is
  lost; a stale turn goes no further than the step it had set out to do, and ends; every request pairs its
  calls with answers.
* **Scheduler and file lock.** Processes that share files and may die between two steps.
  Correct means: a saved task is not lost and fires though its session or the holder of the lease
  has died; two holders do not last.
* **Session sync.** Lost answers, late requests, retries, crashes between a delivery and its
  cursor, a row that goes away under the rail. Correct means: no record is stepped over, none is
  stored twice, everything arrives.
* **Compaction.** A breaker that must stop a failing loop and must not disable the only bound
  on the conversation for good; a conversation replaced by a plan made before an await.

`PROJECT.json` lists every component with its status and every hazard at its line.

## 2. Modules

| Module | Composes / implements | Status |
|---|---|---|
| `Delivery` | abstract promise about a notification | done |
| `EmitQueue` (`MCEmitQueue`, `EmitQueue_proofs`) | implements `Delivery` | done, safety and the refinement proved |
| `BackgroundTasks` (`MCBackgroundTasks`, `BackgroundTasks_proofs`, `BackgroundNotices_proofs`) | rows, runs and their notices; implements `Delivery` | done, the refinement and every safety property proved, some under the surfaces on which they hold |
| `TurnDispatch` (`MCTurnDispatch`, `TurnDispatch_proofs`) | guard, gate, prompt queue, resume timer | done, safety proved |
| `Transcript` | what makes a conversation sendable, and the repair before a request | done, used by `TurnLoop`, the repair proved |
| `TurnLoop` (`MCTurnLoop`, `TurnLoop_proofs`) | rounds, tool batches and compactions of interleaved turns over one conversation | done, what turns do to each other and to the conversation proved |
| `AutoCompact` (`AutoCompact_proofs`) | the breakers of auto-compaction | done, proved |
| `SessionSync` (`MCSessionSync`, `SessionSync_proofs`) | the outgoing rail with its broker | done, safety proved |
| `Scheduler` (`MCScheduler`, `Scheduler_proofs`) | saved tasks and the lease of several processes | done, safety proved |

What remains, in order of worth: the incoming rail (its reorder window and what a restart applies
again), the file lock as the implementation of the one-step update that `Scheduler` takes as
given, rewind and resume as functions of the session log, the gate and budget of workflows. Every safety
property that a run checks is proved (section 9).

## 3. The delivery queue

`Delivery.tla` is the promise: a notification waits for one owner or for the main
conversation, an owner that goes away hands it on, and what has left never comes back.

`EmitQueue.tla` models `engine/queue/emit.ts` with `priority.ts`. One exported operation that
changes state is one action; the helper it calls is an operator of the same name.

| Model | Code |
|---|---|
| `queue` | the four `subQueues` as one set of envelopes; `slot` is the array position an envelope occupies (a replacement inherits it), `seq` its arrival |
| `leases` | `activeOwners`, counted per owner |
| `snapshot`, `waiting`, `Sync` | `stateStore`, the promises of `waitForOwner`, and `syncStateSnapshot`, which publishes and runs its subscribers before it returns |
| `consumedStickyKeys`, `consumedReplayKeys` | the two sets; the second keeps insertion order and forgets its oldest key at its limit |
| `Policy`, `PlanDrain`, `CommitDrain` | `BOUNDARY_POLICY` and the two halves of `drainForBoundary` |
| `BeginTurn`, `SupersedeTurn`, `EndTurn`, `EndSuperseded` | what `runTurnRounds` does to the queue at its start and in its finally, with the turn epoch |
| `DirectInputs`, `CompletionInputs` | what the callers really pass: orphaned tool calls, scheduled prompts, goal check-ins, stop-hook output, task and workflow completions |

**Run `emit`** (`FairSpec`, 35 472 states): one fork, five keys, one of each kind of producer,
three envelopes, two registrations of the owner, one superseded turn, two remembered keys.
Three envelopes are enough for a replacement beside a third envelope; two leases for the
release that is not the last; two remembered keys for the forgetting. It checks the type
invariant, `InventoryHasOwner`, `NoLostWakeup`, `OneEnvelopePerKey`, `StickyOncePerTurn`, the
refinement `ImplementsDelivery`, and `NothingStranded`.

Fairness: the resume driver dispatches a turn while the snapshot says something is pending,
a turn and a superseded turn end, and a registered fork takes its inventory at the boundaries
of its own loop. A fork is not assumed to exit.

**Proofs** (`EmitQueue_proofs.tla`). The invariant `Inv` conjoins the type of the queue, the five
state properties (that the published snapshot is current, `SnapshotCurrent`, among them) and one more fact, that only orphaned tool calls are sticky. It is needed
because a drain marks the sticky keys it hands out, and `StickyOncePerTurn` would break if another
class kept an envelope of that key; as only `interrupt_bash` envelopes are sticky and a key has
one envelope per class, the drained one was the only one. `OneEnvelopePerKey` carries the rest: with it
the first holder of a key is the only one, so filing replaces or adds exactly one envelope
(lemmas `OnlyHolder`, `FiledMembers`). The proofs rest on `InputsAssumption` (no caller asks for a
private target itself, orphaned calls are the only sticky envelopes) and `BoundsAssumption`. That the queue
implements `Delivery` needs one more step: `Forward` says that an envelope after a step was there before it or
is new, and that a private one was private; every operation is such a step (`NextIsForward`), and
what goes forward is what `Delivery` allows (`ForwardIsLater`).

That the memory of consumed keys stays within its limit (`TypeOK`) rests on `Counted`: the queue is finite and the
memory is a list within the limit. A drain marks its keys one after another in the order of the arrays, which
the model writes as a fold. `MarkedKeys` proves of this fold what an induction would: the recursive
function exists because a batch is marked after a smaller one, and a smallest batch that breaks the limit cannot be
(`MinIs`, from the well-foundedness of strict inclusion of finite sets); there is a last envelope in every batch because the
places of the arrays are totally ordered (`ArraysAreOrdered`, `LastIs`).

## 4. Background tasks and forks

`BackgroundTasks.tla` models the task store, the executions of agents (`fork/loop.ts`,
`fork/loop-runner.ts`), how they are started from the main turn, from another fork and by
`/fork`, detached, stopped in four ways, resumed in two, closed and evicted. Esc reaches every registered
agent that was not sent to the background, the agents a detached agent waits for included (`CancelTurn`).

| Model | Code |
|---|---|
| `store[t]` | the row of a task: status, generation (`notificationGeneration`), the token of the run it belongs to, `mode`/`bg` (linked or detached, `isBackgrounded`), owner, parent, `terminalNotification`, `notified` |
| `run[k]` | one execution, named by its run token: what it awaits (`pc`), who called it, whether it was aborted, and `gate`, whether its report has been committed |
| `ctl[t]` | `backgroundControllers`: the run a stop of this task reaches |
| `queue` | the task notices waiting in the delivery queue, private or public |
| `posted` | history: which runs have posted |
| `Finish`, `CancelTaskTree`, `Reopened`, ... | functions of the whole state, because the store's calls nest; `Become` installs the result as one step |

A run goes `prep`, `launch`, `loop`, `parked`, `exit`, `settle`, `done`; each arrow is an await
of the code and other paths step in between. `Surfaces` selects the ways in and out an instance explores.

| Run | Instance | Shows |
|---|---|---|
| `bg_trees` | three tasks, three runs; `/fork`, nested agents, shells, detaching (also late), user stop; symmetric tasks (397 464 states) | `InventoryHasOwner`, `ParkedHasWork`, `TermMatchesQueue`, `DetachedChildReports`, `ImplementsDelivery` |
| `bg_resume` | one task, three runs; `/fork` and main agents, message, view, TaskStop, close, eviction, a shell (1 195 873) | `KilledRunsAbort`, `ReportedRunsEnd`, `RunningIsUntold` |
| `bg_live` | two tasks, three runs; main agents, one nested level, Esc, message, under fairness (104 991) | `NothingStranded`, `EveryRunSettles`, `RunsKeepTheirNotices`, `StaleRunsArePowerless` |

Bounds: three tasks make a parent, a detached child and a sibling or grandchild; three runs of
one task make a first run, a resume of it and one that follows both; two tasks put a child beside them. More of either repeats these patterns.

Fairness: a run's own steps follow each other (`RunFairness(k)`: weak fairness of `Progress(k)`, with
its enabling condition `Ready(k)` written out so that TLC need not compute it; TLC confirmed
that `Ready(k)` is the enabling condition); a shell of the instance exits; the main turn drains. Park, steering,
detaching and stopping are not assumed. A fork that keeps calling tools for ever is a run the
fairness excludes by `FinishLoop`: the model's loop ends when it has nothing left to do.

Instances are chosen per property because some properties are false in the code on other
surfaces (section 10). The surface `late` is an agent that is sent to the background after it was aborted, while it
still unwinds: the code allows it, `bg_trees` and `bg_resume` include it, and `bg_live` does without it because after Esc the
parent of such an agent may sleep for ever (section 10). Five invariants and the refinement are proved for all surfaces at once, four further
properties for the surfaces their theorems name.

**Proofs** (`BackgroundTasks_proofs.tla`). `Good` is the invariant: a token belongs to the one row of its run and
to none before it is minted (`TokensAreOwned`), only runs that began have posted (`PostedRan`), a running row
is pending and untold (`RunsAreFresh`), and an untold row has posted nothing for its run (`UntoldIsUnposted`).
Since the store's calls nest, it is not carried through the actions one by one: `Leads(S, T)` says what a call
may make of the state `S` (runs keep their tasks, a row that runs was running and untold, a run posts
only from an untold row that is told by it, the queue gains no second notice of a run that posted and turns none private),
each call leads from its argument to its result (`ConcludeLeads`, `WalkLeads`, `CancelLeads`, ...), and what leads
composes (`LeadsOn`). Every step of the system either leads or begins a run with a token nobody had (`Begins`,
`StepKinds`). `RunningIsUntold` follows from `Good`; the refinement follows from `Leads`, because a notice
that is new belongs to a run that had not posted. `InventoryHasOwner` adds to `Good` that the run of a shell is a
process and never a fork (`Homed`), without which killing the shells of a fork could end a registration;
each call of the store keeps it, and the one step that ends a registration, `Unwind`, keeps it because it
promotes the inventory of that owner before it returns (`PromoteHomed`). All three hold for every number of
tasks and runs and for every combination of surfaces, the ones left out of the runs included.

`BackgroundNotices_proofs.tla` goes on from there with what the calls of the store do field by field:
each has a relation that describes it (`Concluded`, `Walks`, `Cancelled`, `Promotes`, ...) and a lemma that it
is what the call does, so that no later proof opens a definition of the model again. `Sound` adds to `Good`:

* the types (`Typed`), and that a run has a task once it has begun (`Placed`);
* `Matched`: a notice was posted by the run of its task (`NoticesArePosted`), has its key alone (`KeysAreUnique`), and,
  when it belongs to the run of its row, has the row's owner and the place the row says (`NoticesFit`); what an
  owner is to read is still queued (`OwnersWait`); what was told was posted (`ToldArePosted`); a linked row
  answers its caller (`LinkedAnswer`). `TermMatchesQueue` speaks of a row's own notices only and is not inductive: a
  resume gives the row a new token while the notice of the old run is queued, and it is `NoticesArePosted` that
  says the old notice can never be taken for one of the new run;
* `ReportsEnd`: no row is running for a run that is over and reported. Its parameter is the set of runs whose report
  is being made, because a batch concludes its rows one call before it closes the gates;
* `StopsHeard`: of an agent's row, its run is aborted, or awaits what cannot be stopped, or its controller still
  reaches it and it is not killed; unless it was resumed from the view, whose window of section 10 is the exception
  `KilledRunsAbort` makes too.

Four properties hold on some surfaces only, and their theorems say on which; each set contains the surfaces of the
run that checks the property, and section 10 has what goes wrong on those left out.

* `RunsKeepNotices`, without eviction and closing: `Aged` says that a queued notice is of the generation of its row, and
  then of the run of its row, or of an earlier one. It needs that no row leaves the store, since a row that is
  restored from disk begins at generation 0 again.
* `ParkedForksHaveWork` and `DetachedChildrenReport`, for agents started in any tree, sent to the background, also while they
  unwind, and stopped by the user. `Rooted` has three parts. `Grounded`: a task has one run, a child knows its parent and its
  caller, a controller aims at the run of its row. `Moving`: the caller of an open call waits in its
  batch (`CallersWait`), a call is open as long as its row runs (`CallsAreOpen`), a run goes on without its row only
  to hear of its stop (`AliveOrTold`), nothing below a stopped run goes on (`StoppedWithAll`), an abandoned call has
  ended its row (`LostHaveEnded`). `ParkedWait` is `ParkedHasWork` itself for runs that were not
  aborted. The last task a fork waits for can end in many calls, and each of them wakes the fork only because
  of `Grounded`. Resumes, `TaskStop`, closing, eviction and the cancel of a turn are left out: a resume gives
  a row a second run, an evicted row forgets its run, a closed row takes its children along without waking anybody, and a
  cancelled or abandoned turn aborts runs whose rows go on.
* `StaleRunsDoNothing`, where no single row is stopped or closed: agents are resumed by a message or from
  the view, turns are cancelled, rows are evicted. `Held` says that a run that works is the one its row names
  and the row runs (`Seated`), that the caller of an open call waits for it (`Attended`), that the row of a shell has its process
  (`ShellsRun`), and that a directive never settles apart from its unwinding (`DirectivesEnd`). So a
  task is resumed only when nobody works in its row any more, a run can be
  stale only while it settles, and what it reports then it reports by its run. That the finally of a fork cancels
  by task and not by run is harmless here because the run is still the one its row names: on these surfaces that finally (`fork/loop.ts:208`) never meets a
  newer run, and what the property watches is the path by which a run settles. A stop breaks `Seated`: it ends the row before
  the run has unwound, and a resume in between is the departure of section 10.

Abstracted: usage, activity and text of a row; listeners and throttling; retention holds; the
content of steers; permission routes; forks owned by workflows. The branch of
`reparentDetachedRun` for a row that was already told is unreachable by `RunningIsUntold` and is not
modelled.

## 5. Turn dispatch

`TurnDispatch.tla` models how the terminal UI turns input into turns.

| Model | Code |
|---|---|
| `guard`, `CanReserve` ... `Aborted` | `TurnGuard`: `reserve`, `cancelReservation`, `claim`, `begin`, `settle`, `abort`, one operator each |
| `running` | `runningRef.current`, the flag the submission gate reads |
| `queue` | the store's queued messages; messages are always taken together, commands one at a time, so they are kept apart |
| `timer`, `work` | the debounce of `requestBackgroundResume` and what the delivery queue holds for an idle session |
| `job[j]` | one call chain: `runSubmittedTurn` with the promotion its finally starts, a compact, a skill run |
| `SubmitText`, `SubmitCommand`, `RemoteMessage`, `RemoteQueued` | the four ways input arrives |
| `ClaimsTurn`, `OpenTurn`, `EnterLoop`, `EndTurn` with `Finally` | `runSubmittedTurn` cut at its awaits: claim, record written, images read, loop ended |
| `HandleSlash`, `EndCompact`, `StartSkill`, `StartInline`, `Clear`, ... | slash commands by what they do to guard and queue |
| `EndCommand`, `SetGoal`, `StartGoal` | `applySlashResult`: a command that only shows its result, one whose words are a prompt (`shouldQuery`), and a goal, which leaves a message for the model and starts a turn when none ran before the command was recorded |
| `Cancel`, `Retry`, `RestoreQueued`, `TimerFires`, `WorkArrives` | Esc, the error panel, taking input back, the resume driver |

`CanResume` has no term for `compactTerminalRef` (`background-resume.ts:37`): the reference begins false and every
assignment to it is `false` (`submitted-turn.ts`, `drain/queue.ts`, `clear-transcript.ts`), so that condition always holds.

The agent's loop is abstract: it drains at boundaries and ends. A compact command is part of
`HandleSlash` because it holds the guard before its first await.

| Run | Instance | Shows |
|---|---|---|
| `turn_guard` | a prompt, a phone message, a skill, a clear, a command; three chains; every feature (3 980 594 states, symmetric chains) | `GuardHasHolder`, `TurnsAreSerial` |
| `turn_queue` | a prompt, an inline skill, a compact; Esc, restore, retry, work; fairness (369 615) | `NothingStranded`, `IdleShowsIdle`, `QueuedIsTaken` |

Bounds: three call chains are a turn, its unwinding predecessor and one path that races both;
`MaxGen` (4 or 5)
limits only Esc, retries and the arrival of work, which need a generation below it: enough for a
cancelled turn, its successor, a second cancel and a resume. Turns that inputs start are limited by the inputs alone, so no
chain is ever cut off by the bound.

Fairness: every await ends (hooks, records and image reads have timeouts; the loop ends or is
cancelled) and the debounce timer fires. Nothing is assumed of the user.

`turn_queue` leaves out forked skills, blocking hooks, refused images, phone-queued messages and a second
command behind a cancelled turn: with each of them the code can strand queued input, by
a path of section 10. The gate itself is checked with all of them in `turn_guard`.

**Proofs** (`TurnDispatch_proofs.tla`). `IInv` is `TypeOK` with `Safe(guard, job)`: the guard has a holder, turns
are serial, no turn holds a generation the guard has not reached (`Bounded`), and generation 0 never owns
a running guard (`NoneIsZero`). `Bounded` is what makes a new generation new; `NoneIsZero` is needed because a
skill that found the guard taken ends with generation 0 and must not settle anything. The
argument follows the guard and not the paths: every path is composed of six moves (a job
leaves, settles, reserves, releases, begins, is stopped), each with a lemma that it preserves `Safe`, and the
paths of `Finally`, `ClaimsTurn`, `ResumesTurn` and `HandleSlash` combine them. The key step is `Begins`: the
guard is not running, so by seriality every turn still under way has been stopped. The theorems hold for every set of inputs, chains and
features, hence for every interleaving of the four entry paths.

Two more invariants say what is left when nothing is under way. `Backed`: `runningRef` is up only while some chain lives
whose end takes it down (a forked skill does so only while the guard is at most one generation past its
own). It gives `IdleShowsIdle`, for all features but a promoted prompt that is blocked or whose image is refused, where
the code leaves the flag up (section 10). `Seen`: what is queued or parked has a chain or the debounce that will look at
it; it needs `Backed`, since a busy flag without a chain would make a submission queue behind nobody, and `NoSkill`,
that every chain in a slash handler carries its command. It gives `NothingStranded` for prompts, phone
messages, inline skills and compacts (`Plain`), in any number of chains and with Esc, restore, retry and work in the
background. Forked skills, several commands behind one another, messages queued by the phone and the two features above
are left out because the code does strand input with them (section 10); single commands and `/clear` are left
out with them, as they are of `turn_queue`.

## 6. Turn loop and compaction

`TurnLoop.tla` models `runTurnRounds` and what it calls (`turn/loop.ts`, `turn/tool-dispatch.ts`,
`turn/dispatch-settle.ts`, `turn/epoch.ts`, `compact/auto.ts`, `compact/manual.ts`) for two turns of one
host that interleave: a turn is cancelled or taken over at any await and goes on beside its successor
until its own checks stop it. `Transcript.tla` has the conversation: what a request needs
(`WellFormed`), and `SanitizeMessages`, the repair of `translator/sanitize.ts`, as pure operators.

| Model | Code |
|---|---|
| `turns[t]` | the locals of one `runTurnRounds`: the await it is at (`pc`), its calls, groups, plan and counters |
| `epoch`, `Host`, `turnActive` | `turn/epoch.ts`, the flag and controllers of `Agent`, the flag of the delivery queue |
| `messages`, `calls`, `typed` | the conversation, the outcome of each tool call, and one input the user types while a turn runs |
| `sent`, `told`, `overtaken` | history: what the conversation was ever told, and what of it a compaction had planned without |
| `TopEnds`, `ContextFull`, `MaybeCompact`, `OpenStream`, `StreamOpens` | the top of a round, up to the request |
| `StreamCalls`, `StreamOrphans`, `StreamCapped`, `StreamMalformed`, `StreamDropped`, `StopSilent`, ... | the ways a stream ends |
| `Start`, `Settle`, `GroupSettled`, `GroupFails`, `Rejected`, `GroupDone`, `Finalize`, `Seal` | a batch: its groups, refusals and failures, and what it writes |
| `Summarize`, `SummaryArrives`, `SummaryFails`, `BoundaryWritten`, `LeaveCompaction` | a compaction, cut at its awaits |

What a stream says, and which call fails, is a choice of the environment; `Features` selects the choices.

| Run | Instance | Shows |
|---|---|---|
| `turn_tools` | a turn with two calls, failures, typed input, empty and unreadable answers; its successor with one call, which compacts by plan and by force; no cap on stop hooks (1 745 656 states) | `TurnActiveIsTheLatest`, `QueuedInputIsWritten` |
| `turn_compact` | a turn that compacts by plan and by force, leaves calls unanswered and is sent round again by stop hooks, empty and unreadable answers and output limits; a successor that leaves calls unanswered; fairness (559 932) | `RequestsArePaired`, `OutcomesReachTheModel`, `PromptsStay`, `StaleTurnsGoNoFurther`, `EveryTurnEnds` |

Two turns are enough for a stale turn and its successor; a third would be stale to both. Two calls make
two groups, or one group of which one call fails. Fairness: a stream, a tool, a hook and a summary end
(each has a timeout or an abort signal); nothing is assumed of the user.

`StopCap` is the cap on consecutive blocks by stop hooks. One that is not positive never overrides them
(`stop-hook-classifier.ts:105-108`), so a turn that its hooks block for ever need not end, and `EveryTurnEnds` is stated for a cap
alone. Without a cap the model keeps no count of blocks, and the safety properties are checked that way in `turn_tools`.

A stale turn is not mute. A request that it was opening when it was taken over is sent, a summary whose hooks were being
asked is asked for, and a first compaction or one after a microcompaction begins with no check before it
(`loop.ts:182`, `loop.ts:205-206`). `StaleTurnsGoNoFurther` says what the checks do guarantee: it opens no further
request, forces no compaction on an overflow, and is not continued after a response without calls.

**Proofs** (`TurnLoop_proofs.tla`). The invariant adds to `TurnActiveIsTheLatest` and `QueuedInputIsWritten` that
turns begin in order (`BegunInOrder`) and what types the steps read (`Shape`). `Runs(t)` says what any step of a
running turn may do to the rest: move no other turn, leave the epoch, tell the queue nothing unless it is the
latest, carry typed input on, and, when it was taken over, go no further (`GoesNoFurther`: open no request, force
no compaction, end after a response that would have been continued). That each of the
turn's actions is such a step (`RoundRuns`, `CompactionRuns`, `DispatchRuns`) is most of the proof; the three
theorems follow from `Runs` alone, for every number of turns, rounds, calls and interleavings.

The conversation has an invariant of its own, `Talk`. `Conversation` is what the loop can write, far short of what a
provider takes: roles are kept apart, a call is made once, and no answer stands before its call. `RepairIsWellFormed` proves that `SanitizeMessages` makes
of every such conversation one that is `WellFormed`, and `SanitizeIs` that it keeps every real
answer. The operators of `Transcript` are written over the places of a sequence (`At`, `Place`) and not as loops, and so
the proof needs least and greatest places and no induction. `Faithful` adds what turns and calls make of
it: a call in it was made, an answer in it was given, an outcome that was told is never answered otherwise, and stands in it while its call
does. `Talk` says this of the conversation and of every plan a compaction holds while it summarizes (`PlanIsFaithful`), because what comes
back replaces the conversation by the plan; what was said or told meanwhile is in `overtaken`. `RequestsPaired`, `OutcomesReach`
and `PromptsAreKept` follow for every number of turns, calls and compactions.

`AutoCompact.tla` is the accounting of `maybeCompact` alone: when an attempt is made, planned, paused and
counted, over many turns and with attempts that outlive their turn. **Run `autocompact`** uses the
constants of the code (a span of three turns, three rapid refills, three failures), six turns and one
stopped turn that still writes: `NeverOffForLong`, `ThrashingStops`, `AttemptsOncePerTurn`.

**Proofs** (`AutoCompact_proofs.tla`). `IInv` conjoins the type of the accounting with six facts: the
accounting knows the age of the last compaction unless a stopped turn has overwritten it (`Aged`), a closed
breaker has counted the streak (`Counted`), an attempt was planned from the accounting it saw with no
breaker open (`Planned`), nothing knows a turn that has not begun (`Past`), and the running turn's attempt
is remembered outside the accounting (`Remembered`), which is what survives a failed summary that restores
what it saved. Of the two promises neither is inductive alone: an attempt that
ends after others needs `Planned` and `Aged`. The theorems hold for every span, limit, number of
failures and turns.

## 7. Session sync

`SessionSync.tla` models the outgoing rail: `pushOutgoing`, `syncOutgoingEvents`, the claim of counters,
the cursor, `tryBootstrap` and `runSyncTick`.

| Model | Code |
|---|---|
| `records`, `kind` | `session.records`; a record has a uuid, has none (a queued input), or is not for the companion |
| `counter`, `claim`, `anchor`, `marker` | the key file: `counter`, `pending_claim`, `last_synced_uuid`, `remote_deleted` |
| `cursor`, `registered`, `stopped`, `failures`, `suspended` | the variables of `startSync` and `bootstrap.ts` |
| `signedIn`, `SignOut`, `SignIn` | whether `loadFreshAuth` would answer: without a token a tick returns (`start.ts:522-523`), a push is refused and the rail is not started |
| `push`, `boots`, `poll` | a push, registrations and a poll under way, each at its await |
| `TryBootstrap`, `BootProbe`, `BootRegister`, `BootRegistered`, `BootShares`, `BootDone`, `BootFails`, `BootRefused` | a registration, from the look for the row to the sharing of the session key and the greeting |
| `Restart`, `StartFails` | `startSync`, which may also fail to register and give no rail |
| `ResumeIndex`, `CursorThrough`, `Claimed`, `ClaimFor` | `resumeIndexFor`, `cursorThrough`, `claimAlignment`, `claimOutgoingCounters` |
| `GoOn` | the code of a push between two requests: skip what is not syncable, gather a run, claim its counters, send |
| `row`, `log`, `wire`, `Verdict`, `Take`, `LateRequest`, `DropRow` | the broker and the network, external: a request is atomic, a counter is taken once, a row can go away |

| Run | Instance | Shows |
|---|---|---|
| `sync_outbox` | three records, the second perhaps without a name or a compaction in their place; batches of two; one thing that goes wrong, under fairness (394 949 states) | `NothingSkipped`, `DeliveredOnce`, `EverythingArrives` |
| `sync_collapse` | four records, a compaction during a push, nothing else that goes wrong | violation: `NothingSkipped` fails (section 10) |

What goes wrong may be a request lost, delivered late or refused, an answer lost, a session key that cannot be shared, a
crash, a sign-out, a start that gives no rail, a row dropped or deleted. `NothingSkipped`: what a cursor covers was taken by the
broker. `DeliveredOnce`: until a reseed no named record is stored twice. One thing going wrong is enough for a retry that
meets its own first attempt. It is not enough for the last retry of a push or the last failure before the rail is suspended
(`MaxRetries` is 1 and `MaxFailures` 2 in the instance): these take two, which were explored for safety with the same result (9.1 million
states), and the two safety properties are proved for every number of them.

Fairness: the interval timer ticks, the broker answers or the request fails, and the session is started
again. A push that gives up is repeated by the next tick, so nothing more is needed. A tick acts only while
somebody is signed in, and nobody is assumed to sign in, so `EverythingArrives` promises nothing to a session that is signed out:
a record arrives, or a compaction takes it first, or the rail has ended, or the user is not signed in. The reconnection of
the socket ticks too and is not counted on.

`Tidy` leaves three situations out of `sync_outbox` in which the code steps over a record or stores it twice
(section 10); `sync_collapse` is the run with one of them put back.

**Proofs** (`SessionSync_proofs.tla`). Both promises are proved under `Tidy`, for every number and kinds of
records, every batch size and limit of retries, failures, registrations and troubles. Neither is inductive, and both rest on what a
counter stands for: `claim` is the only memory of it that outlives a crash.

`RailInv`, for `NothingSkipped`, says that

* every cursor, the saved one and the one a push carries covers only what the broker took (`CursorsCover`);
* a push is a piece of the records as they are, all before it done with (`PushIsPiece`): it is what a compaction
  during a push destroys, and the first use of `Tidy`;
* (`Claims`) counters in the claim are distinct and minted (`Numbered`), a counter was offered with one record only
  (`OneRecord`), and when the claim is laid along the records from a name they share, each of its
  counters lies at the record it was first offered with, forward (`Ahead`) and back (`Behind`). So whatever a retry
  keeps of the claim it keeps for the same records, and an answer `duplicate` means that this record was taken. A crash loads
  fewer records, and the claim still lies along them because of the second use of `Tidy`.

`OnceInv`, for `DeliveredOnce`, adds the converse until the cursor is reset: every offer of a record has one counter
(`OneCounter`); a record that was offered and is not done with has its counter in the claim (`Remembered`);
and back from a record the claim knows, claim and records agree until only records that are not for the companion lie
before what is done with (`Lined`). With `Lined` the next batch finds its first name at the place from which every old offer is
met again (`BatchKeepsCounters`), so the claim is kept and not minted anew. It needs that a record without a name is never the first
(`First`), the third use of `Tidy`, and that no unnamed record lies between two names of the claim at a
crash (`NoGap`).

The positions of the model are computed with `SubSeq`, `Min` and `Max`, not by recursion, so that they can
be reasoned about: `Loaded` gives the records of a restart as the ascending sequence of those with a name.

## 8. Scheduler

`Scheduler.tla` models the durable tasks of a project and the sessions that share them. A check is
synchronous in its process, so its steps are cut where it looks at something another process changes:
the tasks file, the lease file, and the list of live processes.

| Model | Code |
|---|---|
| `saved`, `owner`, `recurring` | the file of tasks: `lastFiredAt` as the match it fired for, `ownerPid`, `recurring` |
| `lease` | the lease file, created and signed in two steps (`writeFileSync` with `wx` opens, then writes) |
| `held`, `nextFire`, `spent`, `seen`, `missed` | the module variables of `lease.ts` and `scheduler.ts`, and the tasks of the check under way |
| `OpenLease`, `WriteLease`, `ReadLease`, `UnlinkLease` | `claimSchedulerLease` at each look at the file |
| `SkipTask`, `RetireSpent`, `WaitForTask`, `Fire`, `WriteRemoval`, `WriteFire` | one task in the loop of `check` |
| `FindMissed`, `RemoveMissed`, `Announce` | `surfaceMissedOneShots` |
| `Stop`, `Exit`, `Crash` | `stopCronScheduler`, the lease released in two steps, and a process that dies |

Time is the number of matches of a task's cron that have passed. What is forgotten about tasks that are
not a session's business any more is forgotten when it reads or skips them, which is the same check.

**Run `scheduler`** (267 968 states, under fairness): three sessions of which two run at a time, one task
that may be recurring, two crashes, one failed write. Three sessions make a dead holder, and two that
take over; one of them stays so that somebody is there to fire. `NoTaskIsLost`, `DueTasksFire`,
`SplitHeals`. Two tasks and two sessions were explored for safety (3.6 million states).

Fairness: a session's timer keeps checking, and probes the lease every fifth check or so (strong fairness
of `Probe`, since a check without a probe disables it for a moment); the session that stays starts. A
session that is busy for ever is excluded.

**Proofs** (`Scheduler_proofs.tla`). `NoTaskIsLost` is not inductive: a session removes tasks on the word
of what it remembers. `IInv` adds what it may remember: the missed tasks it removes are the ones it will announce
(`Announcing`), a task in `spent` has fired or will be announced (`SpentHasFired`), the task it writes
about has fired (`NoteHasFired`). The lease does not occur in the argument: losing it, sharing it or
unlinking another's can make a task fire twice and never lose one. It holds for every number of sessions,
tasks, matches, crashes and failed writes.

## 9. What is proved and what is only checked

| Proved for every value of the constants | Checked on small instances |
|---|---|
| `EmitQueue`: `TypeOK`, `InventoryHasOwner`, `NoLostWakeup`, `SnapshotCurrent`, `OneEnvelopePerKey`, `StickyOncePerTurn`, `ImplementsDelivery` | `NothingStranded` |
| `BackgroundTasks`: `RunningIsUntold`, `InventoryHasOwner`, `TermMatchesQueue`, `ReportedRunsEnd`, `KilledRunsAbort`, `ImplementsDelivery`; on the surfaces of section 4 `ParkedHasWork`, `DetachedChildReports`, `RunsKeepTheirNotices`, `StaleRunsArePowerless` | `NothingStranded`, `EveryRunSettles` |
| `TurnDispatch`: `TypeOK`, `GuardHasHolder`, `TurnsAreSerial`; `IdleShowsIdle` and `NothingStranded` without the features of section 10 | `QueuedIsTaken` |
| `AutoCompact`: `TypeOK`, `NeverOffForLong`, `ThrashingStops`, `AttemptsOncePerTurn` | |
| `Scheduler`: `TypeOK`, `NoTaskIsLost` | `DueTasksFire`, `SplitHeals` |
| `TurnLoop`: `TurnActiveIsTheLatest`, `QueuedInputIsWritten`, `StaleTurnsGoNoFurther`, `RequestsArePaired`, `OutcomesReachTheModel`, `PromptsStay`; the repair of `Transcript` | `EveryTurnEnds` |
| `SessionSync`: `NothingSkipped`, `DeliveredOnce`, both under `Tidy` | `EverythingArrives` |

Every invariant and every action property of a passing run is stated by a theorem. What stays with TLC is
liveness under fairness, which is out of the prover's reach as `ENABLED` is. The induction theorems of the library take an operator as a
parameter, which the installed provers cannot instantiate; where a fact needed an induction over data (the fold of a
drain, the places of a conversation, the records of a restart) it was proved by a smallest counterexample or the definition was
written without recursion.

## 10. Finding and known limits

One run ends in a violation of what comments of the program say; it is the `findings` entry of
`PROJECT.json`, with the quoted lines.

`sync_collapse`: a push keeps a position of the record array across the await of its request. A
compaction that collapses the array meanwhile leaves the position beyond what is left of it, a record appended after
the compaction falls under it, and the cursor anchors on a record that was never sent.

Further ways the code departs from a property, or from what it says of itself, were met while the models
were written and instances chosen. No passing run includes them.

Background tasks:

* a detached agent waits for a nested one, Esc aborts the nested one, and before it has unwound it is sent to the background after
  all, by ctrl+b or by its definition: the parent gets a receipt for its call and parks until the child
  reports (`loop-runner.ts:66-67`, `loop-runner.ts:619-620`), the finally of the child cancels its own row and keeps its notice from the
  root (`fork/loop.ts:207-216`), and the parent sleeps until it is steered or stopped (TLC finds it as a violation of
  `ParkedHasWork` with the surfaces `main`, `nested`, `cancel` and `late`);
* an agent that ran in the foreground and is resumed from its view ends without a notice
  (`view-input.ts:183`; its comment, lines 100-101, says "Completion flows through completeTask like
  any background agent, notifying the main loop.");
* the finally of a stopped fork cancels the run its row belongs to by then, which may be a newer one
  (`fork/loop.ts:209`; `nested-lifecycle.test.ts:408`: "resumed generations remain detached and reject
  stale completion");
* closing the row of a tree whose root has ended removes running descendants without stopping
  them (`removeTaskTree`), and a parked ancestor that waited for one is never woken;
* a batch abandoned by TaskStop between two groups never opens the gate of a child detached in
  the earlier group: its report is lost (`fork/tool-dispatch.ts`);
* a stop while the view's resume appends its record reaches no controller (`view-input.ts`);
* a row restored from disk starts at generation 0 again, so an unread notice of generation 1 can be
  replaced after an eviction.

Turn dispatch:

* of two commands behind a cancelled turn, one stays in the queue of an idle session: the resume is asked
  for while the reservation is still held, and nobody asks again (`submitted-turn.ts:543`; lines 503-504:
  "even a cancelled/superseded turn must drain the queue so OTHER messages queued behind it are not stranded");
* a hook that blocks a promoted prompt leaves `runningRef` set with no turn under way; every later
  prompt queues and Esc does nothing (`submitted-turn.ts:530`);
* Esc between `begin` and the loop is forgotten, because the loop clears the cancelled flag at its start
  and nobody compares the generation in between (`submitted-turn.ts:404-415`; `guard.ts:8-9`: "The generation
  counter closes that");
* a cancelled forked skill asks for no resume, and a prompt refused by `claim()` is dropped.

Turn loop and compaction:

* a turn that was taken over while a tool runs starts its next group of tools beside the new turn: the
  checks of a batch read `host.cancelled` alone, which the new turn has reset (`tool-dispatch.ts:138`);
* what is written while a compaction holds its plan is lost by its splice (`auto.ts:262-301`);
* a turn that was taken over still sends the request it was opening, asks for the summary whose hooks were being
  asked, and asks its stop hooks: the awaits of `stream.ts:84-115` and `auto.ts:196-229` are followed by no look at the epoch;
* after a forced compaction on overflow the turn's own controller is not the active one
  (`manual.ts:150-153`), so Esc does not abort its stream, and a turn taken over can take queued input;
* a stale turn's quota error cancels the new turn (`handleFailedDispatch`);
* an attempt that outlives its turn restores or overwrites newer accounting (`undone` in `AutoCompact`),
  and a compaction by hand leaves the count of failures standing.

Session sync:

* a process that crashes with an unanswered batch holding a queued input between two records loads the
  records without it, and the third is offered with the counter of the second: it is taken for a duplicate
  and lost (`Tidy` in `Crash`);
* a queued input before every named record is never covered by a cursor, and the named record behind it is
  stored twice (`Tidy` in `AppendRecord`; `session-crypto.ts:165-171`);
* when the broker drops the row, a push under way overwrites the reset cursor with its own, and the
  history is not offered to the new row (`start.ts:413`; `start.ts:178-179`: "so a missing remote incarnation
  can reseed from the canonical local transcript"). `EverythingArrives` counts a record that any row took.

Scheduler and file lock:

* two sessions can hold the lease for a moment, and both fire an orphaned task (`lease.ts:7-8`: "only the one
  holding the lease fires them, so none fires twice"): a lease that is created and not yet signed is
  unlinked, and a lease is unlinked on a look that is no longer true (`lease.ts:53-58`);
* a session that loses the lease for one check forgets that a task is spent, and fires it again when its
  removal had failed;
* a session that crashes between firing a task and removing it leaves it to be fired again, and one that
  crashes between removing a missed task and announcing it loses it (`cut` in `Scheduler`);
* a tasks file that cannot be read or parsed counts as empty (`cron/index.ts:141-146`), and the next task that is created
  is written back alone (`cron/index.ts:149-159`): the others are lost. `Scheduler` reads a file that can be read;
* `DueTasksFire` of a recurring task speaks of its first fire only;
* a stale file lock is taken over by reading and deleting in two steps, so two processes can both hold
  it (`file-lock.ts:103-117`); `Scheduler` takes the lock as given.

## 11. Not modelled

* Of the delivery queue: `awaitFirst`, which nothing calls; `autoTurn: false`, which no caller passes; how a drained
  envelope is rendered, including the display bands inside one drain, and the notification hooks.
* Of the turn dispatch: immediate commands, which touch neither guard nor queue; the order of messages
  that are joined into one prompt; awaits that only yield to microtasks and are merged with the step before;
  the driver's branch for an empty drain, unreachable because it tests the queue first.
  `WorkArrives` treats any compact under way as the busy flag that the code derives from the compact's status.
* Of the turn loop: the content of streams, injections, memories and goals; the splice of `budgetMessages` while a request is opened, which
  replaces long tool outputs by a notice of where they are kept and moves no message; token counts, which decide when a
  compaction is due and are a choice of the environment; peeling, rehydration and microcompaction.
* Of session sync: the incoming rail, whose rows are only polled and whose memory of what it applied does
  not survive a restart; pairing, and a start that finds no peer (`start.ts:108`); the remote toggle and `resumeRemoteSync`; stop and re-enable within one process; rewinds; events beside the records other than
  `session_start`; titles, presence, quota; overlapping polls; the migration of old cursors.
* Of the scheduler: tasks of one session, loop wakeups, cron arithmetic and jitter, pids that are used again.
* The task board: `claimTask`, which would make it a protocol between processes, has no caller; what is left are
  single edits of a file.
* The components marked `not_modelled` in `PROJECT.json`. Most of the 2132 files are rendering, conversion, provider
  formats, loading and tables, without control state that a model would tell apart, which is why the map covers a small
  share of the lines: the models follow the state machines, and those are a small part of the program.

## 12. Running

`tlc -config EmitQueue.cfg MCEmitQueue`, and likewise for the other configurations (each names its
module in `PROJECT.json`); `tlapm EmitQueue_proofs.tla`, `tlapm BackgroundTasks_proofs.tla`, `tlapm BackgroundNotices_proofs.tla`,
`tlapm TurnDispatch_proofs.tla`, `tlapm TurnLoop_proofs.tla`, `tlapm AutoCompact_proofs.tla`, `tlapm SessionSync_proofs.tla`,
`tlapm Scheduler_proofs.tla`. The passing runs take up to three minutes each with two workers, the proofs up to five.
