------------------------------ MODULE EmitQueue ------------------------------
(***************************************************************************)
(* The delivery queue of src/engine/queue/emit.ts: every notification of   *)
(* the session (task completions, workflow results, orphaned tool calls,   *)
(* scheduled prompts, goal check-ins) waits here until the main turn       *)
(* drains it at a boundary or the fork that owns it takes it.              *)
(*                                                                         *)
(* The four class arrays are one set of envelopes.  "slot" is the place of *)
(* an envelope in its array (a replacement inherits it), "seq" its arrival *)
(* order.  JavaScript runs each call to completion, so a call is a step.   *)
(***************************************************************************)
EXTENDS Naturals, Sequences, FiniteSets, SequencesExt, FiniteSetsExt

CONSTANTS
    Owners,           \* fork ids that may register as notification owners
    NoOwner,          \* ownerId left undefined
    Keys,             \* replay keys
    NoKey,            \* replayKey left undefined
    TaskKeys,         \* the keys of background task runs: bg:<id>:<generation>
    DirectInputs,     \* what the callers of emit pass
    CompletionInputs, \* what the callers of emitForCompletion pass
    MaxReplayKeys,    \* MAX_CONSUMED_REPLAY_KEYS
    MaxSeq,           \* bound: envelopes minted
    MaxLeases,        \* bound: registrations of one owner held at a time
    MaxUnwinding      \* bound: superseded turns still unwinding

Class == {"interrupt_bash", "urgent_output", "deferred_output", "idle_prompt"}
PriorityOrder == <<"interrupt_bash", "urgent_output", "deferred_output", "idle_prompt">>
Target == {"transcript", "llm_request", "both", "inventory", "none"}

\* No caller asks for "inventory" itself, emitForCompletion alone decides it, and
\* orphaned tool calls (orphan-synth.ts) are the only sticky envelopes.
ASSUME InputsAssumption ==
    /\ NoOwner \notin Owners
    /\ NoKey \notin Keys
    /\ TaskKeys \subseteq Keys
    /\ DirectInputs \subseteq [class : Class, target : Target \ {"inventory"},
                               key : Keys \cup {NoKey}, sticky : BOOLEAN]
    /\ \A in \in DirectInputs : in.sticky => in.class = "interrupt_bash"
    /\ CompletionInputs \subseteq [class : {"urgent_output", "deferred_output"},
                                   owner : Owners \cup {NoOwner}, key : Keys \cup {NoKey}]

ASSUME BoundsAssumption ==
    /\ MaxReplayKeys \in Nat \ {0}
    /\ MaxSeq \in Nat
    /\ MaxLeases \in Nat \ {0}
    /\ MaxUnwinding \in Nat

Envelope == [seq : Nat, slot : Nat, class : Class, target : Target,
             owner : Owners \cup {NoOwner}, key : Keys \cup {NoKey}, sticky : BOOLEAN]

VARIABLES
    queue,              \* subQueues
    idCounter,          \* arrivals minted so far
    consumedStickyKeys,
    consumedReplayKeys, \* oldest first
    leases,             \* size of activeOwners[o]; 0 when o is not registered
    turnActive,         \* the newest turn has not ended
    unwinding,          \* cancelled turns a newer one superseded, still running
    snapshot,           \* stateStore: what subscribers read instead of the queue
    waiting             \* owners whose waitForOwner promise is pending

vars == <<queue, idCounter, consumedStickyKeys, consumedReplayKeys, leases,
          turnActive, unwinding, snapshot, waiting>>

----------------------------------------------------------------------------
(* Reading the queue *)

IsOwnerRegistered(o) == leases[o] > 0

HasOwnerInventory(q, o) == \E i \in q : i.owner = o /\ i.target = "inventory"

\* An envelope the main turn could still deliver wakes an idle session.
PendingAutoTurn(q) == \E i \in q : i.target \notin {"inventory", "none"}

SnapshotOf(q, active) == [hasPendingAutoTurn |-> PendingAutoTurn(q), turnActive |-> active]

\* syncStateSnapshot publishes the new state, and its subscribers run before it
\* returns: the promise of an owner that now has inventory resolves.
Sync(q, active) ==
    /\ snapshot' = SnapshotOf(q, active)
    /\ waiting' = {o \in waiting : ~HasOwnerInventory(q, o)}

NoSync == UNCHANGED <<snapshot, waiting>>

----------------------------------------------------------------------------
(* Filing an envelope *)

\* Fault: a re-emission is pushed beside the envelope it should replace.
SpliceOrPush_AlwaysPush(q, e) == q \cup {e}

Holders(q, e) == {i \in q : e.key # NoKey /\ i.key = e.key /\ i.class = e.class}
FirstHolder(q, e) == CHOOSE i \in Holders(q, e) : \A j \in Holders(q, e) : i.slot <= j.slot

\* The newest envelope of a replay key takes the place of the one it replaces.
SpliceOrPush(q, e) ==
    IF Holders(q, e) = {} THEN q \cup {e}
    ELSE (q \ {FirstHolder(q, e)}) \cup {[e EXCEPT !.slot = FirstHolder(q, e).slot]}

NextArrival(class, target, owner, key, sticky) ==
    [seq |-> idCounter + 1, slot |-> idCounter + 1, class |-> class, target |-> target,
     owner |-> owner, key |-> key, sticky |-> sticky]

\* Fault: the consumed sticky keys are not consulted.
BlockedBySticky_Never(e) == FALSE

BlockedBySticky(e) == e.sticky /\ e.key \in consumedStickyKeys

Enqueue(e) ==
    /\ idCounter < MaxSeq
    /\ idCounter' = idCounter + 1
    /\ IF BlockedBySticky(e)
       THEN UNCHANGED <<queue, consumedReplayKeys>> /\ NoSync
       ELSE /\ consumedReplayKeys' = RemoveFirst(consumedReplayKeys, e.key)
            /\ queue' = SpliceOrPush(queue, e)
            /\ Sync(queue', turnActive)
    /\ UNCHANGED <<consumedStickyKeys, leases, turnActive, unwinding>>

Emit(in) == Enqueue(NextArrival(in.class, in.target, NoOwner, in.key, in.sticky))

\* Fault: the registration of the owner is not consulted.
CompletionTarget_Unchecked(owner) == IF owner \in Owners THEN "inventory" ELSE "both"

\* A completion goes to its owner while that owner is registered, else to main.
CompletionTarget(owner) ==
    IF owner \in Owners /\ IsOwnerRegistered(owner) THEN "inventory" ELSE "both"

EmitForCompletion(in) ==
    Enqueue(NextArrival(in.class, CompletionTarget(in.owner), in.owner, in.key, FALSE))

----------------------------------------------------------------------------
(* Consuming envelopes *)

Policy(boundary) ==
    IF boundary = "turn_start" THEN [c \in Class |-> "both"]
    ELSE [c \in Class \ {"idle_prompt"} |-> "llm_request"]

TargetCompatible(itemTarget, policyTarget) ==
    /\ itemTarget \notin {"none", "inventory"}
    /\ \/ itemTarget = policyTarget
       \/ itemTarget = "both"
       \/ policyTarget = "both"

PlanDrain(q, boundary) ==
    {i \in q : /\ i.class \in DOMAIN Policy(boundary)
               /\ TargetCompatible(i.target, Policy(boundary)[i.class])}

ClassRank(c) == CHOOSE n \in DOMAIN PriorityOrder : PriorityOrder[n] = c
ArrayOrder(i, j) ==
    \/ ClassRank(i.class) < ClassRank(j.class)
    \/ i.class = j.class /\ i.slot <= j.slot

MarkReplayKeyConsumed(keys, k) ==
    IF Contains(keys, k) THEN keys
    ELSE IF Len(keys) >= MaxReplayKeys THEN Append(Tail(keys), k)
    ELSE Append(keys, k)

LastInArrays(items) == CHOOSE i \in items : \A j \in items : ArrayOrder(j, i)

\* commitDrain walks the arrays, so the keys are marked in array order.
MarkDrained(keys, drained) ==
    MapThenFoldSet(LAMBDA k, marked : MarkReplayKeyConsumed(marked, k), keys,
                   LAMBDA i : i.key, LastInArrays, {i \in drained : i.key # NoKey})

StickyKeysOf(drained) == {i.key : i \in {d \in drained : d.sticky /\ d.key # NoKey}}

CommitDrain(drained) ==
    /\ queue' = queue \ drained
    /\ consumedReplayKeys' = MarkDrained(consumedReplayKeys, drained)

DrainForBoundary(boundary) ==
    LET picked == PlanDrain(queue, boundary)
    IN  /\ picked # {}
        /\ CommitDrain(picked)
        /\ consumedStickyKeys' = consumedStickyKeys \cup StickyKeysOf(picked)
        /\ Sync(queue', turnActive)
        /\ UNCHANGED <<idCounter, leases, turnActive, unwinding>>

OwnerInventory(q, o) == {i \in q : i.owner = o /\ i.target = "inventory"}

TakeForOwner(o) ==
    LET taken == OwnerInventory(queue, o)
    IN  /\ taken # {}
        /\ CommitDrain(taken)
        /\ consumedStickyKeys' = consumedStickyKeys \cup StickyKeysOf(taken)
        /\ Sync(queue', turnActive)
        /\ UNCHANGED <<idCounter, leases, turnActive, unwinding>>

Cancel(k) ==
    /\ \E i \in queue : i.key = k
    /\ queue' = {i \in queue : i.key # k}
    /\ Sync(queue', turnActive)
    /\ UNCHANGED <<idCounter, consumedStickyKeys, consumedReplayKeys, leases, turnActive, unwinding>>

\* Raising a flag that is already up only forgets the sticky keys: the turn that
\* supersedes a cancelled one drains nothing at its start.
SetTurnActive(active) ==
    LET picked == IF active /\ ~turnActive THEN PlanDrain(queue, "turn_start") ELSE {}
    IN  /\ turnActive' = active
        /\ CommitDrain(picked)
        /\ consumedStickyKeys' =
             (IF active THEN {} ELSE consumedStickyKeys) \cup StickyKeysOf(picked)
        /\ IF turnActive = active THEN NoSync ELSE Sync(queue', active)
        /\ UNCHANGED <<idCounter, leases>>

BeginTurn == ~turnActive /\ SetTurnActive(TRUE) /\ UNCHANGED unwinding

\* A new prompt does not wait for the cancelled turn to unwind.
SupersedeTurn ==
    /\ turnActive
    /\ unwinding < MaxUnwinding
    /\ unwinding' = unwinding + 1
    /\ SetTurnActive(TRUE)

EndTurn == turnActive /\ SetTurnActive(FALSE) /\ UNCHANGED unwinding

\* A superseded turn leaves the flag to the turn that took over.
EndSuperseded ==
    /\ unwinding > 0
    /\ unwinding' = unwinding - 1
    /\ UNCHANGED <<queue, idCounter, consumedStickyKeys, consumedReplayKeys, leases, turnActive>>
    /\ NoSync

----------------------------------------------------------------------------
(* Owners *)

\* Fault: registering claims back what an earlier release promoted.
RegisterOwner_Reclaims(o) ==
    /\ leases[o] < MaxLeases
    /\ leases' = [leases EXCEPT ![o] = @ + 1]
    /\ queue' = {IF i.owner = o THEN [i EXCEPT !.target = "inventory"] ELSE i : i \in queue}
    /\ Sync(queue', turnActive)
    /\ UNCHANGED <<idCounter, consumedStickyKeys, consumedReplayKeys, turnActive, unwinding>>

RegisterOwner(o) ==
    /\ leases[o] < MaxLeases
    /\ leases' = [leases EXCEPT ![o] = @ + 1]
    /\ UNCHANGED <<queue, idCounter, consumedStickyKeys, consumedReplayKeys, turnActive, unwinding>>
    /\ NoSync

\* Fault: the unread inventory stays where it is.
Promote_Forgotten(q, o) == q

Promote(q, o) ==
    {IF i.owner = o /\ i.target = "inventory" THEN [i EXCEPT !.target = "both"] ELSE i : i \in q}

\* Fault: a lease can be released twice.
ReleaseOwner_Twice(o) ==
    /\ leases' = [leases EXCEPT ![o] = @ - 1]
    /\ IF leases[o] = 1 /\ HasOwnerInventory(queue, o)
       THEN queue' = Promote(queue, o) /\ Sync(queue', turnActive)
       ELSE UNCHANGED queue /\ NoSync
    /\ UNCHANGED <<idCounter, consumedStickyKeys, consumedReplayKeys, turnActive, unwinding>>

\* The last lease to go hands the unread inventory to the main turn.  A fork
\* parked in waitForOwner still holds its own lease.
ReleaseOwner(o) ==
    /\ leases[o] > (IF o \in waiting THEN 1 ELSE 0)
    /\ leases' = [leases EXCEPT ![o] = @ - 1]
    /\ IF leases[o] = 1 /\ HasOwnerInventory(queue, o)
       THEN queue' = Promote(queue, o) /\ Sync(queue', turnActive)
       ELSE UNCHANGED queue /\ NoSync
    /\ UNCHANGED <<idCounter, consumedStickyKeys, consumedReplayKeys, turnActive, unwinding>>

\* Fault: the inventory is not looked at before the promise is made.
WaitForOwner_Unchecked(o) ==
    /\ IsOwnerRegistered(o)
    /\ waiting' = waiting \cup {o}
    /\ UNCHANGED <<queue, idCounter, consumedStickyKeys, consumedReplayKeys, leases,
                   turnActive, unwinding, snapshot>>

\* waitForOwner resolves at once when there is something to take.
WaitForOwner(o) ==
    /\ IsOwnerRegistered(o)
    /\ ~HasOwnerInventory(queue, o)
    /\ waiting' = waiting \cup {o}
    /\ UNCHANGED <<queue, idCounter, consumedStickyKeys, consumedReplayKeys, leases,
                   turnActive, unwinding, snapshot>>

\* The abort signal, or a steer that won the race, resolves the promise.
AbandonWait(o) ==
    /\ o \in waiting
    /\ waiting' = waiting \ {o}
    /\ UNCHANGED <<queue, idCounter, consumedStickyKeys, consumedReplayKeys, leases,
                   turnActive, unwinding, snapshot>>

\* Moves the envelopes of a key to another owner in place.
Reparent(k, o) ==
    /\ \E i \in queue : i.key = k
    /\ queue' = {IF i.key = k THEN [i EXCEPT !.owner = o, !.target = CompletionTarget(o)] ELSE i
                   : i \in queue}
    /\ Sync(queue', turnActive)
    /\ UNCHANGED <<idCounter, consumedStickyKeys, consumedReplayKeys, leases, turnActive, unwinding>>

----------------------------------------------------------------------------

Init ==
    /\ queue = {}
    /\ idCounter = 0
    /\ consumedStickyKeys = {}
    /\ consumedReplayKeys = <<>>
    /\ leases = [o \in Owners |-> 0]
    /\ turnActive = FALSE
    /\ unwinding = 0
    /\ snapshot = SnapshotOf({}, FALSE)
    /\ waiting = {}

Producers == (\E in \in DirectInputs : Emit(in)) \/ (\E in \in CompletionInputs : EmitForCompletion(in))

MainTurn ==
    \/ BeginTurn
    \/ SupersedeTurn
    \/ EndTurn
    \/ EndSuperseded
    \/ turnActive /\ DrainForBoundary("mid_turn")
    \* A superseded turn that unwinds from its tools still closes their batch.
    \/ (turnActive \/ unwinding > 0) /\ DrainForBoundary("tool_loop_end")

Fork(o) ==
    \/ RegisterOwner(o)
    \/ ReleaseOwner(o)
    \/ IsOwnerRegistered(o) /\ TakeForOwner(o)
    \/ WaitForOwner(o)
    \/ AbandonWait(o)

\* A task tree that is cancelled withdraws the notifications of its children and
\* hands those of its detached ones to the main turn.
TaskLifecycle == \E k \in TaskKeys : Cancel(k) \/ Reparent(k, NoOwner)

Next == Producers \/ MainTurn \/ (\E o \in Owners : Fork(o)) \/ TaskLifecycle

Spec == Init /\ [][Next]_vars

(***************************************************************************)
(* The resume driver (and print mode's loop) dispatches a turn while the   *)
(* queue holds something for it; a turn ends; a fork takes its inventory   *)
(* at the boundaries of its own loop or gives its lease up.                *)
(***************************************************************************)
Fairness ==
    /\ WF_vars(PendingAutoTurn(queue) /\ BeginTurn)
    /\ WF_vars(EndTurn)
    /\ WF_vars(EndSuperseded)
    /\ \A o \in Owners : WF_vars(IsOwnerRegistered(o) /\ TakeForOwner(o))

FairSpec == Spec /\ Fairness

----------------------------------------------------------------------------
(* Properties *)

QueueTypeOK ==
    /\ queue \subseteq Envelope
    /\ idCounter \in 0..MaxSeq
    /\ consumedStickyKeys \subseteq Keys
    /\ leases \in [Owners -> 0..MaxLeases]
    /\ turnActive \in BOOLEAN
    /\ unwinding \in 0..MaxUnwinding
    /\ snapshot \in [hasPendingAutoTurn : BOOLEAN, turnActive : BOOLEAN]
    /\ waiting \subseteq Owners

\* Every variable keeps its shape; in particular a lease is released once only,
\* and the consumed keys stay within their bound.
TypeOK ==
    /\ QueueTypeOK
    /\ consumedReplayKeys \in Seq(Keys)
    /\ Len(consumedReplayKeys) <= MaxReplayKeys

\* A private envelope always has a registered owner to take it: emitForCompletion
\* looks the owner up when it files, and the last release promotes what is left.
\* Without it a completion would be invisible to both the fork and the main turn.
InventoryHasOwner ==
    \A i \in queue : i.target = "inventory" => i.owner \in Owners /\ IsOwnerRegistered(i.owner)

\* A fork parked in waitForOwner never sleeps on something it could take: each
\* change of the queue reaches the subscription before the call returns.
NoLostWakeup == \A o \in waiting : IsOwnerRegistered(o) /\ ~HasOwnerInventory(queue, o)

\* What subscribers read (the resume driver, print mode, the cron scheduler) is
\* the state of the queue, though targets are also changed in place.
SnapshotCurrent == snapshot = SnapshotOf(queue, turnActive)

\* A replay key stands for one envelope of its class: a re-emission replaces it,
\* whatever was drained, cancelled or promoted in between.
OneEnvelopePerKey ==
    \A i, j \in queue : i.key # NoKey /\ i.key = j.key /\ i.class = j.class => i = j

\* A sticky envelope the model has received is not filed again before the next
\* turn begins.
StickyOncePerTurn ==
    \A i \in queue : i.sticky /\ i.key # NoKey => i.key \notin consumedStickyKeys

\* Where the envelope of an arrival is, for the abstract specification.
Arrived(s) == {i \in queue : i.seq = s}
PlaceOf(s) ==
    IF s > idCounter THEN "unborn"
    ELSE IF Arrived(s) = {} THEN "gone"
    ELSE IF \E i \in Arrived(s) : i.target = "inventory" THEN "owner"
    ELSE "main"

Abstract == INSTANCE Delivery WITH
    Items <- 1..MaxSeq, place <- [s \in 1..MaxSeq |-> PlaceOf(s)]

\* The queue implements the delivery promise: nothing public becomes private again
\* and nothing handed over comes back.
ImplementsDelivery == Abstract!Spec

\* Every notification is eventually taken, drained, replaced or cancelled, through
\* owners that go away and turns that supersede each other.
NothingStranded == Abstract!NothingStranded

============================================================================
