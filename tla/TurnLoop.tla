------------------------------ MODULE TurnLoop ------------------------------
(***************************************************************************)
(* The rounds of a conversation's turns (engine/queue/runtime/turn/loop.ts *)
(* and tool-dispatch.ts) on one host: requests, the tool calls they ask    *)
(* for, the conversation the answers go to, and the compactions that       *)
(* rewrite it.                                                             *)
(*                                                                         *)
(* A turn the user cancels gives the screen back at once (turn/guard.ts),  *)
(* while its generator may still be parked in a tool, a hook, a summary or *)
(* a write; the next turn begins on the same host and the two interleave   *)
(* at every await. Turns are numbered by the epoch they begin with.        *)
(***************************************************************************)
EXTENDS Integers, Transcript

CONSTANTS MaxTurn,     \* bound: turns of one run
          MaxRound,    \* bound: responses of a turn that call tools
          MaxCalls,    \* bound: calls of one response, for each turn
          StopCap,     \* stopHookBlockCap: 8 by default, no cap when not positive
          LengthCap,   \* continuations of each turn after an output limit (3)
          Features     \* what the instance explores of each turn, of AllFeatures

AllFeatures == {"compact", "force", "typed", "silent", "malformed", "orphan", "fail"}

ASSUME TurnLoopAssumption ==
  /\ MaxTurn \in Nat \ {0} /\ MaxRound \in Nat /\ MaxCalls \in [1..MaxTurn -> Nat \ {0}]
  /\ StopCap \in Int /\ LengthCap \in [1..MaxTurn -> Nat]
  /\ Features \in [1..MaxTurn -> SUBSET AllFeatures]

Turn == 1..MaxTurn
Call == {c \in Turn \X (1..MaxRound) \X (1..Max(Range(MaxCalls))) :
           c[3] <= MaxCalls[c[1]]}

\* What a message says: the prompt of turn t, or the one message of the run
\* that is typed while a turn is running.
TypedMeanwhile == 0
Sayable == Turn \union {TypedMeanwhile}

\* An abort controller: turn t's own is t, that of its forced compaction -t.
NoController == 0

VARIABLES
  messages,    \* host.deps.session.messages
  turns,       \* the local state of each runTurnRounds
  epoch,       \* turnEpochByHost
  cancelled,   \* host.cancelled
  active,      \* host.activeAbortController
  aborted,     \* the controllers that were aborted
  freed,       \* the turn guard was aborted: another turn may begin
  turnActive,  \* emitQueue.setTurnActive
  calls,       \* the outcome of each tool call
  typed,       \* the message typed meanwhile
  sent,        \* history: what the conversation was told
  told,        \* history: the calls whose real outcome it was told
  overtaken    \* history: what it was told while a compaction held its plan

vars == <<messages, turns, epoch, cancelled, active, aborted, freed,
          turnActive, calls, typed, sent, told, overtaken>>

NoPlan == [said |-> {}, tail |-> <<>>]

Fresh == [pc |-> "unborn", round |-> 0, batch |-> 0, groups |-> <<>>,
          verdict |-> "go", holds |-> FALSE, blocks |-> 0, lengths |-> 0,
          silent |-> 0, empty |-> FALSE, retried |-> FALSE, tried |-> FALSE,
          forced |-> FALSE, next |-> "top", signal |-> NoController, plan |-> NoPlan]

Pcs == {"unborn", "top", "ready", "hooking", "summarizing", "appending",
        "closing", "opening", "stream", "tools", "sealing", "stopping", "done"}

Outcomes == {"none", "asked", "running", "real", "reject", "quota", "throw",
             "cut"}

Init ==
  /\ messages = <<>>
  /\ turns = [t \in Turn |-> Fresh]
  /\ epoch = 0
  /\ cancelled = FALSE
  /\ active = NoController
  /\ aborted = {}
  /\ freed = FALSE
  /\ turnActive = FALSE
  /\ calls = [c \in Call |-> "none"]
  /\ typed = "none"
  /\ sent = {} /\ told = {} /\ overtaken = [said |-> {}, told |-> {}]

----------------------------------------------------------------------------
IsSuperseded(t) == epoch # t

\* Fault: only the flag every turn shares is looked at.
IsCancelled_FlagOnly(t) == cancelled

\* isCancelled: what the loop asks at each of its checks.
IsCancelled(t) == cancelled \/ IsSuperseded(t)

\* The check dispatchTurnToolCalls makes before each call it starts.
DispatchCancelled(t) == cancelled

PlanHeld == \E u \in Turn : turns[u].pc \in {"summarizing", "appending"}

\* session.messages.push: said and answers go to the end of the conversation.
Push(m) ==
  LET items  == m.says
      real   == {a.call : a \in {b \in m.results : b.is = "real"}}
  IN  /\ messages' = IF Holds(m) THEN Append(messages, m) ELSE messages
      /\ sent' = sent \union items
      /\ told' = told \union real
      /\ overtaken' = IF PlanHeld
                      THEN [said |-> overtaken.said \union items,
                            told |-> overtaken.told \union real]
                      ELSE overtaken

Silent == UNCHANGED <<messages, sent, told, overtaken>>

Host == <<epoch, cancelled, active, aborted, freed, turnActive>>

\* Agent.cancel: the flag, and whichever controller is the active one.
HostCancel ==
  /\ cancelled' = TRUE
  /\ aborted' = IF active = NoController THEN aborted
                                         ELSE aborted \union {active}

\* Fault: a turn that was taken over ends whatever is running.
SettledTurnActive_Always(t) == FALSE

\* The finally block of runTurnRounds.
SettledTurnActive(t) == IF IsSuperseded(t) THEN turnActive ELSE FALSE

End(t) ==
  /\ turns' = [turns EXCEPT ![t] = [Fresh EXCEPT !.pc = "done"]]
  /\ turnActive' = SettledTurnActive(t)
  /\ active' = IF active = t THEN NoController ELSE active

EndOnly(t) == End(t) /\ Silent /\ UNCHANGED <<epoch, cancelled, aborted, freed,
                                              calls, typed>>

Goto(t, pc) == turns' = [turns EXCEPT ![t].pc = pc]

----------------------------------------------------------------------------
(* The user.                                                               *)

LatestRuns == IF epoch = 0 THEN FALSE ELSE turns[epoch].pc # "done"

\* TurnGuard: one turn at a time, unless the user cancelled it.
MayBegin(t) == t = epoch + 1 /\ (LatestRuns => freed)

\* The head of runTurnRounds and openTurnPrompt: one synchronous stretch.
BeginTurn(t, drains) ==
  /\ MayBegin(t)
  /\ epoch' = t
  /\ cancelled' = FALSE
  /\ active' = t
  /\ freed' = FALSE
  /\ turnActive' = TRUE
  /\ Goto(t, "top")
  /\ \/ /\ drains
        /\ typed = "queued"
        /\ Push(UserMessage({}, {TypedMeanwhile}))
        /\ typed' = "sent"
     \/ /\ ~drains
        /\ Push(UserMessage({}, {t}))
        /\ UNCHANGED typed
  /\ UNCHANGED <<aborted, calls>>

\* A resume that finds nothing to send ends before its first round.
BeginNothing(t) ==
  /\ MayBegin(t)
  /\ typed # "queued"
  /\ epoch' = t
  /\ cancelled' = FALSE
  /\ active' = NoController
  /\ freed' = FALSE
  /\ turnActive' = FALSE
  /\ Goto(t, "done")
  /\ Silent
  /\ UNCHANGED <<aborted, calls, typed>>

\* Esc: the guard is aborted and the agent cancelled.
UserCancels ==
  /\ LatestRuns
  /\ ~freed
  /\ HostCancel
  /\ freed' = TRUE
  /\ Silent
  /\ UNCHANGED <<turns, epoch, active, turnActive, calls, typed>>

UserTypes ==
  /\ LatestRuns
  /\ "typed" \in Features[epoch]
  /\ typed = "none"
  /\ typed' = "queued"
  /\ Silent
  /\ UNCHANGED <<turns, Host, calls>>

----------------------------------------------------------------------------
(* The top of the loop, and compaction.                                    *)

TopEnds(t) ==
  /\ turns[t].pc \in {"top", "ready"}
  /\ IsCancelled(t)
  /\ EndOnly(t)

\* checkContextOverflow: the prefix alone is too long, or a forced
\* compaction was not enough.
ContextFull(t) ==
  /\ turns[t].pc \in {"top", "ready"}
  /\ ~IsCancelled(t)
  /\ EndOnly(t)

\* openProviderStream runs hooks and archives long answers before the request.
OpenStream(t) ==
  /\ turns[t].pc \in {"top", "ready"}
  /\ ~IsCancelled(t)
  /\ Goto(t, "opening")
  /\ Silent
  /\ UNCHANGED <<Host, calls, typed>>

\* Nothing is asked again before the request is made.
StreamOpens(t) ==
  /\ turns[t].pc = "opening"
  /\ Goto(t, "stream")
  /\ Silent
  /\ UNCHANGED <<Host, calls, typed>>

\* maybeCompact, up to the await of its preCompact hooks: one attempt a turn.
\* The writes of maybeMicroCompact come first, so it is not known any more
\* whose turn it is.
MaybeCompact(t) ==
  /\ "compact" \in Features[t]
  /\ turns[t].pc = "top"
  /\ ~turns[t].tried
  /\ turns' = [turns EXCEPT ![t].pc = "hooking", ![t].tried = TRUE,
                            ![t].forced = FALSE, ![t].next = "top"]
  /\ Silent
  /\ UNCHANGED <<Host, calls, typed>>

\* forceCompactOnOverflow: beginCompact makes its controller the active one.
ForceCompact(t) ==
  /\ "force" \in Features[t]
  /\ turns[t].pc = "top"
  /\ ~IsCancelled(t)
  /\ turns' = [turns EXCEPT ![t].pc = "hooking", ![t].forced = TRUE,
                            ![t].next = "ready"]
  /\ active' = -t
  /\ Silent
  /\ UNCHANGED <<epoch, cancelled, aborted, freed, turnActive, calls, typed>>

\* groupByApiRound: a round begins with an assistant message. One with no
\* call is not in the model, so a round may also begin before a prompt.
RoundStarts == {k \in 2..Len(messages) :
                  messages[k].role = "assistant" \/ messages[k].results = {}}

PlanFrom(k) == [said |-> Said(SubSeq(messages, 1, k - 1)),
                tail |-> SubSeq(messages, k, Len(messages))]

\* The hooks are over and the conversation is handed to the summarizer. An
\* automatic compaction keeps a tail of rounds and obeys the controller that
\* is active by now; a forced one keeps none and obeys its own.
Summarize(t) ==
  /\ turns[t].pc = "hooking"
  /\ \E k \in (IF turns[t].forced THEN {} ELSE RoundStarts)
               \union {Len(messages) + 1} :
       turns' = [turns EXCEPT
         ![t].pc = "summarizing",
         ![t].plan = PlanFrom(k),
         ![t].signal = IF turns[t].forced THEN -t ELSE active]
  /\ Silent
  /\ UNCHANGED <<Host, calls, typed>>

\* forceCompact's finally clears the active controller if it is its own.
ReleasedController(t) ==
  IF turns[t].forced /\ active = -t THEN NoController ELSE active

LeaveCompaction(t) ==
  turns' = [turns EXCEPT ![t].pc = turns[t].next, ![t].plan = NoPlan,
                         ![t].signal = NoController]

SummaryArrives(t) ==
  /\ turns[t].pc = "summarizing"
  /\ turns[t].signal \notin aborted
  /\ Goto(t, "appending")
  /\ active' = ReleasedController(t)
  /\ Silent
  /\ UNCHANGED <<epoch, cancelled, aborted, freed, turnActive, calls, typed>>

\* The summary fails, is empty, or was aborted.
SummaryFails(t) ==
  /\ turns[t].pc = "summarizing"
  /\ LeaveCompaction(t)
  /\ active' = ReleasedController(t)
  /\ Silent
  /\ UNCHANGED <<epoch, cancelled, aborted, freed, turnActive, calls, typed>>

\* Fault: the preserved tail is left out.
Spliced_NoTail(t) == <<UserMessage({}, turns[t].plan.said)>>

\* The boundary is on disk: the messages planned before the summary replace
\* whatever the conversation is by now.
Spliced(t) ==
  <<UserMessage({}, turns[t].plan.said)>> \o turns[t].plan.tail

BoundaryWritten(t) ==
  /\ turns[t].pc = "appending"
  /\ messages' = Spliced(t)
  /\ LeaveCompaction(t)
  /\ UNCHANGED <<Host, calls, typed, sent, told, overtaken>>

BoundaryFails(t) ==
  /\ turns[t].pc = "appending"
  /\ LeaveCompaction(t)
  /\ Silent
  /\ UNCHANGED <<Host, calls, typed>>

Close(t) ==
  /\ turns[t].pc = "closing"
  /\ EndOnly(t)

----------------------------------------------------------------------------
(* The stream of one request. A stream whose controller is aborted throws; *)
(* one that ends by itself is not checked for the cancellation any more.   *)

Streaming(t) == turns[t].pc = "stream" /\ t \notin aborted

CallsOfRound(t, n) == {<<t, turns[t].round + 1, i>> : i \in 1..n}

\* An event arrives and the turn is cancelled, or the stream is aborted,
\* fails, or is a refusal: nothing is committed.
StreamDropped(t) ==
  /\ turns[t].pc = "stream"
  /\ EndOnly(t)

\* commitAssistantMessage with n calls.
Commit(t, n) ==
  IF n = 0 THEN Silent
  ELSE /\ turns[t].round < MaxRound
       /\ Push(AssistantMessage(CallsOfRound(t, n)))

\* partitionForConcurrency: runs of calls that may share a window.
Groupings(n) ==
  {gs \in SeqOf(SeqOf(1..n, n), n) :
     FlattenSeq(gs) = [i \in 1..n |-> i] /\ \A i \in DOMAIN gs : gs[i] # <<>>}

\* The calls of a group start together, in the step that ends the group
\* before it; the check of host.cancelled stands before each.
Start(t, group, outcome) ==
  [c \in Call |-> IF c \notin group THEN outcome[c]
                 ELSE IF DispatchCancelled(t) THEN "cut" ELSE "running"]

StreamCalls(t) ==
  /\ Streaming(t)
  /\ \E n \in 1..MaxCalls[t] : \E gs \in Groupings(n) :
       LET id(i) == <<t, turns[t].round + 1, i>>
           asked == [c \in Call |-> IF c \in CallsOfRound(t, n) THEN "asked" ELSE calls[c]]
       IN  /\ Commit(t, n)
           /\ turns' = [turns EXCEPT ![t].pc = "tools", ![t].batch = n,
                         ![t].groups = gs, ![t].round = @ + 1,
                         ![t].verdict = "go"]
           /\ calls' = Start(t, {id(i) : i \in Range(Head(gs))}, asked)
  /\ UNCHANGED <<Host, typed>>

Committed(t, n) == IF n = 0 THEN turns[t].round ELSE turns[t].round + 1

\* consecutiveSilentTurns, when a response without calls is in.
SilentAfter(t, empty) == IF empty THEN turns[t].silent ELSE 0

\* A response that stops for another reason than its calls leaves them
\* without an answer: the output limit (resumed at the top of the loop, which
\* asks whose turn it is), a normal stop, and the end of the account's quota.
StreamOrphans(t) ==
  /\ Streaming(t)
  /\ \E n \in {0} \union (IF "orphan" \in Features[t] THEN 1..MaxCalls[t] ELSE {}) :
       /\ Commit(t, n)
       /\ \/ /\ turns[t].lengths < LengthCap[t]
             /\ ~IsCancelled(t)
             /\ turns' = [turns EXCEPT ![t].pc = "top", ![t].lengths = @ + 1,
                           ![t].round = Committed(t, n)]
             /\ UNCHANGED <<cancelled, aborted, active, turnActive>>
          \/ /\ \E empty \in {FALSE} \union {n = 0 /\ "silent" \in Features[t]} :
                  turns' = [turns EXCEPT ![t].pc = "stopping",
                              ![t].round = Committed(t, n), ![t].empty = empty,
                              ![t].silent = SilentAfter(t, empty)]
             /\ UNCHANGED <<cancelled, aborted, active, turnActive>>
          \/ /\ ~IsCancelled(t)
             /\ HostCancel
             /\ End(t)
  /\ UNCHANGED <<epoch, freed, calls, typed>>

\* The length cap of one response: flushOrphanToolUses answers its calls.
StreamCapped(t) ==
  /\ "orphan" \in Features[t]
  /\ Streaming(t)
  /\ turns[t].round < MaxRound
  /\ \E n \in 1..MaxCalls[t] :
       LET cs == CallsOfRound(t, n)
       IN  messages' = messages
             \o <<AssistantMessage(cs), UserMessage({Answer(c, "cut") : c \in cs}, {})>>
  /\ End(t)
  /\ aborted' = aborted \union {t}
  /\ UNCHANGED <<epoch, cancelled, freed, calls, typed, sent, told, overtaken>>

\* A response that stops for calls and has none is asked for again, once.
StreamMalformed(t) ==
  /\ "malformed" \in Features[t]
  /\ Streaming(t)
  /\ ~IsCancelled(t)
  /\ ~turns[t].retried
  /\ turns' = [turns EXCEPT ![t].pc = "top", ![t].retried = TRUE]
  /\ Silent
  /\ UNCHANGED <<Host, calls, typed>>

----------------------------------------------------------------------------
(* dispatchTurnToolCalls.                                                  *)

Id(t, i) == <<t, turns[t].round, i>>

GroupIds(t, g) == {Id(t, i) : i \in Range(g)}

GroupCalls(t) == GroupIds(t, Head(turns[t].groups))

BatchCalls(t) == {Id(t, i) : i \in 1..turns[t].batch}

\* settleDispatch: a result (or a background receipt), a refusal at the
\* prompt, the end of the quota, another failure; none of them counts on a
\* host that is cancelled.
Settled(t) == {"real"} \union (IF "fail" \in Features[t] THEN {"reject", "quota", "throw"} ELSE {})

Settle(t, c) ==
  /\ turns[t].pc = "tools" /\ c \in GroupCalls(t)
  /\ calls[c] = "running"
  /\ \E o \in IF cancelled THEN {"cut"} ELSE Settled(t) :
       calls' = [calls EXCEPT ![c] = o]
  /\ Silent
  /\ UNCHANGED <<turns, Host, typed>>

\* finalizeToolDispatchBatch takes the queued input unless the batch stops.
TakesInput(t, verdict) ==
  typed = "queued" /\ ~cancelled /\ t \notin aborted /\ verdict # "stop"

Finalize(t, verdict, outcome) ==
  /\ calls' = [c \in Call |->
       IF c \notin BatchCalls(t) THEN calls[c]
       ELSE IF outcome[c] \in {"real", "reject"} THEN "real" ELSE "cut"]
  /\ turns' = [turns EXCEPT ![t].pc = "sealing", ![t].verdict = verdict,
                ![t].groups = <<>>, ![t].holds = TakesInput(t, verdict)]
  /\ typed' = IF TakesInput(t, verdict) THEN "held" ELSE typed

\* The outcomes of a group are handled in order. The first quota or failure
\* ends the batch, and the calls from there on keep no outcome.
Failures(t) ==
  {k \in DOMAIN Head(turns[t].groups) :
     calls[Id(t, Head(turns[t].groups)[k])] \in {"quota", "throw"}}

KeptBefore(t, k) ==
  [c \in Call |->
     IF c \in {Id(t, Head(turns[t].groups)[j]) :
                 j \in k..Len(Head(turns[t].groups))}
     THEN "cut" ELSE calls[c]]

GroupSettled(t) ==
  /\ turns[t].pc = "tools"
  /\ \A c \in GroupCalls(t) : calls[c] # "running"

\* On a cancelled host every failure is an interruption.
GroupFails(t) ==
  /\ GroupSettled(t)
  /\ ~cancelled
  /\ Failures(t) # {}
  /\ LET k == Min(Failures(t))
         c == Id(t, Head(turns[t].groups)[k])
     IN  IF calls[c] = "quota"
         THEN HostCancel /\ Finalize(t, "stop", KeptBefore(t, k))
         ELSE UNCHANGED <<cancelled, aborted>> /\ Finalize(t, "throw", KeptBefore(t, k))
  /\ Silent
  /\ UNCHANGED <<epoch, active, freed, turnActive>>

Rejected(t) == \E c \in GroupCalls(t) : calls[c] = "reject"

GroupDone(t) ==
  /\ GroupSettled(t)
  /\ cancelled \/ Failures(t) = {}
  /\ IF ~Rejected(t) /\ Len(turns[t].groups) > 1
     THEN /\ turns' = [turns EXCEPT ![t].groups = Tail(@)]
          /\ calls' = Start(t, GroupIds(t, turns[t].groups[2]), calls)
          /\ UNCHANGED typed
     ELSE Finalize(t, IF Rejected(t) THEN "stop" ELSE "go", calls)
  /\ Silent
  /\ UNCHANGED Host

\* Fault: the input the batch took is not written with its answers.
SealedBatch_NoInput(t) == UserMessage({Answer(c, calls[c]) : c \in BatchCalls(t)}, {})

\* The hooks of the batch are over: its answers join the conversation.
SealedBatch(t) ==
  UserMessage({Answer(c, calls[c]) : c \in BatchCalls(t)},
              IF turns[t].holds THEN {TypedMeanwhile} ELSE {})

Seal(t) ==
  /\ turns[t].pc = "sealing"
  /\ Push(SealedBatch(t))
  /\ calls' = [c \in Call |-> IF c \in BatchCalls(t) THEN "none" ELSE calls[c]]
  /\ typed' = IF turns[t].holds THEN "sent" ELSE typed
  /\ IF turns[t].verdict # "go" \/ IsCancelled(t)
     THEN End(t)
     ELSE /\ turns' = [turns EXCEPT ![t].pc = "top", ![t].batch = 0,
                       ![t].holds = FALSE]
          /\ UNCHANGED <<turnActive, active>>
  /\ UNCHANGED <<epoch, cancelled, aborted, freed>>

----------------------------------------------------------------------------
(* A response without calls: the goal and the stop hooks are asked.        *)

MayStop(t) == ~IsCancelled(t) /\ t \notin aborted

\* Fault: a turn that is held open does not count it.
HoldCount_None(t) == turns[t].blocks

\* stopBlockCount, which counts for something under a cap only.
HoldCount(t) == IF StopCap > 0 THEN turns[t].blocks + 1 ELSE 0

StopBlockCapReached(blocks) == StopCap > 0 /\ blocks > StopCap

\* A stop hook, an unmet goal or its check-in holds the turn open.
StopBlocked(t) ==
  /\ turns[t].pc = "stopping"
  /\ MayStop(t)
  /\ ~StopBlockCapReached(HoldCount(t))
  /\ turns' = [turns EXCEPT ![t].pc = "top", ![t].blocks = HoldCount(t),
                            ![t].empty = FALSE]
  /\ Silent
  /\ UNCHANGED <<Host, calls, typed>>

StopCancelled(t) ==
  /\ turns[t].pc = "stopping"
  /\ ~MayStop(t)
  /\ EndOnly(t)

\* The goal waits for work in the background: the turn ends before it takes
\* what was typed.
StopDeferred(t) ==
  /\ turns[t].pc = "stopping"
  /\ EndOnly(t)

StopTakesInput(t) ==
  /\ turns[t].pc = "stopping"
  /\ MayStop(t)
  /\ typed = "queued"
  /\ typed' = "sent"
  /\ Push(UserMessage({}, {TypedMeanwhile}))
  /\ turns' = [turns EXCEPT ![t].pc = "top", ![t].empty = FALSE]
  /\ UNCHANGED <<Host, calls>>

\* A first empty answer is asked again.
StopSilent(t) ==
  /\ turns[t].pc = "stopping"
  /\ MayStop(t)
  /\ typed # "queued"
  /\ turns[t].empty /\ turns[t].silent = 0
  /\ turns' = [turns EXCEPT ![t].pc = "top", ![t].silent = 1, ![t].empty = FALSE]
  /\ Silent
  /\ UNCHANGED <<Host, calls, typed>>

\* The turn is over: an error, a second empty answer, or the end of the
\* work, which still offers the conversation to maybeCompact.
StopCompletes(t) ==
  /\ turns[t].pc = "stopping"
  /\ MayStop(t)
  /\ typed # "queued"
  /\ \/ EndOnly(t)
     \/ /\ "compact" \in Features[t]
        /\ ~turns[t].empty
        /\ ~turns[t].tried
        /\ turns' = [turns EXCEPT ![t].pc = "hooking", ![t].tried = TRUE,
                      ![t].forced = FALSE, ![t].next = "closing"]
        /\ Silent
        /\ UNCHANGED <<Host, calls, typed>>

----------------------------------------------------------------------------
Round(t) ==
  \/ TopEnds(t) \/ ContextFull(t) \/ OpenStream(t) \/ StreamOpens(t)
  \/ StreamDropped(t) \/ StreamCalls(t) \/ StreamOrphans(t)
  \/ StreamCapped(t) \/ StreamMalformed(t)
  \/ StopBlocked(t) \/ StopCancelled(t) \/ StopDeferred(t)
  \/ StopTakesInput(t) \/ StopSilent(t) \/ StopCompletes(t)

Compaction(t) ==
  \/ MaybeCompact(t) \/ ForceCompact(t) \/ Summarize(t)
  \/ SummaryArrives(t) \/ SummaryFails(t)
  \/ BoundaryWritten(t) \/ BoundaryFails(t) \/ Close(t)

Dispatch(t) ==
  \/ GroupFails(t) \/ GroupDone(t) \/ Seal(t)
  \/ \E i \in 1..turns[t].batch : Settle(t, Id(t, i))

User ==
  \/ \E t \in Turn : BeginTurn(t, TRUE) \/ BeginTurn(t, FALSE) \/ BeginNothing(t)
  \/ UserCancels \/ UserTypes

Next == User \/ \E t \in Turn : Round(t) \/ Compaction(t) \/ Dispatch(t)

Spec == Init /\ [][Next]_vars

\* A turn that can take a step takes one: its stream, its hooks, its summary,
\* its tools and its writes all come to an end.
FairSpec == Spec /\ \A t \in Turn : WF_vars(Round(t) \/ Compaction(t) \/ Dispatch(t))

----------------------------------------------------------------------------
(* Properties.                                                             *)

Answers == [call : Call, is : {"real", "cut"}]

Messages == [role : {"user", "assistant"}, uses : SUBSET Call,
             results : SUBSET Answers, says : SUBSET Sayable]

\* Every variable keeps its type.
TypeOK ==
  /\ \A i \in DOMAIN messages : messages[i] \in Messages
  /\ DOMAIN turns = Turn
  /\ \A t \in Turn :
       /\ turns[t].pc \in Pcs
       /\ turns[t].batch \in 0..MaxCalls[t]
       /\ turns[t].round \in 0..MaxRound
       /\ turns[t].blocks \in Nat /\ ~StopBlockCapReached(turns[t].blocks)
       /\ turns[t].next \in {"top", "ready", "closing"}
       /\ turns[t].verdict \in {"go", "stop", "throw"}
  /\ epoch \in 0..MaxTurn
  /\ cancelled \in BOOLEAN /\ freed \in BOOLEAN /\ turnActive \in BOOLEAN
  /\ active \in -MaxTurn..MaxTurn /\ aborted \subseteq -MaxTurn..MaxTurn
  /\ calls \in [Call -> Outcomes]
  /\ typed \in {"none", "queued", "held", "sent"}
  /\ sent \subseteq Sayable /\ told \subseteq Call
  /\ overtaken \in [said : SUBSET sent, told : SUBSET told]

\* Whatever turns were cut short, and wherever a parked turn left its answers,
\* the next request answers each call right after the message that made it,
\* and nothing else: a provider refuses any other conversation.
RequestsArePaired == WellFormed(SanitizeMessages(messages))

\* A tool's outcome that was written to the conversation is what the model is
\* sent for its call, never the "Interrupted by user" that stands in for a
\* missing one, as long as the conversation holds the call. Not so for an
\* outcome written while a compaction had its plan made (README, limits).
OutcomesReachTheModel ==
  \A c \in (told \ overtaken.told) \intersect Used(messages) :
    \E m \in ToSet(SanitizeMessages(messages)) : Answer(c, "real") \in m.results

\* What the user said stays in the conversation, itself or in its summary. The
\* same exception.
PromptsStay == sent \ overtaken.said \subseteq Said(messages)

\* A message taken from the queue is in the conversation, or with the batch
\* that will write it there however its turn ends.
QueuedInputIsWritten ==
  /\ typed = "sent" => TypedMeanwhile \in sent
  /\ typed = "held" => \E t \in Turn : turns[t].pc = "sealing" /\ turns[t].holds

\* The queue is told a turn is active exactly while the latest turn runs: no
\* turn that was taken over ends another's, and none leaves it set behind it.
TurnActiveIsTheLatest ==
  turnActive <=> LatestRuns

\* A turn that was taken over ends what it had set out to do, a request it had
\* begun to open or a summary its hooks were asked about included, and goes no
\* further: it opens no other request, forces no compaction, and is not sent
\* round again by its stop hooks, an empty answer or what the user typed.
StaleTurnsGoNoFurther ==
  [][\A t \in Turn : IsSuperseded(t) /\ turns'[t].pc # turns[t].pc =>
       /\ turns'[t].pc # "opening"
       /\ turns'[t].pc = "hooking" => ~turns'[t].forced
       /\ turns[t].pc = "stopping" => turns'[t].pc = "done"]_vars

\* Every turn that begins ends, if stop hooks have a cap and the model calls
\* tools a bounded number of times: stop hooks, empty answers, output limits,
\* unreadable calls and compactions each hold it open so often and no more.
EveryTurnEnds ==
  StopCap > 0 => \A t \in Turn : epoch >= t ~> turns[t].pc = "done"

=============================================================================
