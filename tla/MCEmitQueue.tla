----------------------------- MODULE MCEmitQueue -----------------------------
(* A small session for the delivery queue: what its callers really emit. *)
EXTENDS EmitQueue

CONSTANTS o1, kOrphan, kCron, kGoal, kTask, kWorkflow

MCOwners == {o1}
MCKeys == {kOrphan, kCron, kGoal, kTask, kWorkflow}
MCTaskKeys == {kTask}

Direct(class, target, key, sticky) ==
    [class |-> class, target |-> target, key |-> key, sticky |-> sticky]

\* orphan-synth.ts, cron/scheduler.ts, goal-check-in.ts, stop-hook-rewake.ts
MCDirectInputs == {
    Direct("interrupt_bash", "llm_request", kOrphan, TRUE),
    Direct("idle_prompt", "both", kCron, FALSE),
    Direct("urgent_output", "both", kGoal, FALSE),
    Direct("urgent_output", "both", NoKey, FALSE)}

\* tasks/background.ts and workflows/runtime/store/store.ts
MCCompletionInputs == {
    [class |-> "deferred_output", owner |-> o1, key |-> kTask],
    [class |-> "urgent_output", owner |-> o1, key |-> kWorkflow]}

=============================================================================
