------------------------------ MODULE Scheduler ------------------------------
(***************************************************************************)
(* The durable scheduled tasks of a project, and the sessions that share   *)
(* them (engine/background/cron/lease.ts, scheduler.ts, index.ts).         *)
(*                                                                         *)
(* The tasks are a file. A session fires the ones it saved; the ones whose *)
(* session is gone are fired by the holder of a lease, another file. A     *)
(* check runs without a pause in its own process, so a step here is what   *)
(* it does between two looks at something other processes may change: a    *)
(* file, or the list of live processes. A crash leaves the lease behind.   *)
(* The lock of the schedule is taken as given: an update is one step, or   *)
(* it fails.                                                               *)
(*                                                                         *)
(* Time is the number of moments a task's cron has matched so far.         *)
(***************************************************************************)
EXTENDS Naturals, FiniteSets, Functions

CONSTANTS
  Sessions,    \* processes, each with a pid of its own
  Stays,       \* the session that neither stops nor crashes
  Tasks,
  MaxAlive,    \* bound: sessions that run at the same time
  MaxMatch,    \* bound: matches of a recurring task, which ages out with the last
  MaxCrashes,  \* bound: sessions that crash
  MaxFails     \* bound: updates of the schedule that fail

ASSUME SchedulerAssumption ==
  /\ Stays \in Sessions
  /\ MaxAlive \in Nat /\ MaxMatch \in Nat \ {0} /\ MaxCrashes \in Nat /\ MaxFails \in Nat

VARIABLES
  saved,      \* the file of tasks: of each task in it, the match it last fired for
  owner,      \* ownerPid of each task
  recurring,  \* the tasks that fire more than once
  lease,      \* the lease file: who created it, and whether the pid is in it
  matched,    \* the matches of each task that have passed
  pc,         \* where each session is
  starting,   \* the sessions that have not announced what they missed
  held,       \* held
  seen,       \* what a session read from the file and has not come to yet
  missed,     \* the missed tasks a session is about to announce
  nextFire,   \* nextFireAt; 0 for no entry
  spent,      \* spent
  note,       \* the task a session has fired and has to write about
  crashes, fails,
  fired,      \* history: the tasks that were fired or announced
  cancelled,  \* history: the tasks the user took back
  cut         \* history: removed, and not announced before the session crashed

files == <<saved, lease>>
memory == <<nextFire, spent>>
bounds == <<crashes, fails>>
history == <<fired, cancelled, cut>>
vars == <<files, owner, recurring, matched, pc, starting, held, seen, missed, memory, note, bounds, history>>

Nobody == "nobody"
NoLease == [by |-> Nobody, pid |-> FALSE]
Nothing == [t \in {} |-> 0]
NoNote == [task |-> "none", mark |-> 0]

Without(f, S) == [t \in DOMAIN f \ S |-> f[t]]

Alive(s) == pc[s] \notin {"off", "gone"}

\* A recurring task ages out with its last match, a one-shot has only one.
Last(t) == matched[t] = (IF t \in recurring THEN MaxMatch ELSE 1)

\* Whether this process fires a task. Its own, and with the lease the orphans.
FiresHere(s, t) == owner[t] = s \/ (held[s] /\ ~Alive(owner[t]))

Goto(s, l) == pc' = [pc EXCEPT ![s] = l]

\* One task of those it read is behind a session, which looks at the rest.
LeaveTask(s, t) ==
  /\ seen' = [seen EXCEPT ![s] = Without(@, {t})]
  /\ Goto(s, IF DOMAIN seen[s] = {t} THEN "idle" ELSE "look")

Init ==
  /\ saved = Nothing /\ owner = [t \in Tasks |-> Nobody] /\ recurring = {} /\ lease = NoLease
  /\ matched = [t \in Tasks |-> 0]
  /\ pc = [s \in Sessions |-> "off"] /\ starting = Sessions
  /\ held = [s \in Sessions |-> FALSE]
  /\ seen = [s \in Sessions |-> Nothing] /\ missed = [s \in Sessions |-> {}]
  /\ nextFire = [s \in Sessions |-> [t \in Tasks |-> 0]]
  /\ spent = [s \in Sessions |-> {}] /\ note = [s \in Sessions |-> NoNote]
  /\ crashes = 0 /\ fails = 0
  /\ fired = {} /\ cancelled = {} /\ cut = {}

-----------------------------------------------------------------------------
(* The saved schedule.                                                     *)

\* removeMany: from what the file holds at that moment.
Remove(s, t) == saved' = Without(saved, {t})

\* CronCreate with durable.
CreateTask(s, t) ==
  /\ pc[s] = "idle" /\ owner[t] = Nobody
  /\ saved' = [u \in DOMAIN saved \union {t} |-> IF u = t THEN 0 ELSE saved[u]]
  /\ owner' = [owner EXCEPT ![t] = s]
  /\ recurring' \in {recurring, recurring \union {t}}
  /\ UNCHANGED <<lease, matched, pc, starting, held, seen, missed, memory, note, bounds, history>>

\* CronDelete, by any session.
CancelTask(s, t) ==
  /\ pc[s] = "idle" /\ t \in DOMAIN saved
  /\ saved' = Without(saved, {t})
  /\ cancelled' = cancelled \union {t}
  /\ UNCHANGED <<lease, owner, recurring, matched, pc, starting, held, seen, missed, memory, note, bounds, fired, cut>>

Match(t) ==
  /\ t \in DOMAIN saved /\ ~Last(t)
  /\ matched' = [matched EXCEPT ![t] = @ + 1]
  /\ UNCHANGED <<files, owner, recurring, pc, starting, held, seen, missed, memory, note, bounds, history>>

-----------------------------------------------------------------------------
(* The lease.                                                              *)

AfterClaim(s) == Goto(s, IF s \in starting THEN "miss" ELSE "look")

\* createLease opens the file only if there is none; the pid is written next.
OpenLease(s) ==
  /\ pc[s] \in {"create", "again"}
  /\ IF lease = NoLease
     THEN lease' = [by |-> s, pid |-> FALSE] /\ Goto(s, "write")
     ELSE UNCHANGED lease /\ IF pc[s] = "create" THEN Goto(s, "read") ELSE AfterClaim(s)
  /\ UNCHANGED <<saved, owner, recurring, matched, starting, held, seen, missed, memory, note, bounds, history>>

\* A file that was unlinked meanwhile takes the pid with it.
WriteLease(s) ==
  /\ pc[s] = "write"
  /\ lease' = IF lease.by = s THEN [lease EXCEPT !.pid = TRUE] ELSE lease
  /\ held' = [held EXCEPT ![s] = TRUE]
  /\ AfterClaim(s)
  /\ UNCHANGED <<saved, owner, recurring, matched, starting, seen, missed, memory, note, bounds, history>>

\* Whether the lease names a live process.
HolderLives == lease.pid /\ Alive(lease.by)

\* Fault: a lease found in the hands of another does not end one's own.
ReadLease_StillHeld(s) ==
  /\ pc[s] = "read"
  /\ held' = [held EXCEPT ![s] = @ \/ (lease.pid /\ lease.by = s)]
  /\ IF HolderLives THEN AfterClaim(s) ELSE Goto(s, "unlink")
  /\ UNCHANGED <<files, owner, recurring, matched, starting, seen, missed, memory, note, bounds, history>>

\* Fault: a lease with no pid in it is left alone.
ReadLease_WaitForPid(s) ==
  /\ pc[s] = "read"
  /\ held' = [held EXCEPT ![s] = lease.pid /\ lease.by = s]
  /\ IF HolderLives \/ ~lease.pid THEN AfterClaim(s) ELSE Goto(s, "unlink")
  /\ UNCHANGED <<files, owner, recurring, matched, starting, seen, missed, memory, note, bounds, history>>

\* One's own lease is confirmed, that of a live process left alone.
ReadLease(s) ==
  /\ pc[s] = "read"
  /\ held' = [held EXCEPT ![s] = lease.pid /\ lease.by = s]
  /\ IF HolderLives THEN AfterClaim(s) ELSE Goto(s, "unlink")
  /\ UNCHANGED <<files, owner, recurring, matched, starting, seen, missed, memory, note, bounds, history>>

\* Whatever lease is there by now goes.
UnlinkLease(s) ==
  /\ pc[s] = "unlink"
  /\ lease' = NoLease /\ Goto(s, "again")
  /\ UNCHANGED <<saved, owner, recurring, matched, starting, held, seen, missed, memory, note, bounds, history>>

-----------------------------------------------------------------------------
(* A check, and the first one, which announces what was missed.            *)

\* What the file holds is read; of the rest nothing is remembered.
ReadTasks(s) ==
  /\ seen' = [seen EXCEPT ![s] = saved]
  /\ nextFire' = [nextFire EXCEPT ![s] = [t \in Tasks |-> IF t \in DOMAIN saved THEN @[t] ELSE 0]]
  /\ spent' = [spent EXCEPT ![s] = @ \intersect DOMAIN saved]
  /\ UNCHANGED <<files, owner, recurring, matched, held, missed, note, bounds, history>>

\* startCronScheduler.
Start(s) ==
  /\ pc[s] = "off" /\ Cardinality({u \in Sessions : Alive(u)}) < MaxAlive
  /\ ReadTasks(s)
  /\ IF saved = Nothing THEN starting' = starting \ {s} /\ Goto(s, "idle")
                        ELSE UNCHANGED starting /\ Goto(s, "create")

\* A check between two probes of the lease, and one that probes it.
Check(s) == pc[s] = "idle" /\ ReadTasks(s) /\ UNCHANGED starting /\ Goto(s, IF saved = Nothing THEN "idle" ELSE "look")
Probe(s) == pc[s] = "idle" /\ saved # Nothing /\ ReadTasks(s) /\ UNCHANGED starting /\ Goto(s, "create")

\* Fault: the tasks are filtered for the notice, and not for the removal.
FindMissed_RemovesAll(s) ==
  /\ pc[s] = "miss"
  /\ LET due == {t \in DOMAIN seen[s] \ recurring : matched[t] > 0}
     IN /\ missed' = [missed EXCEPT ![s] = {t \in due : FiresHere(s, t)}]
        /\ seen' = [seen EXCEPT ![s] = Restrict(@, due)]
        /\ Goto(s, IF due = {} THEN "idle" ELSE "remove")
  /\ starting' = starting \ {s}
  /\ UNCHANGED <<files, owner, recurring, matched, held, memory, note, bounds, history>>

\* surfaceMissedOneShots: the one-shots whose moment has passed.
FindMissed(s) ==
  /\ pc[s] = "miss"
  /\ LET due == {t \in DOMAIN seen[s] \ recurring : matched[t] > 0 /\ FiresHere(s, t)}
     IN /\ missed' = [missed EXCEPT ![s] = due]
        /\ seen' = [seen EXCEPT ![s] = Restrict(@, due)]
        /\ Goto(s, IF due = {} THEN "idle" ELSE "remove")
  /\ starting' = starting \ {s}
  /\ UNCHANGED <<files, owner, recurring, matched, held, memory, note, bounds, history>>

\* retire: a removal that fails is done again at the next check.
Retire(s, t) ==
  \/ /\ Remove(s, t) /\ spent' = [spent EXCEPT ![s] = @ \ {t}]
     /\ UNCHANGED fails
  \/ /\ fails < MaxFails /\ fails' = fails + 1
     /\ spent' = [spent EXCEPT ![s] = @ \union {t}]
     /\ UNCHANGED saved

RemoveMissed(s, t) ==
  /\ pc[s] = "remove" /\ t \in DOMAIN seen[s]
  /\ Retire(s, t)
  /\ seen' = [seen EXCEPT ![s] = Without(@, {t})]
  /\ UNCHANGED <<lease, owner, recurring, matched, pc, starting, held, missed, nextFire, note, crashes, history>>

Announce(s) ==
  /\ pc[s] = "remove" /\ seen[s] = Nothing
  /\ fired' = fired \union missed[s]
  /\ missed' = [missed EXCEPT ![s] = {}]
  /\ Goto(s, "idle")
  /\ UNCHANGED <<files, owner, recurring, matched, starting, held, seen, memory, note, bounds, cancelled, cut>>

\* A task in turn that this process has no business with; it is forgotten.
SkipTask(s, t) ==
  /\ pc[s] = "look" /\ t \in DOMAIN seen[s] /\ ~FiresHere(s, t)
  /\ LeaveTask(s, t)
  /\ nextFire' = [nextFire EXCEPT ![s][t] = 0]
  /\ spent' = [spent EXCEPT ![s] = @ \ {t}]
  /\ UNCHANGED <<files, owner, recurring, matched, starting, held, missed, note, bounds, history>>

\* A task that fired its last time and is still saved.
RetireSpent(s, t) ==
  /\ pc[s] = "look" /\ t \in DOMAIN seen[s] \intersect spent[s] /\ FiresHere(s, t)
  /\ Retire(s, t)
  /\ LeaveTask(s, t)
  /\ UNCHANGED <<lease, owner, recurring, matched, starting, held, missed, nextFire, note, crashes, history>>

\* The first fire comes from what was saved, the next from this process's last.
Due(s, t) == IF nextFire[s][t] = 0 THEN seen[s][t] + 1 ELSE nextFire[s][t]

WaitForTask(s, t) ==
  /\ pc[s] = "look" /\ t \in DOMAIN seen[s] \ spent[s] /\ FiresHere(s, t)
  /\ matched[t] < Due(s, t)
  /\ nextFire' = [nextFire EXCEPT ![s][t] = Due(s, t)]
  /\ LeaveTask(s, t)
  /\ UNCHANGED <<files, owner, recurring, matched, starting, held, missed, spent, note, bounds, history>>

\* A late check fires once, for every match it missed.
Fire(s, t) ==
  /\ pc[s] = "look" /\ t \in DOMAIN seen[s] \ spent[s] /\ FiresHere(s, t)
  /\ matched[t] >= Due(s, t)
  /\ fired' = fired \union {t}
  /\ nextFire' = [nextFire EXCEPT ![s][t] = IF Last(t) THEN 0 ELSE matched[t] + 1]
  /\ note' = [note EXCEPT ![s] = [task |-> t, mark |-> IF Last(t) THEN 0 ELSE matched[t]]]
  /\ Goto(s, "fired")
  /\ UNCHANGED <<files, owner, recurring, matched, starting, held, seen, missed, spent, bounds, cancelled, cut>>

Written(s) == note' = [note EXCEPT ![s] = NoNote] /\ LeaveTask(s, note[s].task)

\* Fired for the last time, and removed from the schedule.
WriteRemoval(s) ==
  /\ pc[s] = "fired" /\ note[s].mark = 0
  /\ Retire(s, note[s].task)
  /\ Written(s)
  /\ UNCHANGED <<lease, owner, recurring, matched, starting, held, missed, nextFire, crashes, history>>

\* markFired, which writes nothing about a task that is gone; or its failure.
WriteFire(s) ==
  /\ pc[s] = "fired" /\ note[s].mark > 0
  /\ \/ /\ saved' = [t \in DOMAIN saved |-> IF t = note[s].task THEN note[s].mark ELSE saved[t]]
        /\ UNCHANGED fails
     \/ fails < MaxFails /\ fails' = fails + 1 /\ UNCHANGED saved
  /\ Written(s)
  /\ UNCHANGED <<lease, owner, recurring, matched, starting, held, missed, memory, crashes, history>>

-----------------------------------------------------------------------------
(* The end of a session.                                                   *)

\* stopCronScheduler at exit: the lease goes if its pid is still this one's.
Stop(s) ==
  /\ pc[s] = "idle" /\ s # Stays
  /\ held' = [held EXCEPT ![s] = FALSE]
  /\ nextFire' = [nextFire EXCEPT ![s] = [t \in Tasks |-> 0]]
  /\ spent' = [spent EXCEPT ![s] = {}]
  /\ Goto(s, IF held[s] /\ lease.pid /\ lease.by = s THEN "exit" ELSE "gone")
  /\ UNCHANGED <<files, owner, recurring, matched, starting, seen, missed, note, bounds, history>>

Exit(s) ==
  /\ pc[s] = "exit"
  /\ lease' = NoLease /\ Goto(s, "gone")
  /\ UNCHANGED <<saved, owner, recurring, matched, starting, held, seen, missed, memory, note, bounds, history>>

Crash(s) ==
  /\ crashes < MaxCrashes /\ crashes' = crashes + 1
  /\ Alive(s) /\ s # Stays
  /\ Goto(s, "gone")
  /\ cut' = cut \union missed[s]
  /\ held' = [held EXCEPT ![s] = FALSE]
  /\ seen' = [seen EXCEPT ![s] = Nothing] /\ missed' = [missed EXCEPT ![s] = {}]
  /\ nextFire' = [nextFire EXCEPT ![s] = [t \in Tasks |-> 0]]
  /\ spent' = [spent EXCEPT ![s] = {}]
  /\ starting' = starting \ {s} /\ note' = [note EXCEPT ![s] = NoNote]
  /\ UNCHANGED <<files, owner, recurring, matched, fails, fired, cancelled>>

-----------------------------------------------------------------------------

\* What a session does once a check has begun, or begins a check.
Step(s) ==
  \/ OpenLease(s) \/ WriteLease(s) \/ ReadLease(s) \/ UnlinkLease(s)
  \/ Check(s) \/ Probe(s) \/ FindMissed(s) \/ Announce(s)
  \/ \E t \in Tasks : RemoveMissed(s, t) \/ SkipTask(s, t) \/ RetireSpent(s, t)
                      \/ WaitForTask(s, t) \/ Fire(s, t)
  \/ WriteRemoval(s) \/ WriteFire(s) \/ Exit(s)

Next ==
  \/ \E s \in Sessions : Start(s) \/ Step(s) \/ Stop(s) \/ Crash(s)
  \/ \E s \in Sessions, t \in Tasks : CreateTask(s, t) \/ CancelTask(s, t)
  \/ \E t \in Tasks : Match(t)

\* A session's timer checks every second and probes the lease every fifth.
Fairness ==
  /\ \A s \in Sessions : WF_vars(Step(s)) /\ SF_vars(Probe(s))
  /\ WF_vars(Start(Stays))

Spec == Init /\ [][Next]_vars /\ Fairness

-----------------------------------------------------------------------------
(* Properties.                                                             *)

Places == {"off", "idle", "create", "write", "read", "unlink", "again", "miss", "remove",
           "look", "fired", "exit", "gone"}

Saves(f) == DOMAIN f \subseteq Tasks /\ f \in [DOMAIN f -> Nat]

TypeOK ==
  /\ Saves(saved) /\ owner \in [Tasks -> Sessions \union {Nobody}] /\ recurring \subseteq Tasks
  /\ matched \in [Tasks -> Nat]
  /\ pc \in [Sessions -> Places] /\ starting \subseteq Sessions /\ held \in [Sessions -> BOOLEAN]
  /\ DOMAIN seen = Sessions /\ \A s \in Sessions : Saves(seen[s])
  /\ missed \in [Sessions -> SUBSET Tasks] /\ spent \in [Sessions -> SUBSET Tasks]
  /\ nextFire \in [Sessions -> [Tasks -> Nat]]
  /\ note \in [Sessions -> [task : Tasks \union {"none"}, mark : Nat]]
  /\ fired \subseteq Tasks /\ cancelled \subseteq Tasks /\ cut \subseteq Tasks

\* A task that was created is in the file until it has fired or been announced,
\* or was taken back: no session writes another's task away with its own
\* changes, and what a session removes it has fired, or is about to announce
\* unless it crashes first.
NoTaskIsLost ==
  \A t \in Tasks : owner[t] # Nobody =>
    \/ t \in DOMAIN saved \union fired \union cancelled \union cut
    \/ \E s \in Sessions : t \in missed[s]

\* A saved task whose moment has come is fired, by its session or, once that is
\* gone, by whoever holds the lease: a lease left behind by a crash, signed or
\* not, does not keep every session from it.
DueTasksFire ==
  \A t \in Tasks :
    (t \in DOMAIN saved /\ matched[t] > 0) ~> (t \in fired \union cancelled \union cut)

Believers == {s \in Sessions : held[s]}

\* Two sessions may both come to hold the lease; that ends, while there are
\* tasks the lease is about.
SplitHeals == Cardinality(Believers) > 1 ~> (Cardinality(Believers) <= 1 \/ saved = Nothing)
==============================================================================
