----------------------------- MODULE SessionSync -----------------------------
(***************************************************************************)
(* The outgoing rail of session sync: how a session's records reach the    *)
(* companion through the broker (backend/app/session/sync/start.ts,        *)
(* cursor.ts, rails/durable.ts and backend/shared/session-crypto.ts).      *)
(*                                                                         *)
(* A push offers the records after its cursor, in batches. The broker      *)
(* refuses a counter it has seen, so a retry is safe only while a record   *)
(* keeps the counter it was first offered with. Answers are lost, a        *)
(* request may arrive after its sender gave up on it, the process may      *)
(* crash, and the broker may drop the session's row, which the sync        *)
(* registers again. Ticks poll, push and register beside one another, as   *)
(* long as somebody is signed in.                                          *)
(*                                                                         *)
(* A record is the number of its append; 0 is no record, and stands for    *)
(* what is sent beside the records (session_start, tasks_update, ...).     *)
(***************************************************************************)
EXTENDS Integers, Sequences, FiniteSets, SequencesExt

CONSTANTS
  MaxRecords,   \* bound: records of the session
  Kinds,        \* the kinds each record of the instance may have, of AllKinds
  BatchLimit,   \* OUTBOX_BATCH_LIMIT (25)
  MaxRetries,   \* MAX_AUTH_RETRIES (4)
  MaxFailures,  \* MAX_BOOTSTRAP_FAILURES (3)
  Bootstrap,    \* bound: the bootstraps that may run at once
  MaxTrouble,   \* bound: requests or answers that go wrong, crashes, rows dropped, sign-outs
  Tidy          \* bound: see AppendRecord, Compact and Crash

\* A record that carries a uuid, one that does not (a queued input), and one
\* that is not for the companion (a compaction mark, a setting).
AllKinds == {"named", "unnamed", "local"}

ASSUME SyncAssumption ==
  /\ MaxRecords \in Nat /\ BatchLimit \in Nat \ {0} /\ MaxRetries \in Nat
  /\ MaxFailures \in Nat \ {0} /\ Kinds \in [1..MaxRecords -> SUBSET AllKinds] /\ Tidy \in BOOLEAN
  /\ MaxTrouble \in Nat

VARIABLES
  signedIn,                  \* loadFreshAuth would answer with a token
  records, kind,             \* session.records, and the kind of each record
  counter, claim, anchor,    \* the key file: counter, pending_claim, last_synced_uuid
  marker,                    \* the key file: remote_deleted
  up, cursor, registered,    \* the rail runs, lastSyncedCursor and hasRegistered
  stopped,                   \* sessionUnauthorized and sessionClosed
  failures, suspended,       \* bootstrapFailures and bootstrapSuspended
  push, boots, poll,         \* the push, the bootstraps and the poll under way
  row, log, wire,            \* the broker: the row, its events, requests on their way
  trouble,                   \* counted against its bound
  ever, reseeded             \* history: the records a row took, the cursor was reset

file == <<counter, claim, anchor, marker>>
memory == <<up, cursor, registered, stopped, failures, suspended>>
tasks == <<push, boots, poll>>
broker == <<row, log, wire>>
vars == <<signedIn, records, kind, file, memory, tasks, broker, trouble, ever, reseeded>>

None == 0
NoCursor == [anchor |-> None, skip |-> 0]
NoClaim == [names |-> <<>>, counters |-> <<>>]
Idle == [pc |-> "idle"]

Name(r) == IF kind[r] = "unnamed" THEN None ELSE r
Syncable(r) == kind[r] # "local"

-----------------------------------------------------------------------------
(* The cursor and the claim.                                               *)

\* How many records a cursor covers.
ResumeIndex(c) ==
  LET at == {i \in DOMAIN records : records[i] = c.anchor}
  IN IF at = {} THEN 0 ELSE Min({Max(at) + c.skip, Len(records)})

\* Fault: the anchor is the next named record, delivered or not.
CursorThrough_NextName(index, c) ==
  LET at == {i \in 1..Len(records) : Name(records[i]) # None /\ i <= index + 1}
  IN IF at = {} THEN c ELSE [anchor |-> records[Max(at)], skip |-> 0]

\* The cursor that covers the first index records.
CursorThrough(index, c) ==
  LET end == Min({index, Len(records)})
      at == {i \in 1..end : Name(records[i]) # None}
  IN IF at = {} THEN c ELSE [anchor |-> records[Max(at)], skip |-> end - Max(at)]

\* Fault: no claim survives, every attempt has counters of its own.
Claimed_Fresh(names) == <<>>

\* The counters of the pending claim that answer to these records, aligned on
\* the first of them that has a name.
Claimed(names) ==
  LET named == {i \in DOMAIN names : names[i] # None}
      first == Min(named)
      found == {i \in DOMAIN claim.names : claim.names[i] = names[first]}
      offset == Min(found) - first
  IN IF named = {} \/ found = {} \/ offset < 0 THEN <<>>
     ELSE SubSeq(claim.counters, offset + 1, Min({offset + Len(names), Len(claim.counters)}))

\* claimOutgoingCounters: the claim is completed with fresh counters.
ClaimFor(names) ==
  LET kept == Claimed(names)
      fresh == Len(names) - Len(kept)
  IN [counters |-> kept \o [i \in 1..fresh |-> counter + i],
      counter |-> counter + fresh,
      claim |-> IF fresh = 0 THEN claim
                ELSE IF \E i \in DOMAIN names : names[i] # None
                THEN [names |-> names, counters |-> kept \o [i \in 1..fresh |-> counter + i]]
                ELSE NoClaim]

-----------------------------------------------------------------------------
(* The broker.                                                             *)

Rows(recs, counters) == [i \in DOMAIN recs |-> [rec |-> recs[i], counter |-> counters[i]]]

\* A request of several events is atomic.
Verdict(rows) ==
  CASE row = "absent" -> "absent"
    [] row = "deleted" -> "deleted"
    [] \E e \in log, i \in DOMAIN rows : e.counter = rows[i].counter -> "duplicate"
    [] OTHER -> "ok"

Take(rows) ==
  IF Verdict(rows) # "ok" THEN UNCHANGED <<log, ever>>
  ELSE /\ log' = log \union Range(rows)
       /\ ever' = ever \union {e.rec : e \in Range(rows)}

\* A request its sender no longer waits for arrives.
LateRequest ==
  \E rows \in wire :
    /\ wire' = wire \ {rows}
    /\ Take(rows)
    /\ UNCHANGED <<signedIn, records, kind, file, memory, tasks, row, trouble, reseeded>>

\* The broker forgets the session, or the user deletes it from the companion.
DropRow ==
  /\ trouble < MaxTrouble /\ row = "present"
  /\ row' \in {"absent", "deleted"}
  /\ log' = {}
  /\ trouble' = trouble + 1
  /\ UNCHANGED <<signedIn, records, kind, file, memory, tasks, wire, ever, reseeded>>

-----------------------------------------------------------------------------
(* A push: pushOutgoingWithBackoff and syncOutgoingEvents.                 *)

\* Sends todo, whose first record has `base` records before it.
Send(base, todo, single, c, attempt) ==
  push' = [pc |-> "sent", base |-> base, todo |-> todo, single |-> single,
           cursor |-> c, attempt |-> attempt, answer |-> "none"]

Request == IF push.single THEN SubSeq(push.todo, 1, 1) ELSE push.todo

\* The syncable records after the first idx, and the first contiguous run of them.
Left(idx) == {i \in DOMAIN records : i > idx /\ Syncable(records[i])}
NextRun(left) ==
  LET start == Min(left)
      run == {i \in left : i < start + BatchLimit /\ start..i \subseteq left}
  IN [before |-> start - 1, recs |-> SubSeq(records, start, Max(run))]

\* The push goes on after the first idx records, or has nothing left to offer.
\* (The quantifiers over one value name it.)
GoOn(idx, c, attempt) ==
  \E left \in {Left(idx)} :
    IF left = {}
    THEN push' = Idle /\ cursor' = c /\ UNCHANGED <<counter, claim>>
    ELSE \E run \in {NextRun(left)} : \E names \in {[i \in DOMAIN run.recs |-> Name(run.recs[i])]} :
         \E claimed \in {ClaimFor(names)} :
           /\ Send(run.before, Rows(run.recs, claimed.counters), Len(run.recs) = 1, c, attempt)
           /\ counter' = claimed.counter
           /\ claim' = claimed.claim
           /\ UNCHANGED cursor

\* pushOutgoing: one push at a time, none once the session is closed.
PushOutgoing ==
  IF push # Idle \/ "deleted" \in stopped
  THEN UNCHANGED <<push, cursor, counter, claim>>
  ELSE GoOn(ResumeIndex(cursor), cursor, 0)

PushHandled ==
  /\ push.pc = "sent"
  /\ push' = [push EXCEPT !.pc = "answered", !.answer = Verdict(Request)]
  /\ Take(Request)
  /\ UNCHANGED <<signedIn, records, kind, file, memory, boots, poll, row, wire, trouble, reseeded>>

\* The request is lost, or the broker answers with an error of its own.
PushFails ==
  /\ push.pc = "sent" /\ trouble < MaxTrouble
  /\ trouble' = trouble + 1
  /\ \E answer \in {"error", "auth", "refused"} :
       /\ push' = [push EXCEPT !.pc = "answered", !.answer = answer]
       /\ wire' \in IF answer = "error" THEN {wire, wire \union {Request}} ELSE {wire}
  /\ UNCHANGED <<signedIn, records, kind, file, memory, boots, poll, row, log, ever, reseeded>>

\* The broker has answered and the answer is lost.
PushAnswerLost ==
  /\ push.pc = "answered" /\ push.answer # "error" /\ trouble < MaxTrouble
  /\ trouble' = trouble + 1
  /\ push' = [push EXCEPT !.answer = "error"]
  /\ UNCHANGED <<signedIn, records, kind, file, memory, boots, poll, broker, ever, reseeded>>

\* recordBootstrapFailure.
NoteFailure ==
  /\ failures' = Min({failures + 1, MaxFailures})
  /\ suspended' = (suspended \/ failures + 1 >= MaxFailures)

\* Fault: the session still counts as registered.
Reseed_KeepsRegistered ==
  /\ anchor' = None
  /\ cursor' = NoCursor
  /\ reseeded' = TRUE
  /\ UNCHANGED registered

\* prepareRemoteReseed.
Reseed ==
  /\ anchor' = None
  /\ cursor' = NoCursor
  /\ registered' = FALSE
  /\ reseeded' = TRUE

\* stopDeletedRemote.
StopDeleted ==
  /\ marker' = TRUE
  /\ stopped' = stopped \union {"deleted"}
  /\ registered' = FALSE

\* The events of the request are with the broker.
PushDelivered ==
  /\ push.pc = "answered"
  /\ push.answer = "ok" \/ (push.answer = "duplicate" /\ push.single)
  /\ LET sent == push.base + Len(Request)
         c == CursorThrough(sent, push.cursor)
         rest == SubSeq(push.todo, Len(Request) + 1, Len(push.todo))
     IN /\ anchor' = IF c.anchor = push.cursor.anchor THEN anchor ELSE c.anchor
        /\ IF rest = <<>> THEN GoOn(sent, c, push.attempt)
           ELSE Send(sent, rest, TRUE, c, push.attempt) /\ UNCHANGED <<counter, claim, cursor>>
  /\ UNCHANGED <<signedIn, records, kind, marker, up, registered, stopped, failures, suspended, boots, poll, broker, trouble, ever, reseeded>>

\* Some event of the batch was there already: they are sent one by one.
PushConflict ==
  /\ push.pc = "answered" /\ push.answer = "duplicate" /\ ~push.single
  /\ Send(push.base, push.todo, TRUE, push.cursor, push.attempt)
  /\ UNCHANGED <<signedIn, records, kind, file, memory, boots, poll, broker, trouble, ever, reseeded>>

\* Nothing is known of the request: the next push offers it again.
PushGivesUp ==
  /\ push.pc = "answered" /\ push.answer = "error"
  /\ push' = Idle
  /\ cursor' = push.cursor
  /\ UNCHANGED <<signedIn, records, kind, file, up, registered, stopped, failures, suspended, boots, poll, broker, trouble, ever, reseeded>>

\* The broker has no such session, not any more, or not for this account.
PushRejected ==
  /\ push.pc = "answered" /\ push.answer \in {"absent", "deleted", "refused"}
  /\ push' = Idle
  /\ NoteFailure
  /\ CASE push.answer = "absent" -> Reseed /\ UNCHANGED <<marker, stopped>>
       [] push.answer = "deleted" ->
            StopDeleted /\ cursor' = push.cursor /\ UNCHANGED <<anchor, reseeded>>
       [] OTHER ->
            /\ registered' = FALSE
            /\ cursor' = push.cursor
            /\ UNCHANGED <<anchor, marker, stopped, reseeded>>
  /\ UNCHANGED <<signedIn, records, kind, counter, claim, up, boots, poll, broker, trouble, ever>>

\* The token was refused: the push sleeps before it asks for a new one.
PushUnauthorized ==
  /\ push.pc = "answered" /\ push.answer = "auth"
  /\ cursor' = push.cursor
  /\ IF push.attempt >= MaxRetries
     THEN push' = Idle /\ stopped' = stopped \union {"unauthorized"}
     ELSE push' = [push EXCEPT !.pc = "sleeping"] /\ UNCHANGED stopped
  /\ UNCHANGED <<signedIn, records, kind, file, up, registered, failures, suspended, boots, poll, broker, trouble, ever, reseeded>>

PushRetries ==
  /\ push.pc = "sleeping"
  /\ \/ signedIn /\ GoOn(ResumeIndex(cursor), cursor, push.attempt + 1) /\ UNCHANGED stopped
     \/ /\ push' = Idle
        /\ stopped' = stopped \union {"unauthorized"}
        /\ UNCHANGED <<cursor, counter, claim>>
  /\ UNCHANGED <<signedIn, records, kind, anchor, marker, up, registered, failures, suspended, boots, poll, broker, trouble, ever, reseeded>>

-----------------------------------------------------------------------------
(* Registration: tryBootstrap and bootstrapSessionOnBackend.               *)

NoBoot == [pc |-> "idle", known |-> "unknown"]
SetBoot(b, pc, known) == boots' = [boots EXCEPT ![b] = [pc |-> pc, known |-> known]]

\* hasRegistered is set before anything is known. Only a session that was
\* synced before asks whether the broker still has it.
TryBootstrap(b) ==
  /\ ~registered /\ boots[b] = NoBoot
  /\ registered' = TRUE
  /\ IF anchor = None THEN SetBoot(b, "register", "there") ELSE SetBoot(b, "probe", "unknown")

BootStart(b) ==
  /\ TryBootstrap(b)
  /\ UNCHANGED <<signedIn, records, kind, file, up, cursor, stopped, failures, suspended, push, poll, broker, trouble, ever, reseeded>>

BootProbe(b) ==
  /\ boots[b].pc = "probe"
  /\ \/ /\ SetBoot(b, "register", IF row = "present" THEN "there"
                                  ELSE IF row = "absent" THEN "gone" ELSE "unknown")
        /\ UNCHANGED trouble
     \/ trouble < MaxTrouble /\ trouble' = trouble + 1 /\ SetBoot(b, "register", "unknown")
  /\ UNCHANGED <<signedIn, records, kind, file, memory, push, poll, broker, ever, reseeded>>

\* The broker creates the row, or has it.
BootRegister(b) ==
  /\ boots[b].pc = "register"
  /\ row' = IF row = "deleted" THEN row ELSE "present"
  /\ SetBoot(b, IF row = "deleted" THEN "refused" ELSE "registered", boots[b].known)
  /\ UNCHANGED <<signedIn, records, kind, file, memory, push, poll, log, wire, trouble, ever, reseeded>>

\* The answer: a row that was gone has none of the history.
BootRegistered(b) ==
  /\ boots[b].pc = "registered"
  /\ failures' = 0
  /\ IF boots[b].known = "gone"
     THEN anchor' = None /\ cursor' = NoCursor /\ reseeded' = TRUE
     ELSE UNCHANGED <<anchor, cursor, reseeded>>
  /\ SetBoot(b, "share", "unknown")
  /\ UNCHANGED <<signedIn, records, kind, counter, claim, marker, up, registered, stopped, suspended, push, poll, broker, trouble, ever>>

\* The session key is shared with the peers. Failing to counts, and ends
\* nothing: session_start is sent.
BootShares(b) ==
  /\ boots[b].pc = "share"
  /\ \/ UNCHANGED <<failures, suspended, trouble>>
     \/ trouble < MaxTrouble /\ trouble' = trouble + 1 /\ NoteFailure
  /\ counter' = counter + 1
  /\ SetBoot(b, "greet", "unknown")
  /\ UNCHANGED <<signedIn, records, kind, claim, anchor, marker, up, cursor, registered, stopped, push, poll, broker, ever, reseeded>>

\* session_start has an answer, whatever it is; then the records are pushed.
BootDone(b) ==
  /\ boots[b].pc = "greet"
  /\ boots' = [boots EXCEPT ![b] = NoBoot]
  /\ PushOutgoing
  /\ UNCHANGED <<signedIn, records, kind, anchor, marker, up, registered, stopped, failures, suspended, poll, broker, trouble, ever, reseeded>>

\* The request or its answer is lost, or refused with a token that is dead.
BootFails(b) ==
  /\ boots[b].pc \in {"register", "registered", "greet"} /\ trouble < MaxTrouble
  /\ trouble' = trouble + 1
  /\ boots' = [boots EXCEPT ![b] = NoBoot]
  /\ registered' = FALSE
  /\ stopped' \in {stopped, stopped \union {"unauthorized"}}
  /\ IF boots[b].pc = "greet" THEN UNCHANGED <<failures, suspended>> ELSE NoteFailure
  /\ UNCHANGED <<signedIn, records, kind, file, up, cursor, push, poll, broker, ever, reseeded>>

BootRefused(b) ==
  /\ boots[b].pc = "refused"
  /\ boots' = [boots EXCEPT ![b] = NoBoot]
  /\ NoteFailure
  /\ StopDeleted
  /\ UNCHANGED <<signedIn, records, kind, counter, claim, anchor, up, cursor, push, poll, broker, trouble, ever, reseeded>>

-----------------------------------------------------------------------------
(* Ticks: runSyncTick. The poll for incoming events also tells whether the *)
(* broker still has the session.                                           *)

\* The interval ends with a token that is dead; a channel that comes back
\* ticks all the same. Without a token a tick does nothing.
Ticking == up /\ signedIn /\ "deleted" \notin stopped

TickBoots == Ticking /\ ~suspended /\ \E b \in Bootstrap : BootStart(b)

\* The poll is sent and the broker looks; the answer comes later.
TickPolls ==
  /\ Ticking /\ registered /\ poll = "none"
  /\ \/ poll' = row /\ UNCHANGED trouble
     \/ trouble < MaxTrouble /\ trouble' = trouble + 1 /\ poll' \in {"error", "auth"}
  /\ UNCHANGED <<signedIn, records, kind, file, memory, push, boots, broker, ever, reseeded>>

\* A poll that failed for another reason is followed by a push all the same.
PollAnswered ==
  /\ poll # "none"
  /\ poll' = "none"
  /\ CASE poll = "absent" ->
            Reseed /\ UNCHANGED <<marker, stopped, push, counter, claim>>
       [] poll = "deleted" ->
            StopDeleted /\ UNCHANGED <<anchor, cursor, reseeded, push, counter, claim>>
       [] poll = "auth" ->
            /\ stopped' = stopped \union {"unauthorized"}
            /\ UNCHANGED <<anchor, cursor, registered, reseeded, marker, push, counter, claim>>
       [] OTHER ->
            PushOutgoing /\ UNCHANGED <<anchor, registered, reseeded, marker, stopped>>
  /\ UNCHANGED <<signedIn, records, kind, up, failures, suspended, boots, broker, trouble, ever>>

-----------------------------------------------------------------------------
(* The session around the rail.                                            *)

\* An unnamed record before every named one is never covered by a cursor, and
\* the claim of the next record does not survive the two being offered
\* together: Tidy leaves it out.
AppendRecord ==
  /\ Len(kind) < MaxRecords
  /\ \E k \in Kinds[Len(kind) + 1] :
       /\ Tidy /\ k = "unnamed" => records # <<>>
       /\ kind' = Append(kind, k)
  /\ records' = Append(records, Len(kind) + 1)
  /\ UNCHANGED <<signedIn, file, memory, tasks, broker, trouble, ever, reseeded>>

\* A compaction appends its mark and takes away what is before it. A push
\* under way would go on with positions of the array before: Tidy leaves it out.
Compact ==
  /\ Len(kind) < MaxRecords /\ records # <<>>
  /\ Tidy => push = Idle
  /\ kind' = Append(kind, "local")
  /\ records' = <<Len(kind) + 1>>
  /\ UNCHANGED <<signedIn, file, memory, tasks, broker, trouble, ever, reseeded>>

\* Unnamed records are not loaded again, the others are in their order.
Loaded ==
  LET kept == {r \in Range(records) : Name(r) # None}
  IN {s \in [1..Cardinality(kept) -> kept] : \A i, j \in DOMAIN s : i < j => s[i] < s[j]}

\* A claim that holds an unnamed record between two named ones would not fit
\* what is loaded: Tidy leaves it out.
Crash ==
  /\ trouble < MaxTrouble
  /\ Tidy => \A r \in Range(records) : Name(r) = None =>
               ~\E i \in DOMAIN claim.names : i > 1 /\ claim.names[i] = None
  /\ trouble' = trouble + 1
  /\ records' \in Loaded
  /\ up' = FALSE
  /\ cursor' = NoCursor
  /\ registered' = FALSE
  /\ stopped' = {}
  /\ failures' = 0
  /\ suspended' = FALSE
  /\ push' = Idle
  /\ boots' = [b \in Bootstrap |-> NoBoot]
  /\ poll' = "none"
  /\ wire' \in IF push.pc = "sent" THEN {wire, wire \union {Request}} ELSE {wire}
  /\ UNCHANGED <<signedIn, kind, file, row, log, ever, reseeded>>

\* startSync, tried again as long as it gives no rail: it needs a token, and a
\* session that was deleted is not synced again. A device that could not be
\* registered counts, and ends nothing before the limit.
Restart ==
  /\ ~up /\ ~marker /\ ~suspended /\ signedIn
  /\ \/ failures' = 0 /\ UNCHANGED <<suspended, trouble>>
     \/ trouble < MaxTrouble /\ trouble' = trouble + 1 /\ NoteFailure /\ ~suspended'
  /\ up' = TRUE
  /\ cursor' = [anchor |-> anchor, skip |-> 0]
  /\ \E b \in Bootstrap : TryBootstrap(b)
  /\ UNCHANGED <<signedIn, records, kind, file, stopped, push, poll, broker, ever, reseeded>>

\* It gives none: the failures are at their limit, or the channel is not there.
StartFails ==
  /\ ~up /\ ~marker /\ ~suspended /\ signedIn /\ trouble < MaxTrouble
  /\ trouble' = trouble + 1
  /\ NoteFailure \/ (failures' = 0 /\ UNCHANGED suspended)
  /\ UNCHANGED <<signedIn, records, kind, file, up, cursor, registered, stopped, tasks, broker, ever, reseeded>>

\* The user signs out, or the token cannot be refreshed.
SignOut ==
  /\ signedIn /\ trouble < MaxTrouble
  /\ signedIn' = FALSE
  /\ trouble' = trouble + 1
  /\ UNCHANGED <<records, kind, file, memory, tasks, broker, ever, reseeded>>

SignIn ==
  /\ ~signedIn
  /\ signedIn' = TRUE
  /\ UNCHANGED <<records, kind, file, memory, tasks, broker, trouble, ever, reseeded>>

Init ==
  /\ signedIn \in BOOLEAN
  /\ records = <<>> /\ kind = <<>>
  /\ counter = 0 /\ claim = NoClaim /\ anchor = None /\ marker = FALSE
  /\ up = FALSE /\ cursor = NoCursor /\ registered = FALSE /\ stopped = {}
  /\ failures = 0 /\ suspended = FALSE
  /\ push = Idle /\ boots = [b \in Bootstrap |-> NoBoot] /\ poll = "none"
  /\ row = "absent" /\ log = {} /\ wire = {}
  /\ trouble = 0
  /\ ever = {} /\ reseeded = FALSE

Pushes == PushHandled \/ PushDelivered \/ PushConflict \/ PushGivesUp \/ PushRejected
          \/ PushUnauthorized \/ PushRetries
Boots(b) == BootProbe(b) \/ BootRegister(b) \/ BootRegistered(b) \/ BootShares(b) \/ BootDone(b) \/ BootRefused(b)

Next ==
  \/ TickBoots \/ TickPolls \/ PollAnswered
  \/ Pushes \/ PushFails \/ PushAnswerLost
  \/ \E b \in Bootstrap : Boots(b) \/ BootFails(b)
  \/ LateRequest \/ DropRow
  \/ AppendRecord \/ Compact \/ Crash \/ Restart \/ StartFails
  \/ SignOut \/ SignIn

\* The interval timer, the broker's answers and the next try to start the rail.
Fairness ==
  /\ WF_vars(stopped = {} /\ TickBoots) /\ WF_vars(stopped = {} /\ TickPolls)
  /\ WF_vars(PollAnswered) /\ WF_vars(Pushes)
  /\ \A b \in Bootstrap : WF_vars(Boots(b))
  /\ WF_vars(Restart)

Spec == Init /\ [][Next]_vars /\ Fairness

-----------------------------------------------------------------------------
(* What the rail promises.                                                 *)

\* Every named record that a cursor covers, the one in memory and the one in
\* the key file, was taken by the broker: a retry, a conflict, a crash or a
\* late request never lets the rail step over a record (cursor.ts:44-47).
NothingSkipped ==
  \A c \in (IF up THEN {cursor} ELSE {}) \union {[anchor |-> anchor, skip |-> 0]} :
    \A i \in 1..ResumeIndex(c) : kind[records[i]] = "named" => records[i] \in ever

\* Until a reseed, a named record is with the broker once, however often its
\* batch was sent (session-crypto.ts:165-171).
DeliveredOnce ==
  ~reseeded => \A x, y \in log :
    x.rec = y.rec /\ x.rec # None /\ kind[x.rec] = "named" => x = y

Ended == marker \/ stopped # {} \/ suspended

\* A named record arrives, unless a compaction takes it away first, the sync
\* has ended for good, or nobody is signed in: without a token every tick
\* returns (start.ts:522-523). A record that has not arrived stays one, so the
\* last of these says that it does arrive if somebody stays signed in.
EverythingArrives ==
  \A r \in 1..MaxRecords :
    (r \in DOMAIN kind /\ kind[r] = "named")
      ~> (r \in ever \/ ~Contains(records, r) \/ Ended \/ ~signedIn)
=============================================================================
