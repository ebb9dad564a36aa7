--------------------------- MODULE Scheduler_proofs ---------------------------
(***************************************************************************)
(* No saved task is lost, for every number of sessions and tasks, wherever *)
(* the sessions are in their checks when one of them crashes, and however  *)
(* many of them believe they hold the lease.                               *)
(***************************************************************************)
EXTENDS Scheduler, TLAPS

\* The missed tasks are known while they are removed, and only then.
Announcing ==
  \A s \in Sessions :
    IF pc[s] = "remove" THEN DOMAIN seen[s] \subseteq missed[s] ELSE missed[s] = {}

\* What a session removes without looking again has fired, or will be announced.
SpentHasFired == \A s \in Sessions : spent[s] \subseteq fired \union missed[s]
NoteHasFired == \A s \in Sessions : pc[s] = "fired" => note[s].task \in fired

IInv == TypeOK /\ Announcing /\ SpentHasFired /\ NoteHasFired /\ NoTaskIsLost

-----------------------------------------------------------------------------
(* Types.                                                                  *)

LEMMA WithoutSaves ==
  ASSUME NEW f, Saves(f), NEW S
  PROVE  Saves(Without(f, S)) /\ DOMAIN Without(f, S) = DOMAIN f \ S
BY DEF Saves, Without

LEMMA NothingSaves == Saves(Nothing)
BY DEF Saves, Nothing

LEMMA NoNoteTyped == NoNote \in [task : Tasks \union {"none"}, mark : Nat]
BY DEF NoNote


\* The rest of what a session read is still a list of saved tasks.
LEMMA SeenTyped ==
  ASSUME TypeOK, NEW s \in Sessions, NEW S, seen' = [seen EXCEPT ![s] = Without(@, S)]
  PROVE  DOMAIN seen' = Sessions /\ \A u \in Sessions : Saves(seen'[u])
BY WithoutSaves DEF TypeOK

LEMMA LeaveTaskEffect ==
  ASSUME TypeOK, NEW s \in Sessions, NEW t, LeaveTask(s, t)
  PROVE  /\ DOMAIN seen' = Sessions /\ \A u \in Sessions : Saves(seen'[u])
         /\ pc' \in [Sessions -> Places]
         /\ pc'[s] \in {"idle", "look"}
         /\ \A u \in Sessions \ {s} : pc'[u] = pc[u] /\ seen'[u] = seen[u]
<1>1. DOMAIN seen' = Sessions /\ \A u \in Sessions : Saves(seen'[u])
  BY SeenTyped DEF LeaveTask
<1>. QED
  BY <1>1 DEF LeaveTask, Goto, TypeOK, Places

\* A removal takes the one task away, or leaves it to the next check.
LEMMA RetireEffect ==
  ASSUME TypeOK, NEW s \in Sessions, NEW t \in Tasks, Retire(s, t)
  PROVE  /\ Saves(saved') /\ DOMAIN saved \ {t} \subseteq DOMAIN saved'
         /\ spent' \in [Sessions -> SUBSET Tasks]
         /\ spent'[s] \subseteq spent[s] \union {t}
         /\ \A u \in Sessions \ {s} : spent'[u] = spent[u]
<1>1. CASE Remove(s, t) /\ spent' = [spent EXCEPT ![s] = @ \ {t}]
  <2>1. Saves(saved') /\ DOMAIN saved' = DOMAIN saved \ {t}
    BY <1>1, WithoutSaves DEF Remove, TypeOK
  <2>. QED
    BY <1>1, <2>1 DEF TypeOK
<1>2. CASE spent' = [spent EXCEPT ![s] = @ \union {t}] /\ UNCHANGED saved
  BY <1>2 DEF TypeOK
<1>. QED
  BY <1>1, <1>2 DEF Retire

\* What is removed was fired, or is still to be announced.
LEMMA NotLost ==
  ASSUME NoTaskIsLost, NEW t, DOMAIN saved \ {t} \subseteq DOMAIN saved',
         UNCHANGED <<owner, missed, fired, cancelled, cut>>,
         t \in fired \/ \E s \in Sessions : t \in missed[s]
  PROVE  NoTaskIsLost'
BY DEF NoTaskIsLost

-----------------------------------------------------------------------------
(* The lease: neither the tasks nor what was fired are touched.             *)

LEMMA OpenLeaseKeeps ==
  ASSUME IInv, NEW s \in Sessions, OpenLease(s)
  PROVE  IInv'
<1>. USE DEF IInv, OpenLease, Goto, AfterClaim, files, memory, bounds, history
<1>1. TypeOK'
  BY DEF TypeOK, Places
<1>2. Announcing'
  BY DEF TypeOK, Announcing
<1>3. SpentHasFired'
  BY DEF TypeOK, SpentHasFired, Announcing
<1>4. NoteHasFired'
  BY DEF TypeOK, NoteHasFired
<1>5. NoTaskIsLost'
  BY DEF TypeOK, NoTaskIsLost
<1>. QED
  BY <1>1, <1>2, <1>3, <1>4, <1>5

LEMMA WriteLeaseKeeps ==
  ASSUME IInv, NEW s \in Sessions, WriteLease(s)
  PROVE  IInv'
<1>. USE DEF IInv, WriteLease, Goto, AfterClaim, files, memory, bounds, history
<1>1. TypeOK'
  BY DEF TypeOK, Places
<1>2. Announcing'
  BY DEF TypeOK, Announcing
<1>3. SpentHasFired'
  BY DEF TypeOK, SpentHasFired, Announcing
<1>4. NoteHasFired'
  BY DEF TypeOK, NoteHasFired
<1>5. NoTaskIsLost'
  BY DEF TypeOK, NoTaskIsLost
<1>. QED
  BY <1>1, <1>2, <1>3, <1>4, <1>5

LEMMA ReadLeaseKeeps ==
  ASSUME IInv, NEW s \in Sessions, ReadLease(s)
  PROVE  IInv'
<1>. USE DEF IInv, ReadLease, Goto, AfterClaim, files, memory, bounds, history
<1>1. TypeOK'
  BY DEF TypeOK, Places
<1>2. Announcing'
  BY DEF TypeOK, Announcing
<1>3. SpentHasFired'
  BY DEF TypeOK, SpentHasFired, Announcing
<1>4. NoteHasFired'
  BY DEF TypeOK, NoteHasFired
<1>5. NoTaskIsLost'
  BY DEF TypeOK, NoTaskIsLost
<1>. QED
  BY <1>1, <1>2, <1>3, <1>4, <1>5

LEMMA UnlinkLeaseKeeps ==
  ASSUME IInv, NEW s \in Sessions, UnlinkLease(s)
  PROVE  IInv'
<1>. USE DEF IInv, UnlinkLease, Goto, files, memory, bounds, history
<1>1. TypeOK'
  BY DEF TypeOK, Places
<1>2. Announcing'
  BY DEF TypeOK, Announcing
<1>3. SpentHasFired'
  BY DEF TypeOK, SpentHasFired, Announcing
<1>4. NoteHasFired'
  BY DEF TypeOK, NoteHasFired
<1>5. NoTaskIsLost'
  BY DEF TypeOK, NoTaskIsLost
<1>. QED
  BY <1>1, <1>2, <1>3, <1>4, <1>5

LEMMA ExitKeeps ==
  ASSUME IInv, NEW s \in Sessions, Exit(s)
  PROVE  IInv'
<1>. USE DEF IInv, Exit, Goto, files, memory, bounds, history
<1>1. TypeOK'
  BY DEF TypeOK, Places
<1>2. Announcing'
  BY DEF TypeOK, Announcing
<1>3. SpentHasFired'
  BY DEF TypeOK, SpentHasFired, Announcing
<1>4. NoteHasFired'
  BY DEF TypeOK, NoteHasFired
<1>5. NoTaskIsLost'
  BY DEF TypeOK, NoTaskIsLost
<1>. QED
  BY <1>1, <1>2, <1>3, <1>4, <1>5

-----------------------------------------------------------------------------
(* A check. What a session remembers can only shrink when it reads the file.*)

LEMMA StartKeeps ==
  ASSUME IInv, NEW s \in Sessions, Start(s)
  PROVE  IInv'
<1>. USE DEF IInv, Start, ReadTasks, Goto, files, memory, bounds, history
<1>1. TypeOK'
  BY WithoutSaves, NothingSaves, NoNoteTyped, ZenonT(40) DEF TypeOK, Places
<1>2. Announcing'
  BY DEF TypeOK, Announcing
<1>3. SpentHasFired'
  BY DEF TypeOK, SpentHasFired, Announcing
<1>4. NoteHasFired'
  BY DEF TypeOK, NoteHasFired
<1>5. NoTaskIsLost'
  BY DEF TypeOK, NoTaskIsLost
<1>. QED
  BY <1>1, <1>2, <1>3, <1>4, <1>5

LEMMA CheckKeeps ==
  ASSUME IInv, NEW s \in Sessions, Check(s)
  PROVE  IInv'
<1>. USE DEF IInv, Check, ReadTasks, Goto, files, memory, bounds, history
<1>1. TypeOK'
  BY WithoutSaves, NothingSaves, NoNoteTyped DEF TypeOK, Places
<1>2. Announcing'
  BY DEF TypeOK, Announcing
<1>3. SpentHasFired'
  BY DEF TypeOK, SpentHasFired, Announcing
<1>4. NoteHasFired'
  BY DEF TypeOK, NoteHasFired
<1>5. NoTaskIsLost'
  BY DEF TypeOK, NoTaskIsLost
<1>. QED
  BY <1>1, <1>2, <1>3, <1>4, <1>5

LEMMA ProbeKeeps ==
  ASSUME IInv, NEW s \in Sessions, Probe(s)
  PROVE  IInv'
<1>. USE DEF IInv, Probe, ReadTasks, Goto, files, memory, bounds, history
<1>1. TypeOK'
  BY WithoutSaves, NothingSaves, NoNoteTyped DEF TypeOK, Places
<1>2. Announcing'
  BY DEF TypeOK, Announcing
<1>3. SpentHasFired'
  BY DEF TypeOK, SpentHasFired, Announcing
<1>4. NoteHasFired'
  BY DEF TypeOK, NoteHasFired
<1>5. NoTaskIsLost'
  BY DEF TypeOK, NoTaskIsLost
<1>. QED
  BY <1>1, <1>2, <1>3, <1>4, <1>5

\* What will be removed is what will be announced.
LEMMA FindMissedKeeps ==
  ASSUME IInv, NEW s \in Sessions, FindMissed(s)
  PROVE  IInv'
<1>. USE DEF IInv, FindMissed, Goto, Restrict, files, memory, bounds, history
<1>1. TypeOK'
  <2>. DEFINE due == {t \in DOMAIN seen[s] \ recurring : matched[t] > 0 /\ FiresHere(s, t)}
  <2>1. due \subseteq Tasks /\ due \subseteq DOMAIN seen[s]
    BY DEF TypeOK, Saves
  <2>2. Saves([t \in due |-> seen[s][t]])
    BY <2>1 DEF TypeOK, Saves
  <2>3. DOMAIN seen' = Sessions /\ \A u \in Sessions : Saves(seen'[u])
    BY <2>1, <2>2 DEF TypeOK
  <2>. QED
    BY <2>1, <2>3 DEF TypeOK, Places
<1>2. Announcing'
  BY DEF TypeOK, Announcing
<1>3. SpentHasFired'
  BY DEF TypeOK, SpentHasFired, Announcing
<1>4. NoteHasFired'
  BY DEF TypeOK, NoteHasFired
<1>5. NoTaskIsLost'
  BY DEF TypeOK, NoTaskIsLost, Announcing
<1>. QED
  BY <1>1, <1>2, <1>3, <1>4, <1>5

LEMMA AnnounceKeeps ==
  ASSUME IInv, NEW s \in Sessions, Announce(s)
  PROVE  IInv'
<1>. USE DEF IInv, Announce, Goto, files, memory, bounds, history
<1>1. TypeOK'
  BY DEF TypeOK, Places
<1>2. Announcing'
  BY DEF TypeOK, Announcing
<1>3. SpentHasFired'
  BY DEF TypeOK, SpentHasFired, Announcing
<1>4. NoteHasFired'
  BY DEF TypeOK, NoteHasFired
<1>5. NoTaskIsLost'
  BY DEF TypeOK, NoTaskIsLost
<1>. QED
  BY <1>1, <1>2, <1>3, <1>4, <1>5

\* What is removed is still to be announced.
LEMMA RemoveMissedKeeps ==
  ASSUME IInv, NEW s \in Sessions, NEW t \in Tasks, RemoveMissed(s, t)
  PROVE  IInv'
<1>. USE DEF IInv, RemoveMissed, files, memory, bounds, history
<1>m. t \in missed[s]
  BY DEF Announcing
<1>r. /\ Saves(saved') /\ DOMAIN saved \ {t} \subseteq DOMAIN saved'
      /\ spent' \in [Sessions -> SUBSET Tasks]
      /\ spent'[s] \subseteq spent[s] \union {t}
      /\ \A u \in Sessions \ {s} : spent'[u] = spent[u]
  BY RetireEffect
<1>n. DOMAIN seen' = Sessions /\ \A u \in Sessions : Saves(seen'[u])
  BY SeenTyped
<1>1. TypeOK'
  BY <1>r, <1>n DEF TypeOK
<1>2. Announcing'
  <2>1. DOMAIN seen'[s] \subseteq DOMAIN seen[s]
    BY DEF TypeOK, Without
  <2>2. \A u \in Sessions \ {s} : seen'[u] = seen[u]
    BY DEF TypeOK
  <2>. QED
    BY <2>1, <2>2 DEF Announcing
<1>3. SpentHasFired'
  BY <1>m, <1>r DEF SpentHasFired
<1>4. NoteHasFired'
  BY DEF TypeOK, NoteHasFired
<1>5. NoTaskIsLost'
  BY <1>m, <1>r, NotLost
<1>. QED
  BY <1>1, <1>2, <1>3, <1>4, <1>5

LEMMA SkipTaskKeeps ==
  ASSUME IInv, NEW s \in Sessions, NEW t \in Tasks, SkipTask(s, t)
  PROVE  IInv'
<1>. USE DEF IInv, SkipTask, files, memory, bounds, history
<1>1. TypeOK'
  BY LeaveTaskEffect DEF TypeOK
<1>2. Announcing'
  BY LeaveTaskEffect DEF TypeOK, Announcing
<1>3. SpentHasFired'
  BY DEF TypeOK, SpentHasFired, Announcing
<1>4. NoteHasFired'
  BY LeaveTaskEffect DEF TypeOK, NoteHasFired
<1>5. NoTaskIsLost'
  BY DEF TypeOK, NoTaskIsLost
<1>. QED
  BY <1>1, <1>2, <1>3, <1>4, <1>5

\* What is removed without another look has fired, or been announced.
LEMMA RetireSpentKeeps ==
  ASSUME IInv, NEW s \in Sessions, NEW t \in Tasks, RetireSpent(s, t)
  PROVE  IInv'
<1>. USE DEF IInv, RetireSpent, files, memory, bounds, history
<1>f. t \in fired \union missed[s]
  BY DEF SpentHasFired
<1>r. /\ Saves(saved') /\ DOMAIN saved \ {t} \subseteq DOMAIN saved'
      /\ spent' \in [Sessions -> SUBSET Tasks]
      /\ spent'[s] \subseteq spent[s] \union {t}
      /\ \A u \in Sessions \ {s} : spent'[u] = spent[u]
  BY RetireEffect
<1>l. /\ DOMAIN seen' = Sessions /\ \A u \in Sessions : Saves(seen'[u])
      /\ pc' \in [Sessions -> Places] /\ pc'[s] \in {"idle", "look"}
      /\ \A u \in Sessions \ {s} : pc'[u] = pc[u] /\ seen'[u] = seen[u]
  BY LeaveTaskEffect
<1>1. TypeOK'
  BY <1>r, <1>l DEF TypeOK
<1>2. Announcing'
  BY <1>l DEF Announcing
<1>3. SpentHasFired'
  BY <1>r DEF SpentHasFired
<1>4. NoteHasFired'
  BY <1>l DEF NoteHasFired
<1>5. NoTaskIsLost'
  BY <1>f, <1>r, NotLost
<1>. QED
  BY <1>1, <1>2, <1>3, <1>4, <1>5

LEMMA WaitForTaskKeeps ==
  ASSUME IInv, NEW s \in Sessions, NEW t \in Tasks, WaitForTask(s, t)
  PROVE  IInv'
<1>. USE DEF IInv, WaitForTask, files, memory, bounds, history
<1>1. TypeOK'
  <2>1. Due(s, t) \in Nat
    BY DEF Due, TypeOK, Saves
  <2>. QED
    BY <2>1, LeaveTaskEffect DEF TypeOK
<1>2. Announcing'
  BY LeaveTaskEffect DEF TypeOK, Announcing
<1>3. SpentHasFired'
  BY DEF TypeOK, SpentHasFired, Announcing
<1>4. NoteHasFired'
  BY LeaveTaskEffect DEF TypeOK, NoteHasFired
<1>5. NoTaskIsLost'
  BY DEF TypeOK, NoTaskIsLost
<1>. QED
  BY <1>1, <1>2, <1>3, <1>4, <1>5

\* A task is fired before anything is written about it.
LEMMA FireKeeps ==
  ASSUME IInv, NEW s \in Sessions, NEW t \in Tasks, Fire(s, t)
  PROVE  IInv'
<1>. USE DEF IInv, Fire, Goto, Due, files, memory, bounds, history
<1>1. TypeOK'
  BY DEF TypeOK, Places
<1>2. Announcing'
  BY DEF TypeOK, Announcing
<1>3. SpentHasFired'
  BY DEF TypeOK, SpentHasFired, Announcing
<1>4. NoteHasFired'
  BY DEF TypeOK, NoteHasFired
<1>5. NoTaskIsLost'
  BY DEF TypeOK, NoTaskIsLost
<1>. QED
  BY <1>1, <1>2, <1>3, <1>4, <1>5

\* What is removed now has just fired.
LEMMA WriteRemovalKeeps ==
  ASSUME IInv, NEW s \in Sessions, WriteRemoval(s)
  PROVE  IInv'
<1>. USE DEF IInv, WriteRemoval, Written, files, memory, bounds, history
<1>f. note[s].task \in fired /\ note[s].task \in Tasks
  BY DEF NoteHasFired, TypeOK
<1>r. /\ Saves(saved') /\ DOMAIN saved \ {note[s].task} \subseteq DOMAIN saved'
      /\ spent' \in [Sessions -> SUBSET Tasks]
      /\ spent'[s] \subseteq spent[s] \union {note[s].task}
      /\ \A u \in Sessions \ {s} : spent'[u] = spent[u]
  BY <1>f, RetireEffect
<1>l. /\ DOMAIN seen' = Sessions /\ \A u \in Sessions : Saves(seen'[u])
      /\ pc' \in [Sessions -> Places] /\ pc'[s] \in {"idle", "look"}
      /\ \A u \in Sessions \ {s} : pc'[u] = pc[u] /\ seen'[u] = seen[u]
  BY LeaveTaskEffect
<1>1. TypeOK'
  BY <1>r, <1>l, NoNoteTyped DEF TypeOK
<1>2. Announcing'
  BY <1>l DEF Announcing
<1>3. SpentHasFired'
  BY <1>f, <1>r DEF SpentHasFired
<1>4. NoteHasFired'
  <2>1. \A u \in Sessions \ {s} : note'[u] = note[u]
    BY DEF TypeOK
  <2>. QED
    BY <1>l, <2>1 DEF NoteHasFired
<1>5. NoTaskIsLost'
  BY <1>f, <1>r, NotLost
<1>. QED
  BY <1>1, <1>2, <1>3, <1>4, <1>5

LEMMA WriteFireKeeps ==
  ASSUME IInv, NEW s \in Sessions, WriteFire(s)
  PROVE  IInv'
<1>. USE DEF IInv, WriteFire, Written, files, memory, bounds, history
<1>l. /\ DOMAIN seen' = Sessions /\ \A u \in Sessions : Saves(seen'[u])
      /\ pc' \in [Sessions -> Places] /\ pc'[s] \in {"idle", "look"}
      /\ \A u \in Sessions \ {s} : pc'[u] = pc[u] /\ seen'[u] = seen[u]
  BY LeaveTaskEffect
<1>1. TypeOK'
  <2>1. Saves(saved')
    BY DEF TypeOK, Saves
  <2>. QED
    BY <2>1, <1>l, NoNoteTyped DEF TypeOK
<1>2. Announcing'
  BY <1>l DEF Announcing
<1>3. SpentHasFired'
  BY DEF TypeOK, SpentHasFired, Announcing
<1>4. NoteHasFired'
  <2>1. \A u \in Sessions \ {s} : note'[u] = note[u]
    BY DEF TypeOK
  <2>. QED
    BY <1>l, <2>1 DEF NoteHasFired
<1>5. NoTaskIsLost'
  BY DEF TypeOK, NoTaskIsLost
<1>. QED
  BY <1>1, <1>2, <1>3, <1>4, <1>5

-----------------------------------------------------------------------------
(* The end of a session, and what happens around them.                      *)

LEMMA StopKeeps ==
  ASSUME IInv, NEW s \in Sessions, Stop(s)
  PROVE  IInv'
<1>. USE DEF IInv, Stop, Goto, files, memory, bounds, history
<1>1. TypeOK'
  BY DEF TypeOK, Places
<1>2. Announcing'
  BY DEF TypeOK, Announcing
<1>3. SpentHasFired'
  BY DEF TypeOK, SpentHasFired, Announcing
<1>4. NoteHasFired'
  BY DEF TypeOK, NoteHasFired
<1>5. NoTaskIsLost'
  BY DEF TypeOK, NoTaskIsLost
<1>. QED
  BY <1>1, <1>2, <1>3, <1>4, <1>5

\* The missed tasks of a crashed session are counted as cut.
LEMMA CrashKeeps ==
  ASSUME IInv, NEW s \in Sessions, Crash(s)
  PROVE  IInv'
<1>. USE DEF IInv, Crash, Goto, files, memory, bounds, history
<1>1. TypeOK'
  BY NothingSaves, NoNoteTyped DEF TypeOK, Places
<1>2. Announcing'
  BY DEF TypeOK, Announcing
<1>3. SpentHasFired'
  BY DEF TypeOK, SpentHasFired, Announcing
<1>4. NoteHasFired'
  BY DEF TypeOK, NoteHasFired
<1>5. NoTaskIsLost'
  BY DEF TypeOK, NoTaskIsLost
<1>. QED
  BY <1>1, <1>2, <1>3, <1>4, <1>5

LEMMA CreateTaskKeeps ==
  ASSUME IInv, NEW s \in Sessions, NEW t \in Tasks, CreateTask(s, t)
  PROVE  IInv'
<1>. USE DEF IInv, CreateTask, files, memory, bounds, history
<1>1. TypeOK'
  <2>1. Saves(saved')
    BY DEF TypeOK, Saves
  <2>. QED
    BY <2>1 DEF TypeOK
<1>2. Announcing'
  BY DEF TypeOK, Announcing
<1>3. SpentHasFired'
  BY DEF TypeOK, SpentHasFired, Announcing
<1>4. NoteHasFired'
  BY DEF TypeOK, NoteHasFired
<1>5. NoTaskIsLost'
  BY DEF TypeOK, NoTaskIsLost
<1>. QED
  BY <1>1, <1>2, <1>3, <1>4, <1>5

LEMMA CancelTaskKeeps ==
  ASSUME IInv, NEW s \in Sessions, NEW t \in Tasks, CancelTask(s, t)
  PROVE  IInv'
<1>. USE DEF IInv, CancelTask, files, memory, bounds, history
<1>1. TypeOK'
  BY WithoutSaves DEF TypeOK
<1>2. Announcing'
  BY DEF TypeOK, Announcing
<1>3. SpentHasFired'
  BY DEF TypeOK, SpentHasFired, Announcing
<1>4. NoteHasFired'
  BY DEF TypeOK, NoteHasFired
<1>5. NoTaskIsLost'
  <2>1. DOMAIN saved' = DOMAIN saved \ {t}
    BY DEF Without
  <2>. QED
    BY <2>1 DEF TypeOK, NoTaskIsLost
<1>. QED
  BY <1>1, <1>2, <1>3, <1>4, <1>5

LEMMA MatchKeeps ==
  ASSUME IInv, NEW t \in Tasks, Match(t)
  PROVE  IInv'
<1>. USE DEF IInv, Match, files, memory, bounds, history
<1>1. TypeOK'
  BY DEF TypeOK, Places
<1>2. Announcing'
  BY DEF TypeOK, Announcing
<1>3. SpentHasFired'
  BY DEF TypeOK, SpentHasFired, Announcing
<1>4. NoteHasFired'
  BY DEF TypeOK, NoteHasFired
<1>5. NoTaskIsLost'
  BY DEF TypeOK, NoTaskIsLost
<1>. QED
  BY <1>1, <1>2, <1>3, <1>4, <1>5

-----------------------------------------------------------------------------
(* The theorems.                                                           *)

LEMMA InitTypeOK == Init => TypeOK
<1>. SUFFICES ASSUME Init PROVE TypeOK
  OBVIOUS
<1>. USE DEF Init
<1>1. Saves(saved) /\ owner \in [Tasks -> Sessions \union {Nobody}] /\ recurring \subseteq Tasks
  BY NothingSaves
<1>2. /\ matched \in [Tasks -> Nat] /\ pc \in [Sessions -> Places]
      /\ starting \subseteq Sessions /\ held \in [Sessions -> BOOLEAN]
  BY DEF Places
<1>3. DOMAIN seen = Sessions /\ \A s \in Sessions : Saves(seen[s])
  BY NothingSaves
<1>4. /\ missed \in [Sessions -> SUBSET Tasks] /\ spent \in [Sessions -> SUBSET Tasks]
      /\ nextFire \in [Sessions -> [Tasks -> Nat]]
  OBVIOUS
<1>5. note \in [Sessions -> [task : Tasks \union {"none"}, mark : Nat]]
  BY NoNoteTyped
<1>. QED
  BY <1>1, <1>2, <1>3, <1>4, <1>5 DEF TypeOK

LEMMA InitIInv == Init => IInv
<1>. SUFFICES ASSUME Init PROVE IInv
  OBVIOUS
<1>1. Announcing /\ SpentHasFired /\ NoteHasFired /\ NoTaskIsLost
  BY DEF Init, Announcing, SpentHasFired, NoteHasFired, NoTaskIsLost
<1>. QED
  BY <1>1, InitTypeOK DEF IInv

LEMMA StepKeeps ==
  ASSUME IInv, NEW s \in Sessions, Step(s)
  PROVE  IInv'
<1>1. CASE OpenLease(s)
  BY <1>1, OpenLeaseKeeps
<1>2. CASE WriteLease(s)
  BY <1>2, WriteLeaseKeeps
<1>3. CASE ReadLease(s)
  BY <1>3, ReadLeaseKeeps
<1>4. CASE UnlinkLease(s)
  BY <1>4, UnlinkLeaseKeeps
<1>5. CASE Check(s)
  BY <1>5, CheckKeeps
<1>6. CASE Probe(s)
  BY <1>6, ProbeKeeps
<1>7. CASE FindMissed(s)
  BY <1>7, FindMissedKeeps
<1>8. CASE Announce(s)
  BY <1>8, AnnounceKeeps
<1>9. CASE WriteRemoval(s)
  BY <1>9, WriteRemovalKeeps
<1>10. CASE WriteFire(s)
  BY <1>10, WriteFireKeeps
<1>11. CASE Exit(s)
  BY <1>11, ExitKeeps
<1>12. ASSUME NEW t \in Tasks,
             RemoveMissed(s, t) \/ SkipTask(s, t) \/ RetireSpent(s, t) \/ WaitForTask(s, t) \/ Fire(s, t)
      PROVE  IInv'
  BY <1>12, RemoveMissedKeeps, SkipTaskKeeps, RetireSpentKeeps, WaitForTaskKeeps, FireKeeps
<1>. QED
  BY <1>1, <1>2, <1>3, <1>4, <1>5, <1>6, <1>7, <1>8, <1>9, <1>10, <1>11, <1>12 DEF Step

\* Nothing in the invariant speaks of a bound.
LEMMA StutterKeeps ==
  ASSUME IInv, UNCHANGED vars
  PROVE  IInv'
BY DEF IInv, TypeOK, Announcing, SpentHasFired, NoteHasFired, NoTaskIsLost,
       vars, files, memory, bounds, history

LEMMA NextKeeps == IInv /\ [Next]_vars => IInv'
<1>. SUFFICES ASSUME IInv, [Next]_vars PROVE IInv'
  OBVIOUS
<1>1. ASSUME NEW s \in Sessions, Start(s) \/ Step(s) \/ Stop(s) \/ Crash(s)
      PROVE  IInv'
  BY <1>1, StartKeeps, StepKeeps, StopKeeps, CrashKeeps
<1>2. ASSUME NEW s \in Sessions, NEW t \in Tasks, CreateTask(s, t) \/ CancelTask(s, t)
      PROVE  IInv'
  BY <1>2, CreateTaskKeeps, CancelTaskKeeps
<1>3. ASSUME NEW t \in Tasks, Match(t) PROVE IInv'
  BY <1>3, MatchKeeps
<1>. QED
  BY <1>1, <1>2, <1>3, StutterKeeps DEF Next

LEMMA Invariant == Spec => []IInv
<1>. QED
  BY InitIInv, NextKeeps, PTL DEF Spec

\* Every variable of the scheduler keeps its type, for every number of
\* sessions that run at the same time, crash or fail to write.
THEOREM SchedulerTypes == Spec => []TypeOK
<1>1. IInv => TypeOK
  BY DEF IInv
<1>. QED
  BY <1>1, Invariant, PTL

\* A saved task leaves the file only when it has fired, has been announced or is
\* about to be, or was taken back: whatever the sessions believe about the
\* lease, and wherever in its check a session crashes or fails to write.
THEOREM SavedTasksAreKept == Spec => []NoTaskIsLost
<1>1. IInv => NoTaskIsLost
  BY DEF IInv
<1>. QED
  BY <1>1, Invariant, PTL
==============================================================================
