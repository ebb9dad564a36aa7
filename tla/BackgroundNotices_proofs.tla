----------------------- MODULE BackgroundNotices_proofs -----------------------
(***************************************************************************)
(* How runs end and what their notices say, for every number of tasks and  *)
(* runs and every way to start, stop, resume and remove them.  The calls   *)
(* of the store are described once, field by field; the invariants are     *)
(* proved from these descriptions.                                         *)
(***************************************************************************)
EXTENDS BackgroundTasks_proofs

-----------------------------------------------------------------------------
(* Types.                                                                   *)

Statuses == {"unborn", "running", "completed", "error", "killed", "evicted"}
Endings == {"completed", "error", "killed"}

\* The generation is a number; that it stays below MaxRuns is proved from its token.
RowShape ==
  [kind : {"agent", "shell"}, status : Statuses,
   gen : Nat, token : Runs \cup {NoRun}, mode : {"linked", "detached"}, bg : BOOLEAN,
   owner : Tasks \cup {Main}, parent : Tasks \cup {Main},
   term : {"pending", "parent", "owner", "main", "discarded"},
   notified : BOOLEAN, moved : BOOLEAN, halted : {"no", "row", "disk"}]

NoticeShape ==
  [key : [task : Tasks, gen : Nat], token : Runs, owner : Tasks \cup {Main}, private : BOOLEAN]

\* A row that is in the store has a run.
Minted(S) == \A t \in Tasks : Present(S, t) => S.store[t].token \in Runs

Typed(S) ==
  /\ S.store \in [Tasks -> RowShape]
  /\ S.run \in [Runs -> RunType]
  /\ S.ctl \in [Tasks -> Runs \cup {NoRun}]
  /\ S.queue \subseteq NoticeShape
  /\ S.posted \subseteq Runs
  /\ Minted(S)

Fine(S) == Good(S) /\ Typed(S)

\* What no call of the store changes in a row that stays, and in a run.
SameRow(S, T, t) ==
  /\ T.store[t].kind = S.store[t].kind /\ T.store[t].gen = S.store[t].gen
  /\ T.store[t].token = S.store[t].token /\ T.store[t].mode = S.store[t].mode
  /\ T.store[t].bg = S.store[t].bg /\ T.store[t].parent = S.store[t].parent

SameRun(S, T, k) ==
  /\ T.run[k].task = S.run[k].task /\ T.run[k].how = S.run[k].how
  /\ T.run[k].caller = S.run[k].caller
  /\ T.run[k].gate = S.run[k].gate
  /\ T.run[k].outcome = S.run[k].outcome

\* A fork that waits is woken.
Woken(S, T, k) ==
  T.run[k].pc = S.run[k].pc \/ (S.run[k].pc = "parked" /\ T.run[k].pc = "loop")

Told(S, ts) == {t \in ts : Notifies(S, t)}

\* What Conclude does.
Concluded(S, T, ts, status) ==
  /\ \A t \in Tasks :
       /\ SameRow(S, T, t)
       /\ T.store[t].owner = S.store[t].owner
       /\ t \notin ts => T.store[t] = S.store[t]
       /\ t \in ts => T.store[t].status = status[t]
       /\ t \in ts /\ Answers(S, t) => T.store[t].term = "parent" /\ T.store[t].notified
       /\ t \in Told(S, ts) =>
            /\ T.store[t].notified
            /\ T.store[t].term = IF Private(S, t) THEN "owner" ELSE "main"
       /\ t \in ts /\ ~Answers(S, t) /\ t \notin Told(S, ts) =>
            T.store[t].term = S.store[t].term /\ T.store[t].notified = S.store[t].notified
  /\ \A k \in Runs : /\ SameRun(S, T, k)
                     /\ Woken(S, T, k)
                     /\ T.run[k].linked = S.run[k].linked
                     /\ T.run[k].aborted = S.run[k].aborted
  /\ T.ctl = S.ctl
  /\ \A e : e \in T.queue <=>
       \/ e \in S.queue /\ ~\E t \in Told(S, ts) : e.key = KeyOf(S, t)
       \/ \E t \in Told(S, ts) : e = Notice(S, t)
  /\ T.posted = S.posted \cup {S.store[t].token : t \in Told(S, ts)}

LEMMA ConcludeIs ==
  ASSUME NEW S, Fine(S), NEW ts \in SUBSET Tasks, NEW status,
         \A t \in ts : status[t] \in Endings /\ S.store[t].token \in Runs
  PROVE  /\ Concluded(S, Conclude(S, ts, status), ts, status)
         /\ Fine(Conclude(S, ts, status))
<1>. DEFINE told == {t \in ts : Notifies(S, t)}
            T == Conclude(S, ts, status)
<1>1. T.store = [t \in Tasks |->
            IF t \notin ts THEN S.store[t]
            ELSE IF Answers(S, t)
                 THEN [S.store[t] EXCEPT !.status = status[t], !.term = "parent", !.notified = TRUE]
            ELSE IF t \in told
                 THEN [S.store[t] EXCEPT !.status = status[t], !.notified = TRUE,
                                   !.term = IF Private(S, t) THEN "owner" ELSE "main"]
            ELSE [S.store[t] EXCEPT !.status = status[t]]]
  BY DEF Conclude, Fine, Good, Shape
<1>a. T.queue = {e \in S.queue : ~\E t \in told : e.key = KeyOf(S, t)}
                     \cup {Notice(S, t) : t \in told}
  BY DEF Conclude, Fine, Good, Shape
<1>b. T.run = [k \in Runs |->
            IF S.run[k].pc = "parked"
               /\ \E t \in told : Private(S, t) /\ S.store[t].owner = S.run[k].task
            THEN [S.run[k] EXCEPT !.pc = "loop"] ELSE S.run[k]]
  BY DEF Conclude, Fine, Good, Shape
<1>c. T.posted = S.posted \cup {S.store[t].token : t \in told} /\ T.ctl = S.ctl
  BY DEF Conclude, Fine, Good, Shape
<1>d. /\ T.store = [t \in Tasks |-> T.store[t]] /\ T.run = [k \in Runs |-> T.run[k]]
  BY DEF Conclude, Fine, Good, Shape
<1>2. told \subseteq ts /\ \A t \in told : ~Answers(S, t)
  BY DEF Notifies
<1>3. S.store \in [Tasks -> RowShape] /\ S.run \in [Runs -> RunType]
  BY DEF Fine, Typed
<1>4. Good(T)
  <2>1. \A t \in ts : status[t] \notin {"running", "unborn"}
    BY DEF Endings
  <2>. QED
    BY <2>1, ConcludeLeads, LeadsKeepsGood DEF Fine
<1>. HIDE DEF T, told
<1>5. ASSUME NEW t \in Tasks
      PROVE  /\ T.store[t] \in RowShape
             /\ SameRow(S, T, t) /\ T.store[t].owner = S.store[t].owner
             /\ t \notin ts => T.store[t] = S.store[t]
             /\ t \in ts => T.store[t].status = status[t]
             /\ t \in ts /\ Answers(S, t) => T.store[t].term = "parent" /\ T.store[t].notified
             /\ t \in told =>
                  /\ T.store[t].notified
                  /\ T.store[t].term = IF Private(S, t) THEN "owner" ELSE "main"
             /\ t \in ts /\ ~Answers(S, t) /\ t \notin told =>
                  T.store[t].term = S.store[t].term /\ T.store[t].notified = S.store[t].notified
  <2>1. S.store[t] \in RowShape
    BY <1>3
  <2>2. CASE t \notin ts
    <3>1. T.store[t] = S.store[t]
      BY <1>1, <2>2, Zenon
    <3>2. t \notin told
      BY <1>2, <2>2
    <3>. QED
      BY <2>1, <2>2, <3>1, <3>2 DEF SameRow
  <2>3. CASE t \in ts /\ Answers(S, t)
    <3>. DEFINE s == status[t]
    <3>1. T.store[t] = [S.store[t] EXCEPT !.status = s, !.term = "parent", !.notified = TRUE]
      BY <1>1, <2>3, Zenon
    <3>2. t \notin told /\ s \in Statuses
      BY <1>2, <2>3 DEF Endings, Statuses
    <3>3. s = status[t]
      OBVIOUS
    <3>. HIDE DEF s
    <3>. QED
      BY <2>1, <2>3, <3>1, <3>2, <3>3 DEF RowShape, SameRow
  <2>4. CASE t \in told
    <3>. DEFINE s == status[t]
                term == IF Private(S, t) THEN "owner" ELSE "main"
    <3>1. T.store[t] = [S.store[t] EXCEPT !.status = s, !.notified = TRUE, !.term = term]
      BY <1>1, <1>2, <2>4, Zenon
    <3>2. t \in ts /\ ~Answers(S, t) /\ s \in Statuses /\ term \in {"owner", "main"}
      BY <1>2, <2>4 DEF Endings, Statuses
    <3>3. s = status[t] /\ term = IF Private(S, t) THEN "owner" ELSE "main"
      OBVIOUS
    <3>. HIDE DEF term, s
    <3>. QED
      BY <2>1, <2>4, <3>1, <3>2, <3>3 DEF RowShape, SameRow
  <2>5. CASE t \in ts /\ ~Answers(S, t) /\ t \notin told
    <3>. DEFINE s == status[t]
    <3>1. T.store[t] = [S.store[t] EXCEPT !.status = s]
      BY <1>1, <2>5, Zenon
    <3>2. s \in Statuses /\ s = status[t]
      BY <2>5 DEF Endings, Statuses
    <3>. HIDE DEF s
    <3>. QED
      BY <2>1, <2>5, <3>1, <3>2 DEF RowShape, SameRow
  <2>. QED
    BY <1>2, <2>2, <2>3, <2>4, <2>5
<1>6. ASSUME NEW k \in Runs
      PROVE  /\ T.run[k] \in RunType /\ SameRun(S, T, k) /\ Woken(S, T, k)
             /\ T.run[k].linked = S.run[k].linked
             /\ T.run[k].aborted = S.run[k].aborted
  <2>1. \/ T.run[k] = S.run[k]
        \/ S.run[k].pc = "parked" /\ T.run[k] = [S.run[k] EXCEPT !.pc = "loop"]
    BY <1>b, Zenon
  <2>2. S.run[k] \in RunType
    BY <1>3
  <2>. QED
    BY <2>1, <2>2 DEF RunType, SameRun, Woken
<1>7. \A e : e \in T.queue <=>
       \/ e \in S.queue /\ ~\E t \in told : e.key = KeyOf(S, t)
       \/ \E t \in told : e = Notice(S, t)
  BY <1>a, Zenon
<1>8. ASSUME NEW t \in told
      PROVE  Notice(S, t) \in NoticeShape
  <2>1. /\ S.store[t].gen \in Nat /\ S.store[t].token \in Runs /\ t \in Tasks
        /\ S.store[t].owner \in Tasks \cup {Main}
    BY <1>2, <1>3 DEF RowShape
  <2>2. Private(S, t) \in BOOLEAN
    BY DEF Private
  <2>. QED
    BY <2>1, <2>2 DEF Notice, KeyOf, NoticeShape
<1>9. Typed(T)
  <2>1. T.store \in [Tasks -> RowShape] /\ T.run \in [Runs -> RunType]
    <3>1. DOMAIN T.store = Tasks /\ \E f : T.store = [t \in Tasks |-> f[t]]
      BY <1>d, Zenon
    <3>2. DOMAIN T.run = Runs /\ \E f : T.run = [t \in Runs |-> f[t]]
      BY <1>d, Zenon
    <3>. QED
      BY <3>1, <3>2, <1>5, <1>6
  <2>2. T.queue \subseteq NoticeShape
    BY <1>7, <1>8 DEF Fine, Typed
  <2>3. T.posted \subseteq Runs /\ T.ctl \in [Tasks -> Runs \cup {NoRun}]
    BY <1>c, <1>2 DEF Fine, Typed
  <2>4. Minted(T)
    BY <1>5 DEF Fine, Typed, Minted, Present, SameRow
  <2>. QED
    BY <2>1, <2>2, <2>3, <2>4 DEF Typed
<1>10. told = Told(S, ts)
  BY DEF Told, told
<1>11. Concluded(S, T, ts, status)
  BY <1>c, <1>5, <1>6, <1>7, <1>10 DEF Concluded
<1>. QED
  BY <1>4, <1>9, <1>11 DEF T, Fine

\* A call that leaves the rows and the queue alone.
RowsStay(S, T) == T.store = S.store /\ T.queue = S.queue /\ T.posted = S.posted

LEMMA RunsFine ==
  ASSUME NEW S, Fine(S), NEW T, Good(T), RowsStay(S, T),
         T.run \in [Runs -> RunType], T.ctl \in [Tasks -> Runs \cup {NoRun}]
  PROVE  Fine(T)
BY DEF Fine, Typed, RowsStay, Minted, Present

\* What an abort does to the runs.
Aborts(S, T, ks) ==
  /\ RowsStay(S, T) /\ T.ctl = S.ctl
  /\ \A k \in Runs : /\ SameRun(S, T, k)
                     /\ T.run[k].pc = S.run[k].pc
                     /\ T.run[k].linked = S.run[k].linked
                     /\ S.run[k].aborted => T.run[k].aborted
                     /\ k \in ks => T.run[k].aborted

LEMMA AbortIs ==
  ASSUME NEW S, Fine(S), NEW ks
  PROVE  Fine(Abort(S, ks)) /\ Aborts(S, Abort(S, ks), ks)
<1>. DEFINE T == Abort(S, ks)
<1>1. /\ RowsStay(S, T) /\ T.ctl = S.ctl
      /\ T.run = [k \in Runs |->
           IF k \in AbortClosure(S, ks) THEN [S.run[k] EXCEPT !.aborted = TRUE] ELSE S.run[k]]
  BY DEF Abort, Fine, Good, Shape, RowsStay
<1>2. ks \cap Runs \subseteq AbortClosure(S, ks)
  BY DEF AbortClosure
<1>3. Good(T)
  BY AbortLeads, LeadsKeepsGood DEF Fine
<1>. HIDE DEF T
<1>4. ASSUME NEW k \in Runs
      PROVE  /\ T.run[k] \in RunType /\ SameRun(S, T, k)
             /\ T.run[k].pc = S.run[k].pc
             /\ T.run[k].linked = S.run[k].linked
             /\ S.run[k].aborted => T.run[k].aborted
             /\ k \in ks => T.run[k].aborted
  <2>1. S.run[k] \in RunType
    BY DEF Fine, Typed
  <2>2. \/ k \notin ks /\ T.run[k] = S.run[k]
        \/ T.run[k] = [S.run[k] EXCEPT !.aborted = TRUE]
    BY <1>1, <1>2
  <2>. QED
    BY <2>1, <2>2 DEF RunType, SameRun
<1>5. T.run \in [Runs -> RunType]
  BY <1>1, <1>4
<1>6. Fine(T)
  BY <1>1, <1>3, <1>5, RunsFine DEF Fine, Typed
<1>. QED
  BY <1>1, <1>4, <1>6 DEF T, Aborts

\* What a batch that is closed does to its calls.
Gates(S, T, cs, gate) ==
  /\ RowsStay(S, T) /\ T.ctl = S.ctl
  /\ \A k \in Runs : /\ T.run[k].task = S.run[k].task
                     /\ T.run[k].how = S.run[k].how
                     /\ T.run[k].pc = S.run[k].pc
                     /\ T.run[k].caller = S.run[k].caller
                     /\ T.run[k].linked = S.run[k].linked
                     /\ T.run[k].aborted = S.run[k].aborted
                     /\ T.run[k].outcome = S.run[k].outcome
                     /\ T.run[k].gate = IF k \in cs THEN gate ELSE S.run[k].gate

LEMMA GatedIs ==
  ASSUME NEW S, Fine(S), NEW cs, NEW gate \in {"none", "open", "committed", "lost"}
  PROVE  Fine(Gated(S, cs, gate)) /\ Gates(S, Gated(S, cs, gate), cs, gate)
<1>. DEFINE T == Gated(S, cs, gate)
<1>1. /\ RowsStay(S, T) /\ T.ctl = S.ctl
      /\ T.run = [k \in Runs |->
           IF k \in cs THEN [S.run[k] EXCEPT !.gate = gate] ELSE S.run[k]]
  BY DEF Gated, Fine, Good, Shape, RowsStay
<1>3. Good(T)
  BY GatedLeads, LeadsKeepsGood DEF Fine
<1>. HIDE DEF T
<1>4. ASSUME NEW k \in Runs
      PROVE  /\ T.run[k] \in RunType
             /\ T.run[k].task = S.run[k].task
             /\ T.run[k].how = S.run[k].how
             /\ T.run[k].pc = S.run[k].pc
             /\ T.run[k].caller = S.run[k].caller
             /\ T.run[k].linked = S.run[k].linked
             /\ T.run[k].aborted = S.run[k].aborted
             /\ T.run[k].outcome = S.run[k].outcome
             /\ T.run[k].gate = IF k \in cs THEN gate ELSE S.run[k].gate
  <2>1. S.run[k] \in RunType
    BY DEF Fine, Typed
  <2>2. \/ k \notin cs /\ T.run[k] = S.run[k]
        \/ k \in cs /\ T.run[k] = [S.run[k] EXCEPT !.gate = gate]
    BY <1>1
  <2>. QED
    BY <2>1, <2>2 DEF RunType
<1>5. T.run \in [Runs -> RunType]
  BY <1>1, <1>4
<1>6. Fine(T)
  BY <1>1, <1>3, <1>5, RunsFine DEF Fine, Typed
<1>. QED
  BY <1>1, <1>4, <1>6 DEF T, Gates

\* What an eviction leaves.
Evicts(S, T, ts) ==
  /\ T.queue = S.queue /\ T.posted = S.posted /\ T.run = S.run /\ T.ctl = S.ctl
  /\ \A t \in Tasks : /\ t \in ts => T.store[t] = Durable(S.store[t])
                      /\ t \notin ts => T.store[t] = S.store[t]
                      /\ T.store[t].kind = S.store[t].kind

LEMMA EvictedIs ==
  ASSUME NEW S, Fine(S), NEW ts, Removes
  PROVE  Fine(Evicted(S, ts)) /\ Evicts(S, Evicted(S, ts), ts)
<1>. DEFINE T == Evicted(S, ts)
<1>1. /\ T.queue = S.queue /\ T.posted = S.posted /\ T.run = S.run /\ T.ctl = S.ctl
      /\ T.store = [t \in Tasks |-> IF t \in ts THEN Durable(S.store[t]) ELSE S.store[t]]
  BY DEF Evicted, Fine, Good, Shape
<1>2. Good(T)
  BY EvictedLeads, LeadsKeepsGood DEF Fine
<1>. HIDE DEF T
<1>3. ASSUME NEW t \in Tasks
      PROVE  /\ T.store[t] \in RowShape
             /\ t \in ts => T.store[t] = Durable(S.store[t]) /\ ~Present(T, t)
             /\ t \notin ts => T.store[t] = S.store[t]
             /\ T.store[t].kind = S.store[t].kind
  <2>1. S.store[t] \in RowShape
    BY DEF Fine, Typed
  <2>2. CASE t \in ts
    <3>. DEFINE row == Row(S.store[t].kind, NoRun, "detached", TRUE, Main, Main)
    <3>1. /\ row \in RowShape
          /\ row.kind = S.store[t].kind
      BY <2>1 DEF Row, RowShape, Statuses
    <3>2. Durable(S.store[t]) = [row EXCEPT !.status = "evicted", !.halted = S.store[t].halted]
      BY DEF Durable
    <3>3. T.store[t] = Durable(S.store[t])
      BY <1>1, <2>2
    <3>. DEFINE halted == S.store[t].halted
    <3>4. halted \in {"no", "row", "disk"}
      BY <2>1 DEF RowShape
    <3>5. T.store[t] = [row EXCEPT !.status = "evicted", !.halted = halted]
      BY <3>2, <3>3
    <3>. HIDE DEF row, halted
    <3>6. /\ T.store[t] \in RowShape /\ T.store[t].kind = row.kind
          /\ T.store[t].status = "evicted"
      BY <3>1, <3>4, <3>5, ZenonT(40) DEF RowShape, Statuses
    <3>. QED
      BY <2>2, <3>1, <3>3, <3>6 DEF Present
  <2>. QED
    BY <1>1, <2>1, <2>2
<1>4. Typed(T)
  <2>1. T.store \in [Tasks -> RowShape]
    BY <1>1, <1>3
  <2>2. Minted(T)
    BY <1>3 DEF Fine, Typed, Minted, Present
  <2>. QED
    BY <1>1, <2>1, <2>2 DEF Fine, Typed
<1>. QED
  BY <1>1, <1>2, <1>3, <1>4 DEF T, Evicts, Fine

\* What happens to the shells of a fork that ends.
KillsShells(S, T, o) ==
  /\ T.queue = S.queue /\ T.posted = S.posted /\ T.ctl = S.ctl
  /\ \A t \in Tasks : /\ SameRow(S, T, t)
                      /\ T.store[t].owner = S.store[t].owner
                      /\ T.store[t].term = S.store[t].term
                      /\ \/ T.store[t] = S.store[t]
                         \/ /\ t \in ShellsOf(S, o)
                            /\ T.store[t].status = "killed" /\ T.store[t].notified
  /\ \A t \in ShellsOf(S, o) : T.store[t].status = "killed"
  /\ \A k \in Runs : /\ SameRun(S, T, k)
                     /\ T.run[k].aborted = S.run[k].aborted
                     /\ T.run[k].linked = S.run[k].linked
                     /\ \/ T.run[k].pc = S.run[k].pc
                        \/ /\ T.run[k].pc = "done"
                           /\ \E t \in ShellsOf(S, o) : S.store[t].token = k

LEMMA KillShellsIs ==
  ASSUME NEW S, Fine(S), NEW o
  PROVE  Fine(KillShellsForOwner(S, o)) /\ KillsShells(S, KillShellsForOwner(S, o), o)
<1>. DEFINE T == KillShellsForOwner(S, o)
            shells == ShellsOf(S, o)
<1>e. T.posted = S.posted /\ T.queue = S.queue /\ T.ctl = S.ctl
  BY DEF KillShellsForOwner, Fine, Good, Shape
<1>1. T.store = [t \in Tasks |->
           IF t \in shells THEN [S.store[t] EXCEPT !.status = "killed", !.notified = TRUE]
           ELSE S.store[t]]
  BY DEF KillShellsForOwner, Fine, Good, Shape
<1>2. T.run = [k \in Runs |->
           IF k \in {S.store[t].token : t \in shells} THEN [S.run[k] EXCEPT !.pc = "done"]
           ELSE S.run[k]]
  BY DEF KillShellsForOwner, Fine, Good, Shape
<1>3. shells \subseteq Tasks /\ \A t \in shells : S.store[t].status = "running"
  BY DEF ShellsOf, Running
<1>d. /\ T.store = [t \in Tasks |-> T.store[t]] /\ T.run = [k \in Runs |-> T.run[k]]
  BY DEF KillShellsForOwner, Fine, Good, Shape
<1>4. Good(T)
  BY KillShellsLeads, LeadsKeepsGood DEF Fine
<1>. HIDE DEF T, shells
<1>5. ASSUME NEW t \in Tasks
      PROVE  /\ T.store[t] \in RowShape
             /\ SameRow(S, T, t)
             /\ T.store[t].owner = S.store[t].owner
             /\ T.store[t].term = S.store[t].term
             /\ \/ t \notin shells /\ T.store[t] = S.store[t]
                \/ /\ t \in shells
                   /\ T.store[t].status = "killed" /\ T.store[t].notified
  <2>1. S.store[t] \in RowShape
    BY DEF Fine, Typed
  <2>2. \/ t \notin shells /\ T.store[t] = S.store[t]
        \/ t \in shells /\ T.store[t] = [S.store[t] EXCEPT !.status = "killed", !.notified = TRUE]
    BY <1>1, Zenon
  <2>. QED
    BY <2>1, <2>2 DEF RowShape, SameRow, Statuses
<1>6. ASSUME NEW k \in Runs
      PROVE  /\ T.run[k] \in RunType
             /\ SameRun(S, T, k)
             /\ T.run[k].aborted = S.run[k].aborted
             /\ T.run[k].linked = S.run[k].linked
             /\ \/ T.run[k].pc = S.run[k].pc
                \/ T.run[k].pc = "done" /\ \E t \in shells : S.store[t].token = k
  <2>1. S.run[k] \in RunType
    BY DEF Fine, Typed
  <2>2. \/ T.run[k] = S.run[k]
        \/ /\ \E t \in shells : S.store[t].token = k
           /\ T.run[k] = [S.run[k] EXCEPT !.pc = "done"]
    BY <1>2
  <2>3. CASE T.run[k] = S.run[k]
    BY <2>1, <2>3 DEF SameRun
  <2>4. CASE T.run[k] = [S.run[k] EXCEPT !.pc = "done"]
    <3>1. /\ T.run[k] \in RunType /\ SameRun(S, T, k)
          /\ T.run[k].aborted = S.run[k].aborted
          /\ T.run[k].linked = S.run[k].linked /\ T.run[k].pc = "done"
      BY <2>1, <2>4 DEF RunType, SameRun
    <3>. QED
      BY <2>2, <3>1
  <2>. QED
    BY <2>2, <2>3, <2>4
<1>7. Typed(T)
  <2>1. T.store \in [Tasks -> RowShape] /\ T.run \in [Runs -> RunType]
    BY <1>d, <1>5, <1>6
  <2>2. Minted(T)
    BY <1>5, <1>3 DEF Fine, Typed, Minted, Present, SameRow
  <2>3. /\ T.posted \subseteq Runs /\ T.queue \subseteq NoticeShape
        /\ T.ctl \in [Tasks -> Runs \cup {NoRun}]
    BY <1>e DEF Fine, Typed
  <2>. QED
    BY <2>1, <2>2, <2>3 DEF Typed
<1>8. shells = ShellsOf(S, o)
  BY DEF shells
<1>9. /\ \A t \in Tasks : /\ SameRow(S, T, t)
                          /\ T.store[t].owner = S.store[t].owner
                          /\ T.store[t].term = S.store[t].term
                          /\ \/ T.store[t] = S.store[t]
                             \/ /\ t \in shells
                                /\ T.store[t].status = "killed" /\ T.store[t].notified
      /\ \A t \in shells : T.store[t].status = "killed"
  BY <1>3, <1>5
<1>. QED
  BY <1>e, <1>4, <1>6, <1>7, <1>8, <1>9 DEF T, KillsShells, Fine

\* A notice that stays, or is handed on to another reader.
Carried(f, e, handed, owner) ==
  /\ e \in NoticeShape
  /\ e.key = f.key /\ e.token = f.token
  /\ e.owner = IF handed THEN owner ELSE f.owner
  /\ e.private = (f.private /\ ~handed)

\* What the last registration of an owner hands on.
Promotes(S, T, o) ==
  /\ T.posted = S.posted /\ T.ctl = S.ctl /\ T.run = S.run
  /\ \A t \in Tasks :
       /\ SameRow(S, T, t)
       /\ T.store[t].owner = S.store[t].owner
       /\ T.store[t].status = S.store[t].status
       /\ T.store[t].notified = S.store[t].notified
       /\ T.store[t].term =
            IF /\ S.store[t].owner = o
               /\ S.store[t].term = "owner"
               /\ \E e \in Inventory(S, o) : e.key = KeyOf(S, t)
            THEN "main" ELSE S.store[t].term
  /\ \A e \in T.queue : \E f \in S.queue : Carried(f, e, f \in Inventory(S, o), o)
  /\ \A f \in S.queue : \E e \in T.queue : Carried(f, e, f \in Inventory(S, o), o)

LEMMA PromoteIs ==
  ASSUME NEW S, Fine(S), NEW o, ~IsOwnerRegistered(S, o)
  PROVE  Fine(Promote(S, o)) /\ Promotes(S, Promote(S, o), o)
<1>. DEFINE T == Promote(S, o)
            has(t) == \E e \in Inventory(S, o) : e.key = KeyOf(S, t)
            handed(e) == IF e \in Inventory(S, o) THEN [e EXCEPT !.private = FALSE] ELSE e
<1>1. T.posted = S.posted /\ T.ctl = S.ctl /\ T.run = S.run
  BY DEF Promote, Fine, Good, Shape
<1>2. T.store = [t \in Tasks |->
             IF S.store[t].owner = o /\ S.store[t].term = "owner" /\ has(t)
             THEN [S.store[t] EXCEPT !.term = "main"] ELSE S.store[t]]
  BY DEF Promote, Fine, Good, Shape
<1>3. T.queue = {handed(e) : e \in S.queue}
  BY DEF Promote, Fine, Good, Shape
<1>4. Good(T)
  BY PromoteLeads, LeadsKeepsGood DEF Fine
<1>5. \A t : has(t) <=> \E e \in Inventory(S, o) : e.key = KeyOf(S, t)
  OBVIOUS
<1>6. ASSUME NEW f \in S.queue
      PROVE  Carried(f, handed(f), f \in Inventory(S, o), o)
  <2>1. f \in NoticeShape
    BY DEF Fine, Typed
  <2>2. CASE f \in Inventory(S, o)
    <3>1. f.owner = o /\ handed(f) = [f EXCEPT !.private = FALSE]
      BY <2>2 DEF Inventory
    <3>. HIDE DEF handed
    <3>. QED
      BY <2>1, <2>2, <3>1 DEF Carried, NoticeShape
  <2>3. CASE f \notin Inventory(S, o)
    <3>1. handed(f) = f
      BY <2>3
    <3>. HIDE DEF handed
    <3>. QED
      BY <2>1, <2>3, <3>1 DEF Carried, NoticeShape
  <2>. QED
    BY <2>2, <2>3
<1>. HIDE DEF T, has, handed
<1>7. ASSUME NEW t \in Tasks
      PROVE  /\ T.store[t] \in RowShape /\ SameRow(S, T, t)
             /\ T.store[t].owner = S.store[t].owner
             /\ T.store[t].status = S.store[t].status
             /\ T.store[t].notified = S.store[t].notified
             /\ T.store[t].term = IF S.store[t].owner = o /\ S.store[t].term = "owner" /\ has(t)
                                  THEN "main" ELSE S.store[t].term
  <2>1. S.store[t] \in RowShape
    BY DEF Fine, Typed
  <2>2. CASE S.store[t].owner = o /\ S.store[t].term = "owner" /\ has(t)
    <3>1. T.store[t] = [S.store[t] EXCEPT !.term = "main"]
      BY <1>2, <2>2
    <3>. QED
      BY <2>1, <2>2, <3>1 DEF RowShape, SameRow
  <2>3. CASE ~(S.store[t].owner = o /\ S.store[t].term = "owner" /\ has(t))
    <3>1. T.store[t] = S.store[t]
      BY <1>2, <2>3
    <3>. QED
      BY <2>1, <2>3, <3>1 DEF SameRow
  <2>. QED
    BY <2>2, <2>3
<1>8. /\ \A e \in T.queue : \E f \in S.queue : Carried(f, e, f \in Inventory(S, o), o)
      /\ \A f \in S.queue : \E e \in T.queue : Carried(f, e, f \in Inventory(S, o), o)
  BY <1>3, <1>6
<1>9. Typed(T)
  <2>1. T.store \in [Tasks -> RowShape]
    BY <1>2, <1>7
  <2>2. T.queue \subseteq NoticeShape
    BY <1>8 DEF Carried
  <2>3. Minted(T)
    BY <1>7 DEF Fine, Typed, Minted, Present, SameRow
  <2>. QED
    BY <1>1, <2>1, <2>2, <2>3 DEF Fine, Typed
<1>. QED
  BY <1>1, <1>4, <1>5, <1>7, <1>8, <1>9 DEF T, Promotes, Fine

\* What the walk does: it silences some rows and hands the notices of others to main.
Walks(S, T, killed, silenced, moves) ==
  /\ T.posted = S.posted /\ T.ctl = S.ctl /\ T.run = S.run
  /\ \A t \in Tasks :
       /\ SameRow(S, T, t)
       /\ T.store[t].owner = IF t \in moves THEN Main ELSE S.store[t].owner
       /\ t \in killed /\ t \in silenced =>
            T.store[t].status = "killed" /\ T.store[t].term = "discarded" /\ T.store[t].notified
       /\ t \notin killed \/ t \notin silenced =>
            /\ T.store[t].status = S.store[t].status
            /\ T.store[t].term = S.store[t].term
            /\ T.store[t].notified = S.store[t].notified
  /\ \A e \in T.queue : \E f \in S.queue :
       /\ ~\E t \in silenced : f.key = KeyOf(S, t)
       /\ Carried(f, e, \E t \in moves : f.key = KeyOf(S, t), Main)
  /\ \A f \in S.queue : (~\E t \in silenced : f.key = KeyOf(S, t)) =>
       \E e \in T.queue : Carried(f, e, \E t \in moves : f.key = KeyOf(S, t), Main)

LEMMA WalkedIs ==
  ASSUME NEW S, Fine(S), NEW killed \in SUBSET Tasks, NEW silenced, NEW moves, NEW byUser,
         moves \cap killed = {}, \A t \in killed : S.store[t].token \in Runs
  PROVE  Fine(Walked(S, killed, silenced, moves, byUser)) /\ Walks(S, Walked(S, killed, silenced, moves, byUser), killed, silenced, moves)
<1>. DEFINE T == Walked(S, killed, silenced, moves, byUser)
            row(t, halted) == [S.store[t] EXCEPT !.halted = halted]
            moved(f) == \E t \in moves : f.key = KeyOf(S, t)
            handed(f) == IF moved(f) THEN [f EXCEPT !.owner = Main, !.private = FALSE] ELSE f
<1>1. T.posted = S.posted /\ T.run = S.run /\ T.ctl = S.ctl
  BY DEF Walked, Fine, Good, Shape
<1>2. T.store = [t \in Tasks |-> T.store[t]]
  BY DEF Walked, Fine, Good, Shape
<1>3. T.queue = {handed(f) : f \in Withdraw(S, silenced)}
  BY DEF Walked, Fine, Good, Shape
<1>4. ASSUME NEW t \in Tasks
      PROVE  \E halted \in {"no", "row", "disk"} :
               \/ t \in killed /\ t \in silenced
                  /\ T.store[t] = [row(t, halted) EXCEPT !.status = "killed",
                                  !.term = "discarded", !.notified = TRUE]
               \/ t \in moves /\ t \notin killed
                  /\ T.store[t] = [row(t, halted) EXCEPT !.owner = Main, !.moved = TRUE]
               \/ ~(t \in killed /\ t \in silenced) /\ t \notin moves
                  /\ T.store[t] = row(t, halted)
  <2>. DEFINE halted == IF byUser /\ t \in killed THEN "row" ELSE S.store[t].halted
  <2>1. T.store[t] = IF t \in killed /\ t \in silenced
                THEN [row(t, halted) EXCEPT !.status = "killed", !.term = "discarded", !.notified = TRUE]
                ELSE IF t \in moves THEN [row(t, halted) EXCEPT !.owner = Main, !.moved = TRUE]
                ELSE row(t, halted)
    BY DEF Walked, Fine, Good, Shape
  <2>2. halted \in {"no", "row", "disk"}
    BY DEF Fine, Typed, RowShape
  <2>3. ~(t \in killed /\ t \in moves)
    OBVIOUS
  <2>. HIDE DEF T, row, halted
  <2>. QED
    BY <2>1, <2>2, <2>3
<1>5. Good(T)
  BY WalkLeads, LeadsKeepsGood DEF Fine
<1>. HIDE DEF T
<1>6. ASSUME NEW t \in Tasks
      PROVE  /\ T.store[t] \in RowShape /\ SameRow(S, T, t)
             /\ T.store[t].owner = IF t \in moves THEN Main ELSE S.store[t].owner
             /\ t \in killed /\ t \in silenced =>
                   T.store[t].status = "killed" /\ T.store[t].term = "discarded" /\ T.store[t].notified
             /\ t \notin killed \/ t \notin silenced =>
                   /\ T.store[t].status = S.store[t].status
                   /\ T.store[t].term = S.store[t].term
                   /\ T.store[t].notified = S.store[t].notified
  <2>1. PICK halted \in {"no", "row", "disk"} :
               \/ t \in killed /\ t \in silenced
                  /\ T.store[t] = [row(t, halted) EXCEPT !.status = "killed",
                                  !.term = "discarded", !.notified = TRUE]
               \/ t \in moves /\ t \notin killed
                  /\ T.store[t] = [row(t, halted) EXCEPT !.owner = Main, !.moved = TRUE]
               \/ ~(t \in killed /\ t \in silenced) /\ t \notin moves
                  /\ T.store[t] = row(t, halted)
    BY <1>4
  <2>2. S.store[t] \in RowShape
    BY DEF Fine, Typed
  <2>3. /\ row(t, halted) \in RowShape
        /\ row(t, halted).kind = S.store[t].kind /\ row(t, halted).gen = S.store[t].gen
        /\ row(t, halted).token = S.store[t].token /\ row(t, halted).mode = S.store[t].mode
        /\ row(t, halted).bg = S.store[t].bg /\ row(t, halted).parent = S.store[t].parent
        /\ row(t, halted).owner = S.store[t].owner /\ row(t, halted).status = S.store[t].status
        /\ row(t, halted).term = S.store[t].term /\ row(t, halted).notified = S.store[t].notified
    BY <2>2 DEF RowShape
  <2>. HIDE DEF row
  <2>4. CASE t \in killed /\ t \in silenced
    <3>1. T.store[t] = [row(t, halted) EXCEPT !.status = "killed",
                                  !.term = "discarded", !.notified = TRUE]
          /\ t \notin moves
      BY <2>1, <2>4
    <3>. QED
      BY <2>3, <2>4, <3>1, ZenonT(40) DEF RowShape, Statuses, SameRow
  <2>5. CASE t \in moves /\ t \notin killed
    <3>1. T.store[t] = [row(t, halted) EXCEPT !.owner = Main, !.moved = TRUE]
      BY <2>1, <2>5
    <3>. QED
      BY <2>3, <2>5, <3>1 DEF RowShape, SameRow
  <2>6. CASE ~(t \in killed /\ t \in silenced) /\ t \notin moves
    <3>1. T.store[t] = row(t, halted)
      BY <2>1, <2>6
    <3>. QED
      BY <2>3, <2>6, <3>1 DEF SameRow
  <2>. QED
    BY <2>4, <2>5, <2>6
<1>7. ASSUME NEW f \in S.queue
      PROVE  Carried(f, handed(f), moved(f), Main)
  <2>1. f \in NoticeShape
    BY DEF Fine, Typed
  <2>2. CASE moved(f)
    <3>1. handed(f) = [f EXCEPT !.owner = Main, !.private = FALSE]
      BY <2>2
    <3>. HIDE DEF handed, moved
    <3>. QED
      BY <2>1, <2>2, <3>1 DEF Carried, NoticeShape
  <2>3. CASE ~moved(f)
    <3>1. handed(f) = f
      BY <2>3
    <3>2. moved(f) \in BOOLEAN
      OBVIOUS
    <3>. HIDE DEF handed, moved
    <3>. QED
      BY <2>1, <2>3, <3>1, <3>2 DEF Carried, NoticeShape
  <2>. QED
    BY <2>2, <2>3
<1>8. /\ \A e \in T.queue : \E f \in S.queue :
              /\ ~\E t \in silenced : f.key = KeyOf(S, t)
              /\ Carried(f, e, moved(f), Main)
      /\ \A f \in S.queue : (~\E t \in silenced : f.key = KeyOf(S, t)) =>
              \E e \in T.queue : Carried(f, e, moved(f), Main)
  <2>. HIDE DEF handed, moved
  <2>. QED
    BY <1>3, <1>7 DEF Withdraw
<1>9. Typed(T)
  <2>1. T.store \in [Tasks -> RowShape]
    BY <1>2, <1>6
  <2>2. T.queue \subseteq NoticeShape
    BY <1>8 DEF Carried
  <2>3. Minted(T)
    BY <1>6 DEF Fine, Typed, Minted, Present, SameRow
  <2>. QED
    BY <1>1, <2>1, <2>2, <2>3 DEF Fine, Typed
<1>. QED
  BY <1>1, <1>5, <1>6, <1>8, <1>9 DEF T, Walks, Fine

\* What a walk from the root of run k stops, and what it is about to tell of.
Stops(S, k, force) == Stoppable(S, Tree(S, S.run[k].task, force), S.run[k].task, force)
Kills(S, k, force) == {t \in Stops(S, k, force) : S.store[t].status # "killed"}
Hushes(S, k, force, quiet) ==
  {t \in Stops(S, k, force) : t # S.run[k].task \/ quiet \/ S.store[t].mode = "linked"}
Moves(S, k, force) == IF force THEN {} ELSE Orphaned(S, Tree(S, S.run[k].task, force))

LEMMA StopsAre ==
  ASSUME NEW S, Fine(S), NEW k, S.run[k].task \in Tasks, Matches(S, k),
         NEW force \in BOOLEAN, NEW quiet \in BOOLEAN
  PROVE  /\ Stops(S, k, force) \subseteq Tasks
         /\ S.store[S.run[k].task].token = k /\ k \in Runs
         /\ \A t \in Stops(S, k, force) : S.store[t].token \in Runs
         /\ Running(S, S.run[k].task) => S.run[k].task \in Kills(S, k, force)
         /\ Moves(S, k, force) \cap Stops(S, k, force) = {}
         /\ \A t \in Moves(S, k, force) : t \in Tasks /\ Running(S, t)
         /\ \A t \in Stops(S, k, force) \ Kills(S, k, force) :
              t = S.run[k].task /\ force /\ S.store[t].status = "killed"
         /\ Kills(S, k, force) \ Hushes(S, k, force, quiet) \subseteq {S.run[k].task}
<1>. DEFINE r == S.run[k].task
            V == Tree(S, r, force)
<1>1. r \in Tasks /\ S.store[r].token = k /\ Present(S, r)
  BY DEF Matches
<1>2. V \subseteq Tasks /\ r \in V
  BY <1>1 DEF Tree
<1>3. \A t \in Stops(S, k, force) : t \in V /\ (Running(S, t) \/ (force /\ (t = r \/ WasParked(S, t))))
  BY DEF Stops, Stoppable
<1>4. \A t \in V : Running(S, t) => t \in Stops(S, k, force)
  BY DEF Stops, Stoppable
<1>5. \A t \in Tasks : Running(S, t) => S.store[t].status # "killed" /\ Present(S, t)
  BY DEF Running, Present
<1>6. \A t \in Tasks : WasParked(S, t) => S.store[t].status # "killed" /\ Present(S, t)
  BY DEF WasParked, Present
<1>7. \A t \in Tasks : Present(S, t) => S.store[t].token \in Runs
  BY DEF Fine, Typed, Minted
<1>8. Moves(S, k, force) \subseteq {c \in Tasks \ V : Running(S, c)}
  BY DEF Moves, Orphaned
<1>. HIDE DEF V, r
<1>9. \A t \in Stops(S, k, force) : S.store[t].token \in Runs
  BY <1>1, <1>2, <1>3, <1>5, <1>6, <1>7
<1>10. Running(S, r) => r \in Kills(S, k, force)
  BY <1>2, <1>4, <1>1, <1>5 DEF Kills
<1>11. \A t \in Stops(S, k, force) \ Kills(S, k, force) :
              t = r /\ force /\ S.store[t].status = "killed"
  BY <1>2, <1>3, <1>5, <1>6 DEF Kills
<1>12. Kills(S, k, force) \ Hushes(S, k, force, quiet) \subseteq {r}
  BY DEF Kills, Hushes, r
<1>. QED
  BY <1>1, <1>2, <1>3, <1>7, <1>8, <1>9, <1>10, <1>11, <1>12 DEF r

\* What cancelTaskTree does, but for the notices.
Cancelled(S, T, k, force, quiet) ==
  LET kills == Kills(S, k, force)
      hushes == Hushes(S, k, force, quiet)
      moves == Moves(S, k, force)
  IN  /\ \A t \in Tasks :
           /\ SameRow(S, T, t)
           /\ T.store[t].owner = IF t \in moves THEN Main ELSE S.store[t].owner
           /\ t \in kills => T.store[t].status = "killed"
           /\ t \notin kills => /\ T.store[t].status = S.store[t].status
                                /\ T.store[t].term = S.store[t].term
                                /\ T.store[t].notified = S.store[t].notified
           /\ T.ctl[t] = IF t \in kills THEN NoRun ELSE S.ctl[t]
           /\ t \in kills /\ S.ctl[t] \in Runs => T.run[S.ctl[t]].aborted
      /\ \A j \in Runs : /\ SameRun(S, T, j)
                         /\ Woken(S, T, j)
                         /\ T.run[j].linked = S.run[j].linked
                         /\ S.run[j].aborted => T.run[j].aborted

\* The walk of cancelTaskTree, what it tells, and the state between them.
CancelWalks(S, W, C, k, force, byUser, quiet) ==
  LET kills == Kills(S, k, force)
      hushes == Hushes(S, k, force, quiet)
  IN  /\ W = Walked(S, kills, hushes, Moves(S, k, force), byUser)
      /\ C = Conclude(W, kills \ hushes, [t \in Tasks |-> "killed"])

LEMMA CancelIs ==
  ASSUME NEW S, Fine(S), NEW k, S.run[k].task \in Tasks, Matches(S, k),
         NEW force \in BOOLEAN, NEW byUser, NEW quiet \in BOOLEAN
  PROVE  LET T == CancelTaskTree(S, k, force, byUser, quiet) IN
         /\ Fine(T) /\ Cancelled(S, T, k, force, quiet)
         /\ \E W, C : /\ CancelWalks(S, W, C, k, force, byUser, quiet)
                      /\ RowsStay(C, T)
                      /\ \A j \in Runs : SameRun(C, T, j) /\ T.run[j].pc = C.run[j].pc
<1>. DEFINE kills == Kills(S, k, force)
            hushes == Hushes(S, k, force, quiet)
            moves == Moves(S, k, force)
            W == Walked(S, kills, hushes, moves, byUser)
            all == [t \in Tasks |-> "killed"]
            C == Conclude(W, kills \ hushes, all)
            c == [t \in Tasks |-> IF t \in kills THEN NoRun ELSE C.ctl[t]]
            F == [C EXCEPT !.ctl = c]
            hit == {S.ctl[t] : t \in kills} \ {NoRun}
            T == CancelTaskTree(S, k, force, byUser, quiet)
<1>1. T = Abort(F, hit)
  BY DEF CancelTaskTree, Kills, Hushes, Moves, Stops
<1>2. /\ kills \subseteq Tasks /\ moves \cap kills = {}
      /\ \A t \in kills : S.store[t].token \in Runs
  BY StopsAre DEF Kills
<1>3. CancelWalks(S, W, C, k, force, byUser, quiet)
  BY DEF CancelWalks
<1>. HIDE DEF kills, hushes, moves, T
<1>4. /\ Fine(W) /\ W.posted = S.posted /\ W.ctl = S.ctl /\ W.run = S.run
      /\ \A t \in Tasks :
              /\ SameRow(S, W, t)
              /\ W.store[t].owner = IF t \in moves THEN Main ELSE S.store[t].owner
              /\ t \in kills /\ t \in hushes => W.store[t].status = "killed"
              /\ t \notin kills \/ t \notin hushes =>
                   /\ W.store[t].status = S.store[t].status
                   /\ W.store[t].term = S.store[t].term
                   /\ W.store[t].notified = S.store[t].notified
  <2>1. Fine(W) /\ Walks(S, W, kills, hushes, moves)
    BY <1>2, WalkedIs
  <2>. HIDE DEF W
  <2>. QED
    BY <2>1 DEF Walks
<1>. HIDE DEF W
<1>5. /\ Fine(C) /\ Concluded(W, C, kills \ hushes, all)
  <2>1. \A t \in kills \ hushes : all[t] \in Endings /\ W.store[t].token \in Runs
    BY <1>2, <1>4 DEF Endings, SameRow
  <2>2. kills \ hushes \in SUBSET Tasks
    BY <1>2
  <2>. HIDE DEF all
  <2>. QED
    BY <1>4, <2>1, <2>2, ConcludeIs
<1>6. \A t \in kills \ hushes : all[t] = "killed"
  BY <1>2
<1>. HIDE DEF C, all
<1>7. /\ RowsStay(C, F) /\ F.run = C.run
      /\ \A t \in Tasks : F.ctl[t] = IF t \in kills THEN NoRun ELSE C.ctl[t]
      /\ Fine(F)
  <2>1. C.run \in [Runs -> RunType] /\ C.ctl \in [Tasks -> Runs \cup {NoRun}]
    BY <1>5 DEF Fine, Typed
  <2>2. Good(F)
    BY <1>5, FreedLeads, LeadsKeepsGood DEF Fine
  <2>3. RowsStay(C, F) /\ F.run = C.run /\ F.ctl = c
    BY <1>5 DEF RowsStay, Fine, Good, Shape
  <2>4. c \in [Tasks -> Runs \cup {NoRun}]
    BY <2>1
  <2>5. Fine(F)
    <3>. HIDE DEF F, c
    <3>. QED
      BY <1>5, <2>1, <2>2, <2>3, <2>4, RunsFine
  <2>. QED
    BY <2>3, <2>5
<1>. HIDE DEF F, c
<1>8. /\ Fine(T) /\ RowsStay(F, T) /\ T.ctl = F.ctl
      /\ \A j \in Runs : /\ SameRun(F, T, j)
                         /\ T.run[j].pc = F.run[j].pc
                         /\ T.run[j].linked = F.run[j].linked
                         /\ F.run[j].aborted => T.run[j].aborted
                         /\ j \in hit => T.run[j].aborted
  BY <1>1, <1>7, AbortIs DEF Aborts
<1>9. ASSUME NEW t \in Tasks
      PROVE  /\ SameRow(S, T, t)
             /\ T.store[t].owner = IF t \in moves THEN Main ELSE S.store[t].owner
             /\ t \in kills => T.store[t].status = "killed"
             /\ t \notin kills => /\ T.store[t].status = S.store[t].status
                                  /\ T.store[t].term = S.store[t].term
                                  /\ T.store[t].notified = S.store[t].notified
             /\ T.ctl[t] = IF t \in kills THEN NoRun ELSE S.ctl[t]
             /\ t \in kills /\ S.ctl[t] \in Runs => T.run[S.ctl[t]].aborted
  <2>1. T.store[t] = C.store[t]
    BY <1>7, <1>8 DEF RowsStay
  <2>2. SameRow(W, C, t) /\ C.store[t].owner = W.store[t].owner
    BY <1>5 DEF Concluded
  <2>3. SameRow(S, T, t)
    BY <1>4, <2>1, <2>2 DEF SameRow
  <2>4. T.store[t].owner = IF t \in moves THEN Main ELSE S.store[t].owner
    BY <1>4, <2>1, <2>2
  <2>5. t \in kills => T.store[t].status = "killed"
    BY <1>4, <1>5, <1>6, <2>1 DEF Concluded
  <2>6. ASSUME t \notin kills
        PROVE  /\ T.store[t].status = S.store[t].status
               /\ T.store[t].term = S.store[t].term
               /\ T.store[t].notified = S.store[t].notified
    BY <1>4, <1>5, <2>1, <2>6 DEF Concluded
  <2>7. T.ctl[t] = IF t \in kills THEN NoRun ELSE S.ctl[t]
    BY <1>4, <1>5, <1>7, <1>8 DEF Concluded
  <2>8. ASSUME t \in kills, S.ctl[t] \in Runs
        PROVE  T.run[S.ctl[t]].aborted
    <3>1. S.ctl[t] \in hit
      BY <2>8, NoRunIsNone
    <3>. QED
      BY <1>8, <2>8, <3>1
  <2>. QED
    BY <2>3, <2>4, <2>5, <2>6, <2>7, <2>8
<1>10. ASSUME NEW j \in Runs
       PROVE  /\ SameRun(S, T, j) /\ Woken(S, T, j)
              /\ T.run[j].linked = S.run[j].linked
              /\ S.run[j].aborted => T.run[j].aborted
              /\ SameRun(C, T, j) /\ T.run[j].pc = C.run[j].pc
  BY <1>4, <1>5, <1>7, <1>8 DEF Concluded, SameRun, Woken
<1>11. Cancelled(S, T, k, force, quiet)
  BY <1>9, <1>10 DEF Cancelled, kills, moves
<1>12. RowsStay(C, T)
  BY <1>7, <1>8 DEF RowsStay
<1>. QED
  BY <1>3, <1>8, <1>10, <1>11, <1>12 DEF T

-----------------------------------------------------------------------------
(* The invariants.                                                          *)

\* A run that has begun has a task; before that it is of no kind.
Placed(S) ==
  \A k \in Runs : IF S.run[k].pc = "unborn" THEN S.run[k].how = "none" ELSE S.run[k].task \in Tasks

\* A notice names the run it was posted for.
NoticesArePosted(S) ==
  \A e \in S.queue : e.token \in S.posted /\ S.run[e.token].task = e.key.task

KeysAreUnique(S) == \A e, f \in S.queue : e.key = f.key => e = f

\* The notice of the run of a row is where the row says.
NoticesFit(S) ==
  \A e \in S.queue : LET t == e.key.task IN S.store[t].token = e.token =>
    /\ e.key = KeyOf(S, t)
    /\ e.owner = S.store[t].owner
    /\ S.store[t].term = IF e.private THEN "owner" ELSE "main"

OwnersWait(S) ==
  \A t \in Tasks : S.store[t].token \in Runs /\ S.store[t].term = "owner" =>
    \E e \in S.queue : e.token = S.store[t].token

ToldArePosted(S) ==
  \A t \in Tasks : S.store[t].token \in Runs /\ S.store[t].term \in {"owner", "main"} =>
    S.store[t].token \in S.posted

\* What is linked is an agent, and answers its caller.
LinkedAnswer(S) ==
  \A t \in Tasks : S.store[t].mode = "linked" =>
    Agent(S, t) /\ S.store[t].term \notin {"owner", "main"}

Matched(S) ==
  /\ NoticesArePosted(S) /\ KeysAreUnique(S) /\ NoticesFit(S)
  /\ OwnersWait(S) /\ ToldArePosted(S) /\ LinkedAnswer(S)

\* The run is over and its report is out.
Reported(S, k) == S.run[k].pc = "done" /\ S.run[k].gate \notin {"open", "lost"}

\* No row runs on for a reported run; K are the runs whose report is being made.
ReportsEnd(S, K) ==
  \A t \in Tasks : Running(S, t) /\ S.store[t].token \notin K => ~Reported(S, S.store[t].token)

Quiet(S, k) == S.run[k].pc \in {"prep", "settle", "done"}
Viewed(S, t) == \E j \in Runs : S.run[j].task = t /\ S.run[j].how = "view"

\* A stop of the task reaches the run of the row, or has reached it.
StopsHeard(S) ==
  \A t \in Tasks : Agent(S, t) /\ S.store[t].token \in Runs =>
    \/ Viewed(S, t)
    \/ S.run[S.store[t].token].aborted
    \/ Quiet(S, S.store[t].token)
    \/ S.store[t].status # "killed" /\ S.ctl[t] = S.store[t].token

Sound(S, K) ==
  Fine(S) /\ Placed(S) /\ Matched(S) /\ ReportsEnd(S, K) /\ StopsHeard(S)

\* A notice is determined by what it says.
LEMMA NoticesEqual ==
  ASSUME NEW e \in NoticeShape, NEW f \in NoticeShape, e.key = f.key, e.token = f.token,
         e.owner = f.owner, e.private = f.private
  PROVE  e = f
BY DEF NoticeShape

LEMMA KeysName ==
  ASSUME NEW S, NEW t, NEW u, KeyOf(S, t) = KeyOf(S, u)
  PROVE  t = u
BY DEF KeyOf

\* A row that has posted nothing for its run has no notice, nor one that runs.
LEMMA UntoldHasNoNotice ==
  ASSUME NEW S, Fine(S), Matched(S), NEW t \in Tasks, S.store[t].token \in Runs,
         NEW e \in S.queue, e.token = S.store[t].token
  PROVE  /\ e.key.task = t /\ S.store[t].notified /\ ~Running(S, t)
         /\ S.store[t].term \in {"owner", "main"}
         /\ e.key = KeyOf(S, t) /\ e.owner = S.store[t].owner
         /\ S.store[t].term = IF e.private THEN "owner" ELSE "main"
<1>1. S.run[e.token].task = e.key.task /\ e.token \in S.posted
  BY DEF Matched, NoticesArePosted
<1>2. e.key.task = t
  BY <1>1 DEF Fine, Good, TokensAreOwned
<1>3. /\ e.key = KeyOf(S, t) /\ e.owner = S.store[t].owner
      /\ S.store[t].term = IF e.private THEN "owner" ELSE "main"
  BY <1>2 DEF Matched, NoticesFit
<1>4. S.store[t].notified
  BY <1>1 DEF Fine, Good, UntoldIsUnposted
<1>5. ~Running(S, t)
  BY <1>3 DEF Fine, Good, RunsAreFresh, Running
<1>. QED
  BY <1>2, <1>3, <1>4, <1>5

LEMMA ConcludeMatched ==
  ASSUME NEW S, Fine(S), Matched(S), NEW ts \in SUBSET Tasks, NEW T, NEW status,
         Concluded(S, T, ts, status), \A t \in ts : S.store[t].token \in Runs,
         \A t \in ts : Answers(S, t) => Running(S, t)
  PROVE  Matched(T)
<1>. DEFINE told == Told(S, ts)
<1>1. /\ told \subseteq ts
      /\ \A t \in told : ~S.store[t].notified /\ ~Answers(S, t) /\ S.store[t].token \notin S.posted
  BY DEF Told, Notifies, Fine, Good, UntoldIsUnposted
<1>2. /\ \A t \in Tasks : T.store[t].token = S.store[t].token /\ T.store[t].gen = S.store[t].gen
                          /\ T.store[t].owner = S.store[t].owner /\ T.store[t].mode = S.store[t].mode
                          /\ T.store[t].kind = S.store[t].kind
      /\ \A k \in Runs : T.run[k].task = S.run[k].task
      /\ T.posted = S.posted \cup {S.store[t].token : t \in told}
  BY DEF Concluded, SameRow, SameRun
<1>3. \A e : e \in T.queue <=>
       \/ e \in S.queue /\ ~\E t \in told : e.key = KeyOf(S, t)
       \/ \E t \in told : e = Notice(S, t)
  BY DEF Concluded
<1>4. ASSUME NEW t \in Tasks
      PROVE  /\ t \notin ts => T.store[t].term = S.store[t].term
             /\ t \in ts /\ Answers(S, t) => T.store[t].term = "parent"
             /\ t \in told => T.store[t].term = IF Private(S, t) THEN "owner" ELSE "main"
             /\ t \in ts /\ ~Answers(S, t) /\ t \notin told => T.store[t].term = S.store[t].term
  BY DEF Concluded
<1>5. \A t \in Tasks : KeyOf(T, t) = KeyOf(S, t)
  BY <1>2 DEF KeyOf
<1>6. ASSUME NEW t \in told
      PROVE  /\ Notice(S, t).key = KeyOf(S, t) /\ Notice(S, t).token = S.store[t].token
             /\ Notice(S, t).owner = S.store[t].owner /\ Notice(S, t).private = Private(S, t)
             /\ Notice(S, t).key.task = t
  BY DEF Notice, KeyOf
<1>7. \A e \in S.queue : e.token \in Runs /\ e.key.task \in Tasks
  BY DEF Fine, Typed, NoticeShape
<1>. HIDE DEF told
<1>8. NoticesArePosted(T)
  <2>1. ASSUME NEW e \in S.queue
        PROVE  e.token \in T.posted /\ T.run[e.token].task = e.key.task
    BY <1>2, <1>7 DEF Matched, NoticesArePosted
  <2>2. ASSUME NEW t \in told
        PROVE  Notice(S, t).token \in T.posted /\ T.run[Notice(S, t).token].task = Notice(S, t).key.task
    BY <1>1, <1>2, <1>6 DEF Fine, Good, TokensAreOwned
  <2>. QED
    BY <1>3, <2>1, <2>2 DEF NoticesArePosted
<1>9. KeysAreUnique(T)
  <2>. SUFFICES ASSUME NEW e \in T.queue, NEW f \in T.queue, e.key = f.key PROVE e = f
    BY DEF KeysAreUnique
  <2>1. CASE e \in S.queue /\ f \in S.queue
    BY <2>1 DEF Matched, KeysAreUnique
  <2>2. ASSUME NEW t \in told, e = Notice(S, t)
        PROVE  f = e
    <3>1. f.key = KeyOf(S, t)
      BY <1>6, <2>2
    <3>2. PICK u \in told : f = Notice(S, u)
      BY <1>3, <3>1
    <3>3. u = t
      BY <1>6, <3>1, <3>2, KeysName
    <3>. QED
      BY <2>2, <3>2, <3>3
  <2>3. ASSUME NEW t \in told, f = Notice(S, t)
        PROVE  f = e
    <3>1. e.key = KeyOf(S, t)
      BY <1>6, <2>3
    <3>2. PICK u \in told : e = Notice(S, u)
      BY <1>3, <3>1
    <3>3. u = t
      BY <1>6, <3>1, <3>2, KeysName
    <3>. QED
      BY <2>3, <3>2, <3>3
  <2>. QED
    BY <1>3, <2>1, <2>2, <2>3
<1>10. NoticesFit(T)
  <2>. SUFFICES ASSUME NEW e \in T.queue, T.store[e.key.task].token = e.token
                PROVE  /\ e.key = KeyOf(T, e.key.task)
                       /\ e.owner = T.store[e.key.task].owner
                       /\ T.store[e.key.task].term = IF e.private THEN "owner" ELSE "main"
    BY DEF NoticesFit
  <2>1. CASE e \in S.queue
    <3>. DEFINE t == e.key.task
    <3>1. t \in Tasks /\ e.token \in Runs /\ S.store[t].token = e.token
      BY <1>2, <1>7, <2>1
    <3>. HIDE DEF t
    <3>2. /\ e.key = KeyOf(S, t) /\ e.owner = S.store[t].owner /\ ~Running(S, t)
          /\ S.store[t].term = IF e.private THEN "owner" ELSE "main"
          /\ S.store[t].notified
      BY <2>1, <3>1, UntoldHasNoNotice
    <3>3. t \notin told /\ (t \in ts => ~Answers(S, t))
      BY <1>1, <3>2
    <3>4. T.store[t].term = S.store[t].term
      BY <1>4, <3>1, <3>3
    <3>. QED
      BY <1>2, <1>5, <3>1, <3>2, <3>4 DEF t
  <2>2. ASSUME NEW t \in told, e = Notice(S, t)
        PROVE  /\ e.key = KeyOf(T, e.key.task)
               /\ e.owner = T.store[e.key.task].owner
               /\ T.store[e.key.task].term = IF e.private THEN "owner" ELSE "main"
    BY <1>1, <1>2, <1>4, <1>5, <1>6, <2>2
  <2>. QED
    BY <1>3, <2>1, <2>2
<1>11. OwnersWait(T)
  <2>. SUFFICES ASSUME NEW t \in Tasks, T.store[t].token \in Runs, T.store[t].term = "owner"
                PROVE  \E e \in T.queue : e.token = T.store[t].token
    BY DEF OwnersWait
  <2>1. CASE t \in told
    <3>1. Notice(S, t) \in T.queue
      BY <1>3, <2>1
    <3>. QED
      BY <1>2, <1>6, <2>1, <3>1
  <2>2. CASE t \notin told
    <3>1. S.store[t].term = "owner" /\ S.store[t].token \in Runs
      BY <1>2, <1>4, <2>2
    <3>2. PICK e \in S.queue : e.token = S.store[t].token
      BY <3>1 DEF Matched, OwnersWait
    <3>3. e.key = KeyOf(S, t)
      BY <3>1, <3>2, UntoldHasNoNotice
    <3>4. e \in T.queue
      BY <1>3, <2>2, <3>3, KeysName
    <3>. QED
      BY <1>2, <3>2, <3>4
  <2>. QED
    BY <2>1, <2>2
<1>12. ToldArePosted(T)
  <2>. SUFFICES ASSUME NEW t \in Tasks, T.store[t].token \in Runs,
                       T.store[t].term \in {"owner", "main"}
                PROVE  T.store[t].token \in T.posted
    BY DEF ToldArePosted
  <2>1. CASE t \in told
    BY <1>2, <2>1
  <2>2. CASE t \notin told
    BY <1>2, <1>4, <2>2 DEF Matched, ToldArePosted
  <2>. QED
    BY <2>1, <2>2
<1>13. LinkedAnswer(T)
  <2>. SUFFICES ASSUME NEW t \in Tasks, T.store[t].mode = "linked"
                PROVE  T.store[t].kind = "agent" /\ T.store[t].term \notin {"owner", "main"}
    BY DEF LinkedAnswer, Agent
  <2>1. S.store[t].kind = "agent" /\ S.store[t].term \notin {"owner", "main"} /\ Answers(S, t)
    BY <1>2 DEF Matched, LinkedAnswer, Agent, Answers
  <2>. QED
    BY <1>1, <1>2, <1>4, <2>1
<1>. QED
  BY <1>8, <1>9, <1>10, <1>11, <1>12, <1>13 DEF Matched

\* A call that posts and hands on nothing, and closes rows at most.
LEMMA RowsMatched ==
  ASSUME NEW S, Fine(S), Matched(S), NEW T, T.queue = S.queue, T.posted = S.posted,
         \A k \in Runs : T.run[k].task = S.run[k].task,
         \A t \in Tasks :
           \/ T.store[t].token = NoRun /\ T.store[t].mode = "detached"
           \/ /\ T.store[t].token = S.store[t].token /\ T.store[t].gen = S.store[t].gen
              /\ T.store[t].owner = S.store[t].owner /\ T.store[t].term = S.store[t].term
              /\ T.store[t].mode = S.store[t].mode /\ T.store[t].kind = S.store[t].kind
  PROVE  Matched(T)
<1>. USE NoRunIsNone
<1>1. \A e \in S.queue : e.token \in Runs /\ e.key.task \in Tasks
  BY DEF Fine, Typed, NoticeShape
<1>2. NoticesArePosted(T) /\ KeysAreUnique(T)
  BY <1>1 DEF Matched, NoticesArePosted, KeysAreUnique
<1>3. NoticesFit(T)
  BY <1>1 DEF Matched, NoticesFit, KeyOf
<1>4. OwnersWait(T)
  BY DEF Matched, OwnersWait
<1>5. ToldArePosted(T)
  BY DEF Matched, ToldArePosted
<1>6. LinkedAnswer(T)
  BY DEF Matched, LinkedAnswer, Agent
<1>. QED
  BY <1>2, <1>3, <1>4, <1>5, <1>6 DEF Matched

LEMMA CarriedOnce ==
  ASSUME NEW f, NEW e, NEW g, NEW handed, NEW owner,
         Carried(f, e, handed, owner), Carried(f, g, handed, owner)
  PROVE  e = g
BY NoticesEqual DEF Carried

LEMMA WalkMatched ==
  ASSUME NEW S, Fine(S), Matched(S), NEW killed \in SUBSET Tasks, NEW silenced \in SUBSET Tasks,
         NEW moves \in SUBSET Tasks, NEW T, Walks(S, T, killed, silenced, moves),
         \A t \in moves : Running(S, t),
         \A t \in silenced : S.store[t].token \in Runs,
         \A t \in silenced \ killed : S.store[t].mode = "linked"
  PROVE  Matched(T)
<1>. DEFINE moved(f) == \E t \in moves : f.key = KeyOf(S, t)
            gone(f) == \E t \in silenced : f.key = KeyOf(S, t)
<1>1. \A e \in T.queue : \E f \in S.queue : ~gone(f) /\ Carried(f, e, moved(f), Main)
  BY DEF Walks
<1>2. \A f \in S.queue : ~gone(f) => \E e \in T.queue : Carried(f, e, moved(f), Main)
  BY DEF Walks
<1>3. /\ T.posted = S.posted /\ T.run = S.run
      /\ \A t \in Tasks :
           /\ T.store[t].token = S.store[t].token /\ T.store[t].gen = S.store[t].gen
           /\ T.store[t].mode = S.store[t].mode /\ T.store[t].kind = S.store[t].kind
           /\ T.store[t].owner = IF t \in moves THEN Main ELSE S.store[t].owner
           /\ t \in killed /\ t \in silenced => T.store[t].term = "discarded"
           /\ t \notin killed \/ t \notin silenced => T.store[t].term = S.store[t].term
  BY DEF Walks, SameRow
<1>4. \A f \in S.queue : f.token \in Runs /\ f.key.task \in Tasks
  BY DEF Fine, Typed, NoticeShape
<1>5. ASSUME NEW t \in Tasks, NEW f \in S.queue, S.store[t].token = f.token
      PROVE  /\ f.key.task = t /\ f.key = KeyOf(S, t) /\ f.owner = S.store[t].owner
             /\ t \notin moves /\ ~moved(f)
             /\ gone(f) <=> t \in silenced
             /\ S.store[t].term = IF f.private THEN "owner" ELSE "main"
  <2>1. /\ f.key.task = t /\ f.key = KeyOf(S, t) /\ f.owner = S.store[t].owner /\ ~Running(S, t)
        /\ S.store[t].term = IF f.private THEN "owner" ELSE "main"
    BY <1>4, <1>5, UntoldHasNoNotice
  <2>2. t \notin moves
    BY <2>1
  <2>3. \A u : f.key = KeyOf(S, u) => u = t
    BY <2>1, KeysName
  <2>. QED
    BY <2>1, <2>2, <2>3
<1>6. ASSUME NEW f, NEW e, Carried(f, e, moved(f), Main)
      PROVE  /\ e.key = f.key /\ e.token = f.token
             /\ ~moved(f) => e.owner = f.owner
             /\ e.private <=> f.private /\ ~moved(f)
  <2>. HIDE DEF moved
  <2>. QED
    BY <1>6 DEF Carried
<1>. HIDE DEF moved, gone
<1>7. NoticesArePosted(T)
  BY <1>1, <1>3, <1>4, <1>6 DEF Matched, NoticesArePosted
<1>8. KeysAreUnique(T)
  <2>. SUFFICES ASSUME NEW e \in T.queue, NEW g \in T.queue, e.key = g.key PROVE e = g
    BY DEF KeysAreUnique
  <2>1. PICK f \in S.queue : Carried(f, e, moved(f), Main)
    BY <1>1
  <2>2. PICK h \in S.queue : Carried(h, g, moved(h), Main)
    BY <1>1
  <2>3. f = h
    BY <1>6, <2>1, <2>2 DEF Matched, KeysAreUnique
  <2>. QED
    BY <2>1, <2>2, <2>3, CarriedOnce
<1>9. NoticesFit(T)
  <2>. SUFFICES ASSUME NEW e \in T.queue, T.store[e.key.task].token = e.token
                PROVE  /\ e.key = KeyOf(T, e.key.task)
                       /\ e.owner = T.store[e.key.task].owner
                       /\ T.store[e.key.task].term = IF e.private THEN "owner" ELSE "main"
    BY DEF NoticesFit
  <2>1. PICK f \in S.queue : ~gone(f) /\ Carried(f, e, moved(f), Main)
    BY <1>1
  <2>2. e.key = f.key /\ e.token = f.token /\ f.key.task \in Tasks
    BY <1>4, <1>6, <2>1
  <2>3. S.store[f.key.task].token = f.token
    BY <1>3, <2>2
  <2>4. /\ f.key = KeyOf(S, f.key.task) /\ f.owner = S.store[f.key.task].owner
        /\ f.key.task \notin moves /\ ~moved(f) /\ f.key.task \notin silenced
        /\ S.store[f.key.task].term = IF f.private THEN "owner" ELSE "main"
    BY <1>5, <2>1, <2>2, <2>3
  <2>5. e.owner = f.owner /\ (e.private <=> f.private)
    BY <1>6, <2>1, <2>4
  <2>6. KeyOf(T, f.key.task) = KeyOf(S, f.key.task)
    BY <1>3, <2>2 DEF KeyOf
  <2>. QED
    BY <1>3, <2>2, <2>4, <2>5, <2>6
<1>10. OwnersWait(T)
  <2>. SUFFICES ASSUME NEW t \in Tasks, T.store[t].token \in Runs, T.store[t].term = "owner"
                PROVE  \E e \in T.queue : e.token = T.store[t].token
    BY DEF OwnersWait
  <2>1. S.store[t].token = T.store[t].token /\ S.store[t].term = "owner"
    BY <1>3
  <2>2. PICK f \in S.queue : f.token = S.store[t].token
    BY <2>1 DEF Matched, OwnersWait
  <2>3. t \notin silenced
    <3>1. S.store[t].mode # "linked"
      BY <2>1 DEF Matched, LinkedAnswer
    <3>2. t \notin killed \/ t \notin silenced
      BY <1>3
    <3>. QED
      BY <3>1, <3>2
  <2>4. ~gone(f)
    BY <1>5, <2>2, <2>3
  <2>. QED
    BY <1>2, <1>6, <2>1, <2>2, <2>4
<1>11. ToldArePosted(T)
  BY <1>3 DEF Matched, ToldArePosted
<1>12. LinkedAnswer(T)
  BY <1>3 DEF Matched, LinkedAnswer, Agent
<1>. QED
  BY <1>7, <1>8, <1>9, <1>10, <1>11, <1>12 DEF Matched

LEMMA PromoteMatched ==
  ASSUME NEW S, Fine(S), Matched(S), NEW o, NEW T, Promotes(S, T, o)
  PROVE  Matched(T)
<1>. DEFINE handed(f) == f \in Inventory(S, o)
<1>1. \A e \in T.queue : \E f \in S.queue : Carried(f, e, handed(f), o)
  BY DEF Promotes
<1>2. \A f \in S.queue : \E e \in T.queue : Carried(f, e, handed(f), o)
  BY DEF Promotes
<1>3. /\ T.posted = S.posted /\ T.run = S.run
      /\ \A t \in Tasks :
           /\ T.store[t].token = S.store[t].token /\ T.store[t].gen = S.store[t].gen
           /\ T.store[t].mode = S.store[t].mode /\ T.store[t].kind = S.store[t].kind
           /\ T.store[t].owner = S.store[t].owner
           /\ T.store[t].term =
                IF /\ S.store[t].owner = o
                   /\ S.store[t].term = "owner"
                   /\ \E e \in Inventory(S, o) : e.key = KeyOf(S, t)
                THEN "main" ELSE S.store[t].term
  BY DEF Promotes, SameRow
<1>4. \A f \in S.queue : f.token \in Runs /\ f.key.task \in Tasks
  BY DEF Fine, Typed, NoticeShape
<1>5. \A f \in S.queue : handed(f) <=> f.owner = o /\ f.private
  BY DEF Inventory
<1>6. ASSUME NEW f, NEW e, Carried(f, e, handed(f), o)
      PROVE  /\ e.key = f.key /\ e.token = f.token
             /\ e.owner = IF handed(f) THEN o ELSE f.owner
             /\ e.private <=> f.private /\ ~handed(f)
  BY <1>6 DEF Carried
<1>. HIDE DEF handed
<1>7. NoticesArePosted(T)
  BY <1>1, <1>3, <1>4, <1>6 DEF Matched, NoticesArePosted
<1>8. KeysAreUnique(T)
  <2>. SUFFICES ASSUME NEW e \in T.queue, NEW g \in T.queue, e.key = g.key PROVE e = g
    BY DEF KeysAreUnique
  <2>1. PICK f \in S.queue : Carried(f, e, handed(f), o)
    BY <1>1
  <2>2. PICK h \in S.queue : Carried(h, g, handed(h), o)
    BY <1>1
  <2>3. f = h
    BY <1>6, <2>1, <2>2 DEF Matched, KeysAreUnique
  <2>. QED
    BY <2>1, <2>2, <2>3, CarriedOnce
<1>9. NoticesFit(T)
  <2>. SUFFICES ASSUME NEW e \in T.queue, T.store[e.key.task].token = e.token
                PROVE  /\ e.key = KeyOf(T, e.key.task)
                       /\ e.owner = T.store[e.key.task].owner
                       /\ T.store[e.key.task].term = IF e.private THEN "owner" ELSE "main"
    BY DEF NoticesFit
  <2>1. PICK f \in S.queue : Carried(f, e, handed(f), o)
    BY <1>1
  <2>. DEFINE t == f.key.task
  <2>2. e.key = f.key /\ e.token = f.token /\ t \in Tasks
    BY <1>4, <1>6, <2>1
  <2>3. S.store[t].token = f.token /\ f.token \in Runs
    BY <1>3, <1>4, <2>2
  <2>. HIDE DEF t
  <2>4. /\ f.key = KeyOf(S, t) /\ f.owner = S.store[t].owner
        /\ S.store[t].term = IF f.private THEN "owner" ELSE "main"
    BY <2>2, <2>3, UntoldHasNoNotice
  <2>5. KeyOf(T, t) = KeyOf(S, t)
    BY <1>3, <2>2 DEF KeyOf
  <2>6. CASE handed(f)
    <3>1. f.owner = o /\ f.private /\ S.store[t].term = "owner"
      BY <1>5, <2>4, <2>6
    <3>2. T.store[t].term = "main"
      BY <1>3, <2>2, <2>4, <2>6, <3>1 DEF handed
    <3>3. e.owner = o /\ ~e.private
      BY <1>6, <2>1, <2>6
    <3>4. e.key.task = t /\ e.key = KeyOf(T, t) /\ T.store[t].owner = o
      BY <1>3, <2>2, <2>4, <2>5, <3>1 DEF t
    <3>. QED
      BY <3>2, <3>3, <3>4
  <2>7. CASE ~handed(f)
    <3>1. e.owner = f.owner /\ (e.private <=> f.private)
      BY <1>6, <2>1, <2>7
    <3>2. T.store[t].term = S.store[t].term
      BY <1>3, <1>5, <2>2, <2>4, <2>7
    <3>. QED
      BY <1>3, <2>2, <2>4, <2>5, <3>1, <3>2 DEF t
  <2>. QED
    BY <2>6, <2>7
<1>10. OwnersWait(T)
  BY <1>2, <1>3, <1>6 DEF Matched, OwnersWait
<1>11. ToldArePosted(T)
  BY <1>3 DEF Matched, ToldArePosted
<1>12. LinkedAnswer(T)
  BY <1>3 DEF Matched, LinkedAnswer, Agent
<1>. QED
  BY <1>7, <1>8, <1>9, <1>10, <1>11, <1>12 DEF Matched

-----------------------------------------------------------------------------
(* The calls keep what is sound.                                            *)

\* A run keeps its task, its kind and its abort, and does not begin anew.
Ongoing(S, T, k) ==
  /\ T.run[k].task = S.run[k].task /\ T.run[k].how = S.run[k].how
  /\ T.run[k].pc = "unborn" <=> S.run[k].pc = "unborn"
  /\ S.run[k].aborted => T.run[k].aborted
  /\ Quiet(S, k) => Quiet(T, k)

\* The controller of a row is let go only by a stop, or with the run.
Steers(S, T, t) ==
  LET k == S.store[t].token IN
  S.store[t].status # "killed" /\ S.ctl[t] = k =>
    \/ T.store[t].status # "killed" /\ T.ctl[t] = k
    \/ T.run[k].aborted
    \/ Quiet(T, k)

LEMMA RunsKept ==
  ASSUME NEW S, NEW T, Placed(S), StopsHeard(S), Fine(T),
         \A k \in Runs : Ongoing(S, T, k),
         \A t \in Tasks : \/ T.store[t].token = NoRun
                          \/ /\ T.store[t].kind = S.store[t].kind
                             /\ T.store[t].token = S.store[t].token
                             /\ Agent(S, t) => Steers(S, T, t)
  PROVE  Placed(T) /\ StopsHeard(T)
<1>1. Placed(T)
  BY DEF Placed, Ongoing
<1>2. StopsHeard(T)
  <2>. SUFFICES ASSUME NEW t \in Tasks, Agent(T, t), T.store[t].token \in Runs
                PROVE  \/ Viewed(T, t)
                       \/ T.run[T.store[t].token].aborted
                       \/ Quiet(T, T.store[t].token)
                       \/ T.store[t].status # "killed" /\ T.ctl[t] = T.store[t].token
    BY DEF StopsHeard
  <2>1. /\ Agent(S, t) /\ T.store[t].token = S.store[t].token /\ S.store[t].token \in Runs
        /\ Steers(S, T, t)
    BY NoRunIsNone DEF Agent
  <2>2. Ongoing(S, T, S.store[t].token)
    BY <2>1
  <2>3. Viewed(S, t) => Viewed(T, t)
    BY DEF Viewed, Ongoing
  <2>4. \/ Viewed(S, t)
        \/ S.run[S.store[t].token].aborted
        \/ Quiet(S, S.store[t].token)
        \/ S.store[t].status # "killed" /\ S.ctl[t] = S.store[t].token
    BY <2>1 DEF StopsHeard
  <2>. QED
    BY <2>1, <2>2, <2>3, <2>4 DEF Ongoing, Steers
<1>. QED
  BY <1>1, <1>2

\* The rows of these runs end; a stop is not told this way to an agent.
LEMMA ConcludeSound ==
  ASSUME NEW S, NEW K, Sound(S, K), NEW ks, NEW status,
         \A t \in Current(S, ks) : /\ status[t] \in Endings
                                   /\ Agent(S, t) => status[t] # "killed"
  PROVE  Sound(Conclude(S, Current(S, ks), status), K \ ks)
<1>. DEFINE ts == Current(S, ks)
            T == Conclude(S, ts, status)
<1>1. /\ ts \in SUBSET Tasks
      /\ \A t \in ts : Running(S, t) /\ S.store[t].token \in Runs /\ S.store[t].token \in ks
      /\ \A t \in Tasks : Running(S, t) /\ S.store[t].token \in ks => t \in ts
  BY DEF Current, Sound, Fine, Good, RunsAreFresh, Running
<1>2. Fine(S) /\ Matched(S) /\ Placed(S) /\ StopsHeard(S) /\ ReportsEnd(S, K)
  BY DEF Sound
<1>h. \A t \in ts : /\ status[t] \in Endings
                    /\ Agent(S, t) => status[t] # "killed"
  OBVIOUS
<1>. HIDE DEF ts
<1>3. Concluded(S, T, ts, status) /\ Fine(T)
  BY <1>1, <1>2, <1>h, ConcludeIs
<1>. HIDE DEF T
<1>4. Matched(T)
  BY <1>1, <1>2, <1>3, ConcludeMatched
<1>5. ASSUME NEW k \in Runs
      PROVE  Ongoing(S, T, k) /\ (Reported(T, k) => Reported(S, k))
  <2>1. SameRun(S, T, k) /\ Woken(S, T, k) /\ T.run[k].aborted = S.run[k].aborted
    BY <1>3 DEF Concluded
  <2>. QED
    BY <2>1 DEF Ongoing, SameRun, Woken, Quiet, Reported
<1>6. ASSUME NEW t \in Tasks
      PROVE  /\ T.store[t].kind = S.store[t].kind /\ T.store[t].token = S.store[t].token
             /\ Agent(S, t) => Steers(S, T, t)
             /\ Running(T, t) => Running(S, t) /\ t \notin ts
  <2>1. SameRow(S, T, t) /\ T.ctl = S.ctl
        /\ (t \notin ts => T.store[t] = S.store[t]) /\ (t \in ts => T.store[t].status = status[t])
    BY <1>3 DEF Concluded
  <2>. QED
    BY <2>1, <1>h DEF SameRow, Steers, Running, Endings
<1>7. Placed(T) /\ StopsHeard(T)
  BY <1>2, <1>3, <1>5, <1>6, RunsKept
<1>8. ReportsEnd(T, K \ ks)
  BY <1>1, <1>2, <1>5, <1>6 DEF ReportsEnd, Fine, Good, RunsAreFresh, Running
<1>. QED
  BY <1>3, <1>4, <1>7, <1>8 DEF Sound, T, ts

LEMMA FinishSound ==
  ASSUME NEW S, NEW K, Sound(S, K), NEW ks, NEW status \in Endings,
         \A t \in Current(S, ks) : Agent(S, t) => status # "killed"
  PROVE  Sound(Finish(S, ks, status), K \ ks)
<1>. DEFINE all == [t \in Tasks |-> status]
<1>1. \A t \in Current(S, ks) : all[t] = status
  BY DEF Current
<1>. HIDE DEF all
<1>2. Sound(Conclude(S, Current(S, ks), all), K \ ks)
  BY <1>1, ConcludeSound
<1>. QED
  BY <1>2 DEF Finish, all

LEMMA CancelMatched ==
  ASSUME NEW S, Fine(S), Matched(S), NEW k, S.run[k].task \in Tasks, Matches(S, k),
         NEW force \in BOOLEAN, NEW byUser, NEW quiet \in BOOLEAN,
         force /\ quiet => S.store[S.run[k].task].status # "killed"
  PROVE  Matched(CancelTaskTree(S, k, force, byUser, quiet))
<1>. DEFINE T == CancelTaskTree(S, k, force, byUser, quiet)
            r == S.run[k].task
            kills == Kills(S, k, force)
            hushes == Hushes(S, k, force, quiet)
            moves == Moves(S, k, force)
            all == [t \in Tasks |-> "killed"]
<1>1. PICK W, C : /\ CancelWalks(S, W, C, k, force, byUser, quiet)
                  /\ RowsStay(C, T)
                  /\ \A j \in Runs : SameRun(C, T, j) /\ T.run[j].pc = C.run[j].pc
  BY CancelIs
<1>2. W = Walked(S, kills, hushes, moves, byUser) /\ C = Conclude(W, kills \ hushes, all)
  BY <1>1 DEF CancelWalks
<1>3. /\ Stops(S, k, force) \subseteq Tasks
      /\ \A t \in Stops(S, k, force) : S.store[t].token \in Runs
      /\ moves \cap Stops(S, k, force) = {}
      /\ \A t \in moves : t \in Tasks /\ Running(S, t)
      /\ \A t \in Stops(S, k, force) \ kills :
              t = r /\ force /\ S.store[t].status = "killed"
      /\ kills \ hushes \subseteq {r}
  BY StopsAre
<1>4. kills \subseteq Stops(S, k, force) /\ hushes \subseteq Stops(S, k, force)
  BY DEF Kills, Hushes
<1>5. \A t \in hushes \ kills : S.store[t].mode = "linked"
  BY <1>3, <1>4 DEF Hushes
<1>6. \A t \in kills \ hushes : S.store[t].mode # "linked"
  BY <1>4 DEF Hushes, Kills
<1>7. \A t \in kills \ hushes : all[t] \in Endings
  BY <1>3, <1>4 DEF Endings
<1>. HIDE DEF T, r, kills, hushes, moves, all
<1>8. Fine(W) /\ Walks(S, W, kills, hushes, moves)
  BY <1>2, <1>3, <1>4, WalkedIs
<1>9. Matched(W)
  BY <1>3, <1>4, <1>5, <1>8, WalkMatched
<1>10. \A t \in kills \ hushes : /\ W.store[t].token \in Runs /\ t \in Tasks
                                 /\ ~Answers(W, t)
  BY <1>3, <1>4, <1>6, <1>8 DEF Walks, SameRow, Answers
<1>11. Fine(C) /\ Concluded(W, C, kills \ hushes, all)
  BY <1>2, <1>7, <1>8, <1>10, ConcludeIs
<1>12. Matched(C)
  BY <1>8, <1>9, <1>10, <1>11, ConcludeMatched
<1>13. Matched(T)
  BY <1>1, <1>11, <1>12, RowsMatched DEF RowsStay, SameRun
<1>. QED
  BY <1>13 DEF T

LEMMA CancelSound ==
  ASSUME NEW S, NEW K, Sound(S, K), NEW k, S.run[k].task \in Tasks,
         NEW force \in BOOLEAN, NEW byUser, NEW quiet \in BOOLEAN,
         force /\ quiet => S.store[S.run[k].task].status # "killed"
  PROVE  Sound(CancelTaskTree(S, k, force, byUser, quiet), K \ {k})
<1>. DEFINE T == CancelTaskTree(S, k, force, byUser, quiet)
            r == S.run[k].task
            kills == Kills(S, k, force)
<1>1. Fine(S) /\ Matched(S) /\ Placed(S) /\ StopsHeard(S) /\ ReportsEnd(S, K)
  BY DEF Sound
<1>2. \A t \in Tasks : Running(S, t) /\ S.store[t].token = k => t = r /\ Matches(S, k)
  BY <1>1 DEF Fine, Good, TokensAreOwned, RunsAreFresh, Matches, Running, Present
<1>3. CASE ~Matches(S, k)
  <2>1. T = S
    BY <1>3 DEF CancelTaskTree
  <2>2. ReportsEnd(S, K \ {k})
    BY <1>1, <1>2, <1>3 DEF ReportsEnd
  <2>. QED
    BY <1>1, <2>1, <2>2 DEF Sound
<1>4. CASE Matches(S, k)
  <2>1. Fine(T) /\ Cancelled(S, T, k, force, quiet)
    BY <1>1, <1>4, CancelIs
  <2>2. Matched(T)
    BY <1>1, <1>4, CancelMatched
  <2>3. S.store[r].token = k /\ (Running(S, r) => r \in kills)
    BY <1>1, <1>4, StopsAre
  <2>. HIDE DEF T, r
  <2>4. ASSUME NEW j \in Runs
        PROVE  Ongoing(S, T, j) /\ (Reported(T, j) => Reported(S, j))
    BY <2>1 DEF Cancelled, Ongoing, SameRun, Woken, Quiet, Reported
  <2>5. ASSUME NEW t \in Tasks
        PROVE  /\ T.store[t].kind = S.store[t].kind /\ T.store[t].token = S.store[t].token
               /\ S.store[t].token \in Runs => Steers(S, T, t)
               /\ Running(T, t) => Running(S, t) /\ t \notin kills
    BY <2>1 DEF Cancelled, SameRow, Steers, Running
  <2>6. \A t \in Tasks : \/ T.store[t].token = NoRun
                         \/ /\ T.store[t].kind = S.store[t].kind
                            /\ T.store[t].token = S.store[t].token
                            /\ Agent(S, t) => Steers(S, T, t)
    BY <1>1, <2>5 DEF Fine, Typed, RowShape
  <2>7. Placed(T) /\ StopsHeard(T)
    BY <1>1, <2>1, <2>4, <2>6, RunsKept
  <2>8. ReportsEnd(T, K \ {k})
    BY <1>1, <1>2, <2>3, <2>4, <2>5 DEF ReportsEnd, Fine, Good, RunsAreFresh, Running
  <2>. QED
    BY <2>1, <2>2, <2>7, <2>8 DEF Sound, T
<1>. QED
  BY <1>3, <1>4

LEMMA AbortSound ==
  ASSUME NEW S, NEW K, Sound(S, K), NEW ks
  PROVE  Sound(Abort(S, ks), K)
<1>. DEFINE T == Abort(S, ks)
<1>1. Fine(S) /\ Matched(S) /\ Placed(S) /\ StopsHeard(S) /\ ReportsEnd(S, K)
  BY DEF Sound
<1>2. Fine(T) /\ Aborts(S, T, ks)
  BY <1>1, AbortIs
<1>. HIDE DEF T
<1>3. RowsStay(S, T) /\ T.ctl = S.ctl
  BY <1>2 DEF Aborts
<1>4. ASSUME NEW j \in Runs
      PROVE  Ongoing(S, T, j) /\ (Reported(T, j) => Reported(S, j))
  BY <1>2 DEF Aborts, Ongoing, SameRun, Quiet, Reported
<1>5. Matched(T)
  BY <1>1, <1>3, <1>4, RowsMatched DEF RowsStay, Ongoing
<1>6. \A t \in Tasks : Steers(S, T, t)
  BY <1>3 DEF RowsStay, Steers
<1>7. Placed(T) /\ StopsHeard(T)
  BY <1>1, <1>2, <1>3, <1>4, <1>6, RunsKept DEF RowsStay
<1>8. ReportsEnd(T, K)
  BY <1>1, <1>3, <1>4 DEF ReportsEnd, RowsStay, Running, Fine, Good, RunsAreFresh
<1>. QED
  BY <1>2, <1>5, <1>7, <1>8 DEF Sound, T

\* The calls of a batch that is committed are reported next.
LEMMA GatedSound ==
  ASSUME NEW S, NEW K, Sound(S, K), NEW cs, NEW gate \in {"committed", "lost"},
         NEW L, gate = "committed" => \A c \in Runs : c \in cs /\ S.run[c].pc = "done" => c \in L
  PROVE  Sound(Gated(S, cs, gate), K \cup L)
<1>. DEFINE T == Gated(S, cs, gate)
<1>1. Fine(S) /\ Matched(S) /\ Placed(S) /\ StopsHeard(S) /\ ReportsEnd(S, K)
  BY DEF Sound
<1>2. Fine(T) /\ Gates(S, T, cs, gate)
  BY <1>1, GatedIs
<1>. HIDE DEF T
<1>3. RowsStay(S, T) /\ T.ctl = S.ctl
  BY <1>2 DEF Gates
<1>4. ASSUME NEW j \in Runs
      PROVE  Ongoing(S, T, j) /\ (Reported(T, j) => Reported(S, j) \/ j \in L)
  BY <1>2 DEF Gates, Ongoing, Quiet, Reported
<1>5. Matched(T)
  BY <1>1, <1>3, <1>4, RowsMatched DEF RowsStay, Ongoing
<1>6. \A t \in Tasks : Steers(S, T, t)
  BY <1>3 DEF RowsStay, Steers
<1>7. Placed(T) /\ StopsHeard(T)
  BY <1>1, <1>2, <1>3, <1>4, <1>6, RunsKept DEF RowsStay
<1>8. ReportsEnd(T, K \cup L)
  BY <1>1, <1>3, <1>4 DEF ReportsEnd, RowsStay, Running, Fine, Good, RunsAreFresh
<1>. QED
  BY <1>2, <1>5, <1>7, <1>8 DEF Sound, T

LEMMA EvictSound ==
  ASSUME NEW S, NEW K, Sound(S, K), NEW ts, Removes
  PROVE  Sound(Evicted(S, ts), K)
<1>. DEFINE T == Evicted(S, ts)
<1>1. Fine(S) /\ Matched(S) /\ Placed(S) /\ StopsHeard(S) /\ ReportsEnd(S, K)
  BY DEF Sound
<1>2. Fine(T) /\ Evicts(S, T, ts)
  BY <1>1, EvictedIs
<1>. HIDE DEF T
<1>3. T.queue = S.queue /\ T.posted = S.posted /\ T.run = S.run /\ T.ctl = S.ctl
  BY <1>2 DEF Evicts
<1>4. ASSUME NEW t \in Tasks
      PROVE  \/ /\ T.store[t].token = NoRun /\ T.store[t].mode = "detached"
                /\ T.store[t].status = "evicted"
             \/ T.store[t] = S.store[t]
  <2>1. \A row : /\ Durable(row).token = NoRun /\ Durable(row).mode = "detached"
                 /\ Durable(row).status = "evicted"
    BY DEF Durable, Row
  <2>. QED
    BY <1>2, <2>1 DEF Evicts
<1>5. Matched(T)
  BY <1>1, <1>3, <1>4, RowsMatched
<1>6. \A t \in Tasks : T.store[t] = S.store[t] => Steers(S, T, t)
  BY <1>3 DEF Steers
<1>7. \A j \in Runs : Ongoing(S, T, j)
  BY <1>3 DEF Ongoing, Quiet
<1>8. Placed(T) /\ StopsHeard(T)
  BY <1>1, <1>2, <1>4, <1>6, <1>7, RunsKept
<1>9. ReportsEnd(T, K)
  BY <1>1, <1>3, <1>4 DEF ReportsEnd, Running, Reported
<1>. QED
  BY <1>2, <1>5, <1>8, <1>9 DEF Sound, T

LEMMA KillShellsSound ==
  ASSUME NEW S, NEW K, Sound(S, K), NEW o
  PROVE  Sound(KillShellsForOwner(S, o), K)
<1>. DEFINE T == KillShellsForOwner(S, o)
<1>1. Fine(S) /\ Matched(S) /\ Placed(S) /\ StopsHeard(S) /\ ReportsEnd(S, K)
  BY DEF Sound
<1>2. Fine(T) /\ KillsShells(S, T, o)
  BY <1>1, KillShellsIs
<1>3. \A t \in ShellsOf(S, o) : t \in Tasks /\ ~Agent(S, t) /\ Running(S, t)
  BY DEF ShellsOf
<1>. HIDE DEF T
<1>4. T.queue = S.queue /\ T.posted = S.posted /\ T.ctl = S.ctl
  BY <1>2 DEF KillsShells
<1>5. ASSUME NEW t \in Tasks
      PROVE  /\ T.store[t].token = S.store[t].token /\ T.store[t].gen = S.store[t].gen
             /\ T.store[t].owner = S.store[t].owner /\ T.store[t].term = S.store[t].term
             /\ T.store[t].mode = S.store[t].mode /\ T.store[t].kind = S.store[t].kind
             /\ Agent(S, t) => T.store[t].status = S.store[t].status
             /\ Running(T, t) => Running(S, t) /\ t \notin ShellsOf(S, o)
  BY <1>2, <1>3 DEF KillsShells, SameRow, Running
<1>6. ASSUME NEW j \in Runs
      PROVE  /\ Ongoing(S, T, j)
             /\ Reported(T, j) =>
                  Reported(S, j) \/ \E t \in ShellsOf(S, o) : S.store[t].token = j
  <2>1. /\ SameRun(S, T, j) /\ T.run[j].aborted = S.run[j].aborted
        /\ \/ T.run[j].pc = S.run[j].pc
           \/ T.run[j].pc = "done" /\ \E t \in ShellsOf(S, o) : S.store[t].token = j
    BY <1>2 DEF KillsShells
  <2>2. (\E t \in ShellsOf(S, o) : S.store[t].token = j) => S.run[j].pc # "unborn"
    BY <1>1, <1>3 DEF Fine, Good, TokensAreOwned
  <2>. QED
    BY <2>1, <2>2 DEF Ongoing, SameRun, Quiet, Reported
<1>7. Matched(T)
  BY <1>1, <1>4, <1>5, <1>6, RowsMatched DEF Ongoing
<1>8. \A t \in Tasks : Agent(S, t) => Steers(S, T, t)
  BY <1>4, <1>5 DEF Steers
<1>9. Placed(T) /\ StopsHeard(T)
  BY <1>1, <1>2, <1>5, <1>6, <1>8, RunsKept
<1>10. ReportsEnd(T, K)
  <2>. SUFFICES ASSUME NEW t \in Tasks, Running(T, t), T.store[t].token \notin K,
                       Reported(T, T.store[t].token)
                PROVE  FALSE
    BY DEF ReportsEnd
  <2>1. /\ Running(S, t) /\ T.store[t].token = S.store[t].token /\ t \notin ShellsOf(S, o)
        /\ S.store[t].token \in Runs
    BY <1>1, <1>5 DEF Fine, Good, RunsAreFresh, Running
  <2>2. ~Reported(S, S.store[t].token)
    BY <1>1, <2>1 DEF ReportsEnd
  <2>3. PICK u \in ShellsOf(S, o) : S.store[u].token = S.store[t].token
    BY <1>6, <2>1, <2>2
  <2>4. u = t
    BY <1>1, <1>3, <2>1, <2>3 DEF Fine, Good, TokensAreOwned
  <2>. QED
    BY <2>1, <2>3, <2>4
<1>. QED
  BY <1>2, <1>7, <1>9, <1>10 DEF Sound, T

LEMMA PromoteSound ==
  ASSUME NEW S, NEW K, Sound(S, K), NEW o
  PROVE  Sound(Promote(S, o), K)
<1>. DEFINE T == Promote(S, o)
<1>1. Fine(S) /\ Matched(S) /\ Placed(S) /\ StopsHeard(S) /\ ReportsEnd(S, K)
  BY DEF Sound
<1>2. CASE IsOwnerRegistered(S, o)
  BY <1>2 DEF Promote
<1>3. CASE ~IsOwnerRegistered(S, o)
  <2>1. Fine(T) /\ Promotes(S, T, o)
    BY <1>1, <1>3, PromoteIs
  <2>. HIDE DEF T
  <2>2. Matched(T)
    BY <1>1, <2>1, PromoteMatched
  <2>3. /\ T.run = S.run /\ T.ctl = S.ctl
        /\ \A t \in Tasks : /\ T.store[t].kind = S.store[t].kind
                            /\ T.store[t].token = S.store[t].token
                            /\ T.store[t].status = S.store[t].status
    BY <2>1 DEF Promotes, SameRow
  <2>4. /\ \A j \in Runs : Ongoing(S, T, j)
        /\ \A t \in Tasks : Steers(S, T, t)
    BY <2>3 DEF Ongoing, Quiet, Steers
  <2>5. Placed(T) /\ StopsHeard(T)
    BY <1>1, <2>1, <2>3, <2>4, RunsKept
  <2>6. ReportsEnd(T, K)
    BY <1>1, <2>3 DEF ReportsEnd, Running, Reported
  <2>. QED
    BY <2>1, <2>2, <2>5, <2>6 DEF Sound, T
<1>. QED
  BY <1>2, <1>3

\* A stop of the task still finds the run k, which has become e, and all others.
Controlled(S, T, k, e) ==
  \A t \in Tasks : Agent(S, t) /\ S.store[t].token \in Runs =>
    IF S.store[t].token = k
    THEN \/ Viewed(S, t) \/ e.aborted \/ e.pc \in {"prep", "settle", "done"}
         \/ S.store[t].status # "killed" /\ T.ctl[t] = k
    ELSE \/ Viewed(S, t)
         \/ S.ctl[t] = S.store[t].token => T.ctl[t] = S.store[t].token

\* A run that is over and reported is about to end its row, if it still has one.
EndIsTold(S, k, e, L) ==
  e.pc = "done" /\ e.gate \notin {"open", "lost"} =>
    k \in L \/ \A t \in Tasks : Running(S, t) => S.store[t].token # k

\* One run goes on; its controller may be taken or let go.
LEMMA RunSound ==
  ASSUME NEW S, NEW K, Sound(S, K), NEW L, K \subseteq L, NEW T, RowsStay(S, T), Good(T),
         T.ctl \in [Tasks -> Runs \cup {NoRun}],
         NEW k \in Runs, NEW e \in RunType, T.run = [S.run EXCEPT ![k] = e],
         S.run[k].pc # "unborn", e.pc # "unborn", e.task = S.run[k].task, e.how = S.run[k].how,
         Controlled(S, T, k, e), EndIsTold(S, k, e, L)
  PROVE  Sound(T, L)
<1>1. Fine(S) /\ Matched(S) /\ Placed(S) /\ StopsHeard(S) /\ ReportsEnd(S, K)
  BY DEF Sound
<1>2. Fine(T) /\ T.run[k] = e /\ \A j \in Runs : j # k => T.run[j] = S.run[j]
  <2>1. S.run \in [Runs -> RunType]
    BY <1>1 DEF Fine, Typed
  <2>2. T.run \in [Runs -> RunType]
    BY <2>1
  <2>3. T.run[k] = e /\ \A j \in Runs : j # k => T.run[j] = S.run[j]
    BY <2>1
  <2>4. Fine(T)
    BY <1>1, <2>2, RunsFine
  <2>. QED
    BY <2>3, <2>4
<1>3. Placed(T) /\ \A j \in Runs : T.run[j].task = S.run[j].task /\ T.run[j].how = S.run[j].how
  BY <1>1, <1>2 DEF Placed
<1>4. Matched(T)
  BY <1>1, <1>3, RowsMatched DEF RowsStay
<1>5. StopsHeard(T)
  <2>. SUFFICES ASSUME NEW t \in Tasks, Agent(T, t), T.store[t].token \in Runs
                PROVE  \/ Viewed(T, t)
                       \/ T.run[T.store[t].token].aborted
                       \/ Quiet(T, T.store[t].token)
                       \/ T.store[t].status # "killed" /\ T.ctl[t] = T.store[t].token
    BY DEF StopsHeard
  <2>1. T.store[t] = S.store[t] /\ Agent(S, t) /\ (Viewed(S, t) => Viewed(T, t))
    BY <1>3 DEF RowsStay, Agent, Viewed
  <2>2. CASE S.store[t].token = k
    BY <1>2, <2>1, <2>2 DEF Quiet, Controlled
  <2>3. CASE S.store[t].token # k
    <3>1. T.run[S.store[t].token] = S.run[S.store[t].token]
      BY <1>2, <2>1, <2>3
    <3>2. \/ Viewed(S, t)
          \/ S.run[S.store[t].token].aborted
          \/ Quiet(S, S.store[t].token)
          \/ S.store[t].status # "killed" /\ S.ctl[t] = S.store[t].token
      BY <1>1, <2>1 DEF StopsHeard
    <3>. QED
      BY <2>1, <2>3, <3>1, <3>2 DEF Quiet, Controlled
  <2>. QED
    BY <2>2, <2>3
<1>6. ReportsEnd(T, L)
  <2>. SUFFICES ASSUME NEW t \in Tasks, Running(T, t), T.store[t].token \notin L,
                       Reported(T, T.store[t].token)
                PROVE  FALSE
    BY DEF ReportsEnd
  <2>1. Running(S, t) /\ T.store[t] = S.store[t] /\ S.store[t].token \in Runs
    BY <1>1 DEF RowsStay, Running, Fine, Good, RunsAreFresh
  <2>2. ~Reported(S, S.store[t].token)
    BY <1>1, <2>1 DEF ReportsEnd
  <2>. QED
    BY <1>2, <2>1, <2>2 DEF Reported, EndIsTold
<1>. QED
  BY <1>2, <1>3, <1>4, <1>5, <1>6 DEF Sound

\* A run steps on under the same controller.
LEMMA StepSound ==
  ASSUME NEW S, NEW K, Sound(S, K), NEW L, K \subseteq L,
         NEW T, DOMAIN T = DOMAIN S, RowsStay(S, T), T.ctl = S.ctl,
         NEW k \in Runs, NEW e \in RunType, T.run = [S.run EXCEPT ![k] = e],
         S.run[k].pc # "unborn", e.pc # "unborn",
         e.task = S.run[k].task, e.how = S.run[k].how, e.aborted = S.run[k].aborted,
         Quiet(S, k) => e.pc \in {"prep", "settle", "done"},
         e.pc = "done" /\ e.gate \notin {"open", "lost"} => k \in L
  PROVE  Sound(T, L)
<1>1. Fine(S) /\ StopsHeard(S)
  BY DEF Sound
<1>2. Good(T)
  <2>1. {"task", "pc"} \subseteq DOMAIN e
    BY DEF RunType
  <2>2. T.store = S.store /\ T.queue = S.queue /\ T.posted = S.posted
    BY DEF RowsStay
  <2>3. Leads(S, T)
    BY <1>1, <2>1, <2>2, RunMoves DEF Fine
  <2>. QED
    BY <1>1, <2>3, LeadsKeepsGood DEF Fine
<1>3. T.ctl \in [Tasks -> Runs \cup {NoRun}]
  BY <1>1 DEF Fine, Typed
<1>4. Controlled(S, T, k, e)
  BY <1>1 DEF StopsHeard, Quiet, Controlled
<1>5. EndIsTold(S, k, e, L)
  BY DEF EndIsTold
<1>. QED
  BY <1>2, <1>3, <1>4, <1>5, RunSound

\* The record of a run that steps on, that ends, and whose call is committed.
At(r, pc) == [r EXCEPT !.pc = pc]
Out(r, pc, outcome) == [r EXCEPT !.pc = pc, !.outcome = outcome]
Shut(r) == [r EXCEPT !.gate = "committed"]

SameCall(r, e) == e.task = r.task /\ e.how = r.how /\ e.aborted = r.aborted

LEMMA StepIs ==
  ASSUME NEW r \in RunType, NEW pc, NEW outcome,
         pc \in {"launch", "loop", "parked", "exit", "settle", "done"},
         outcome \in {"none", "ok", "failed", "setup"}
  PROVE  /\ At(r, pc) \in RunType /\ SameCall(r, At(r, pc)) /\ At(r, pc).pc = pc
         /\ At(r, pc).gate = r.gate
         /\ Out(r, pc, outcome) \in RunType /\ SameCall(r, Out(r, pc, outcome))
         /\ Out(r, pc, outcome).pc = pc /\ Out(r, pc, outcome).gate = r.gate
         /\ Shut(r) \in RunType /\ SameCall(r, Shut(r))
         /\ Shut(r).pc = r.pc /\ Shut(r).gate = "committed"
<1>1. /\ At(r, pc) \in RunType /\ SameCall(r, At(r, pc)) /\ At(r, pc).pc = pc
      /\ At(r, pc).gate = r.gate
  BY DEF RunType, At, SameCall
<1>2. /\ Out(r, pc, outcome) \in RunType /\ SameCall(r, Out(r, pc, outcome))
      /\ Out(r, pc, outcome).pc = pc /\ Out(r, pc, outcome).gate = r.gate
  BY ZenonT(40) DEF RunType, Out, SameCall
<1>3. /\ Shut(r) \in RunType /\ SameCall(r, Shut(r))
      /\ Shut(r).pc = r.pc /\ Shut(r).gate = "committed"
  BY DEF RunType, Shut, SameCall
<1>. QED
  BY <1>1, <1>2, <1>3

\* What it does to the state.
Steps(S, T, k, e) ==
  /\ DOMAIN T = DOMAIN S /\ RowsStay(S, T) /\ T.ctl = S.ctl
  /\ T.run = [S.run EXCEPT ![k] = e]

LEMMA RecordIs ==
  ASSUME NEW S, Fine(S), NEW k \in Runs, NEW pc, NEW outcome
  PROVE  /\ Steps(S, [S EXCEPT !.run[k].pc = pc], k, At(S.run[k], pc))
         /\ Steps(S, [S EXCEPT !.run[k].pc = pc, !.run[k].outcome = outcome], k,
                  Out(S.run[k], pc, outcome))
         /\ Steps(S, [S EXCEPT !.run[k].gate = "committed"], k, Shut(S.run[k]))
BY DEF Fine, Good, Shape, RowsStay, Steps, At, Out, Shut

LEMMA PcSound ==
  ASSUME NEW S, NEW K, Sound(S, K), NEW L, K \subseteq L, NEW k \in Runs,
         S.run[k].pc # "unborn", NEW pc, pc \in {"loop", "parked", "exit", "settle", "done"},
         Quiet(S, k) => pc \in {"settle", "done"}, pc = "done" => k \in L,
         NEW outcome, outcome \in {"none", "ok", "failed", "setup"}
  PROVE  /\ Sound([S EXCEPT !.run[k].pc = pc], L)
         /\ Sound([S EXCEPT !.run[k].pc = pc, !.run[k].outcome = outcome], L)
<1>. DEFINE T == [S EXCEPT !.run[k].pc = pc]
            U == [S EXCEPT !.run[k].pc = pc, !.run[k].outcome = outcome]
            e == At(S.run[k], pc)
            f == Out(S.run[k], pc, outcome)
<1>1. Fine(S) /\ S.run[k] \in RunType
  BY DEF Sound, Fine, Typed
<1>2. /\ e \in RunType /\ SameCall(S.run[k], e) /\ e.pc = pc
      /\ f \in RunType /\ SameCall(S.run[k], f) /\ f.pc = pc
  BY <1>1, StepIs
<1>3. Steps(S, T, k, e) /\ Steps(S, U, k, f)
  BY <1>1, RecordIs
<1>4. pc # "unborn"
  OBVIOUS
<1>. HIDE DEF T, U, e, f
<1>5. ASSUME NEW V, NEW g \in RunType, Steps(S, V, k, g), SameCall(S.run[k], g), g.pc = pc
      PROVE  Sound(V, L)
  <2>1. /\ DOMAIN V = DOMAIN S /\ RowsStay(S, V) /\ V.ctl = S.ctl /\ V.run = [S.run EXCEPT ![k] = g]
        /\ g.task = S.run[k].task /\ g.how = S.run[k].how /\ g.aborted = S.run[k].aborted
    BY <1>5 DEF Steps, SameCall
  <2>2. /\ Quiet(S, k) => g.pc \in {"prep", "settle", "done"}
        /\ g.pc = "done" /\ g.gate \notin {"open", "lost"} => k \in L
        /\ g.pc # "unborn"
    BY <1>4, <1>5
  <2>. QED
    BY <2>1, <2>2, StepSound
<1>6. Sound(T, L) /\ Sound(U, L)
  BY <1>2, <1>3, <1>5
<1>. QED
  BY <1>6 DEF T, U

LEMMA LeaveSound ==
  ASSUME NEW S, NEW K, Sound(S, K), NEW k \in Runs, S.run[k].pc = "loop",
         NEW outcome, outcome \in {"ok", "failed"}
  PROVE  Sound(Leave(S, k, outcome), K)
<1>. DEFINE T == [S EXCEPT !.run[k].pc = "exit", !.run[k].outcome = outcome]
            f == Out(S.run[k], "exit", outcome)
<1>1. Fine(S) /\ S.run[k] \in RunType
  BY DEF Sound, Fine, Typed
<1>2. f \in RunType /\ SameCall(S.run[k], f) /\ f.pc = "exit"
  BY <1>1, StepIs
<1>3. Steps(S, T, k, f)
  BY <1>1, RecordIs
<1>4. Leave(S, k, outcome) = KillShellsForOwner(T, S.run[k].task)
  BY DEF Leave
<1>. HIDE DEF T, f
<1>5. ~Quiet(S, k)
  BY DEF Quiet
<1>6. Sound(T, K)
  BY <1>2, <1>3, <1>5, StepSound DEF Steps, SameCall
<1>. QED
  BY <1>4, <1>6, KillShellsSound

\* A run that has no row has nothing to report.
LEMMA RowlessSound ==
  ASSUME NEW S, NEW k, Sound(S, {k}), S.store[S.run[k].task].token # k
  PROVE  Sound(S, {})
BY DEF Sound, ReportsEnd, Fine, Good, RunsAreFresh, TokensAreOwned, Running

LEMMA PublishSound ==
  ASSUME NEW S, NEW k \in Runs, Sound(S, {k}), S.run[k].pc # "unborn",
         run[k].task = S.run[k].task
  PROVE  Sound(Publish(S, k), {})
<1>1. S.run[k].task \in Tasks
  BY DEF Sound, Placed
<1>2. Ending(k) \in Endings /\ Ending(k) # "killed"
  BY DEF Ending, Endings
<1>3. CASE run[k].how = "directive"
  <2>. DEFINE tok == S.store[run[k].task].token
  <2>1. Publish(S, k) = Finish(S, {tok}, Ending(k))
    BY <1>3 DEF Publish
  <2>2. CASE tok = k
    <3>1. Sound(Finish(S, {tok}, Ending(k)), {k} \ {tok})
      BY <1>2, FinishSound
    <3>. QED
      BY <2>1, <2>2, <3>1
  <2>3. CASE tok # k
    <3>1. Sound(S, {})
      BY <2>3, RowlessSound
    <3>2. Sound(Finish(S, {tok}, Ending(k)), {} \ {tok})
      BY <1>2, <3>1, FinishSound
    <3>. QED
      BY <2>1, <3>2
  <2>. QED
    BY <2>2, <2>3
<1>4. CASE run[k].how # "directive"
  <2>1. Publish(S, k) \in {Finish(S, {k}, Ending(k)), CancelTaskTree(S, k, FALSE, TRUE, FALSE),
                           CancelTaskTree(S, k, FALSE, FALSE, FALSE)}
    BY <1>4 DEF Publish
  <2>2. Sound(Finish(S, {k}, Ending(k)), {k} \ {k})
    BY <1>2, FinishSound
  <2>3. Sound(CancelTaskTree(S, k, FALSE, TRUE, FALSE), {k} \ {k})
    BY <1>1, CancelSound
  <2>4. Sound(CancelTaskTree(S, k, FALSE, FALSE, FALSE), {k} \ {k})
    BY <1>1, CancelSound
  <2>5. {k} \ {k} = {}
    OBVIOUS
  <2>. QED
    BY <2>1, <2>2, <2>3, <2>4, <2>5
<1>. QED
  BY <1>3, <1>4

LEMMA ReportSound ==
  ASSUME NEW S, NEW k \in Runs, Sound(S, {}), S.run[k].pc # "unborn",
         run[k].task = S.run[k].task, run[k].gate = S.run[k].gate
  PROVE  Sound(Report(S, k), {})
<1>. DEFINE t == run[k].task
            over == [S EXCEPT !.run[k].pc = "done",
                              !.run[k].linked = FALSE,
                              !.ctl[t] = IF @ = k THEN NoRun ELSE @]
            e == [S.run[k] EXCEPT !.pc = "done", !.linked = FALSE]
            c == IF S.ctl[t] = k THEN NoRun ELSE S.ctl[t]
<1>1. Report(S, k) = IF run[k].gate \in {"none", "committed"} THEN Publish(over, k) ELSE over
  BY DEF Report
<1>2. Fine(S)
  BY DEF Sound
<1>3. /\ DOMAIN over = DOMAIN S /\ RowsStay(S, over)
      /\ over.run = [S.run EXCEPT ![k] = e]
      /\ over.ctl = [S.ctl EXCEPT ![t] = c]
  BY <1>2 DEF Fine, Good, Shape, RowsStay
<1>4. S.run[k] \in RunType /\ S.run \in [Runs -> RunType] /\ S.ctl \in [Tasks -> Runs \cup {NoRun}]
  BY <1>2 DEF Fine, Typed
<1>5. /\ e \in RunType /\ e.task = S.run[k].task /\ e.how = S.run[k].how
      /\ e.gate = S.run[k].gate /\ e.pc = "done"
  BY <1>4 DEF RunType
<1>6. /\ over.ctl \in [Tasks -> Runs \cup {NoRun}]
      /\ \A u \in Tasks : over.ctl[u] \in {S.ctl[u], NoRun}
      /\ \A u \in Tasks : over.ctl[u] # S.ctl[u] => S.ctl[u] = k
  <2>1. \A u \in Tasks : over.ctl[u] = IF u = t THEN c ELSE S.ctl[u]
    BY <1>3, <1>4
  <2>2. over.ctl \in [Tasks -> Runs \cup {NoRun}]
    BY <1>3, <1>4
  <2>. QED
    BY <2>1, <2>2
<1>. HIDE DEF over, e, c
<1>7. Good(over)
  <2>1. {"task", "pc"} \subseteq DOMAIN e
    BY <1>5 DEF RunType
  <2>2. over.store = S.store /\ over.queue = S.queue /\ over.posted = S.posted
    BY <1>3 DEF RowsStay
  <2>3. e.pc # "unborn"
    BY <1>5
  <2>4. Leads(S, over)
    BY <1>2, <1>3, <1>5, <2>1, <2>2, <2>3, RunMoves DEF Fine
  <2>. QED
    BY <1>2, <2>4, LeadsKeepsGood DEF Fine
<1>8. Controlled(S, over, k, e)
  BY <1>5, <1>6 DEF Controlled
<1>11. ASSUME NEW L, e.gate \notin {"open", "lost"} => k \in L
       PROVE  Sound(over, L)
  <2>1. {} \subseteq L /\ EndIsTold(S, k, e, L)
    BY <1>11 DEF EndIsTold
  <2>. QED
    BY <1>3, <1>5, <1>6, <1>7, <1>8, <2>1, RunSound
<1>9. CASE run[k].gate \in {"none", "committed"}
  <2>1. Sound(over, {k})
    BY <1>11
  <2>2. over.run[k] = e
    BY <1>3, <1>4
  <2>3. over.run[k].pc # "unborn" /\ run[k].task = over.run[k].task
    BY <1>5, <2>2
  <2>. QED
    BY <1>1, <1>9, <2>1, <2>3, PublishSound
<1>10. CASE run[k].gate \notin {"none", "committed"}
  <2>1. e.gate \in {"open", "lost"}
    BY <1>4, <1>5, <1>10 DEF RunType
  <2>. QED
    BY <1>1, <1>10, <1>11, <2>1
<1>. QED
  BY <1>9, <1>10

LEMMA CloseSound ==
  ASSUME NEW S, NEW k \in Runs, Sound(S, {}), S.run[k].pc # "unborn",
         run[k].task = S.run[k].task, run[k].gate = S.run[k].gate
  PROVE  Sound(Close(S, k), {})
BY ReportSound DEF Close

-----------------------------------------------------------------------------
(* The steps keep what is sound.                                            *)

LEMMA BecomeSound ==
  ASSUME NEW T, Become(T), Sound(T, {})
  PROVE  Sound(Now', {})
<1>1. /\ T.store = Now'.store /\ T.run = Now'.run /\ T.ctl = Now'.ctl /\ T.queue = Now'.queue
      /\ T.posted = Now'.posted
      /\ {"store", "run", "ctl", "queue", "posted"} \subseteq DOMAIN Now'
  BY NowIs DEF Become
<1>. DEFINE U == Now'
<1>. HIDE DEF U
<1>2. /\ T.store = U.store /\ T.run = U.run /\ T.ctl = U.ctl /\ T.queue = U.queue
      /\ T.posted = U.posted
      /\ {"store", "run", "ctl", "queue", "posted"} \subseteq DOMAIN U
  BY <1>1 DEF U
<1>3. Good(T) /\ Typed(T) /\ Placed(T) /\ Matched(T) /\ ReportsEnd(T, {}) /\ StopsHeard(T)
  BY DEF Sound, Fine
<1>4. Good(U)
  <2>1. Shape(U)
    BY <1>2, <1>3 DEF Good, Shape
  <2>2. TokensAreOwned(U) /\ PostedRan(U) /\ RunsAreFresh(U) /\ UntoldIsUnposted(U)
    BY <1>2, <1>3 DEF Good, TokensAreOwned, PostedRan, RunsAreFresh, UntoldIsUnposted
  <2>. QED
    BY <2>1, <2>2 DEF Good
<1>5. Typed(U)
  BY <1>2, <1>3 DEF Typed, Minted, Present
<1>6. Placed(U)
  BY <1>2, <1>3 DEF Placed
<1>7. Matched(U)
  <2>1. NoticesArePosted(U) /\ KeysAreUnique(U) /\ NoticesFit(U)
    BY <1>2, <1>3 DEF Matched, NoticesArePosted, KeysAreUnique, NoticesFit, KeyOf
  <2>2. OwnersWait(U) /\ ToldArePosted(U) /\ LinkedAnswer(U)
    BY <1>2, <1>3 DEF Matched, OwnersWait, ToldArePosted, LinkedAnswer, Agent
  <2>. QED
    BY <2>1, <2>2 DEF Matched
<1>8. ReportsEnd(U, {})
  BY <1>2, <1>3 DEF ReportsEnd, Running, Reported
<1>9. StopsHeard(U)
  BY <1>2, <1>3 DEF StopsHeard, Agent, Viewed, Quiet
<1>. QED
  BY <1>4, <1>5, <1>6, <1>7, <1>8, <1>9 DEF Sound, Fine, U

\* The awaits of a run that change nothing but its place.
LEMMA NowSteps ==
  ASSUME Sound(Now, {}), NEW k \in Runs, NEW pc \in {"loop", "parked"}, run[k].pc # "unborn",
         ~Quiet(Now, k), run' = [run EXCEPT ![k].pc = pc], UNCHANGED <<store, ctl, queue, posted>>
  PROVE  Sound(Now', {})
<1>. DEFINE e == At(run[k], pc)
<1>1. run[k] \in RunType
  BY NowIs DEF Sound, Fine, Typed
<1>2. e \in RunType /\ SameCall(run[k], e) /\ e.pc = pc
  BY <1>1, StepIs
<1>3. run' = [run EXCEPT ![k] = e]
  BY DEF At
<1>. HIDE DEF e
<1>4. Steps(Now, Now', k, e)
  BY <1>3, NowIs DEF Steps, RowsStay
<1>5. \A L : Sound(Now, L) => Sound(Now', L)
  BY <1>2, <1>4, NowIs, StepSound DEF Steps, SameCall
<1>. QED
  BY <1>5

LEMMA AwaitSound ==
  ASSUME Sound(Now, {}), NEW k \in Runs, Register(k) \/ Park(k) \/ WakeAborted(k) \/ Steer(k)
  PROVE  Sound(Now', {})
<1>1. CASE Register(k)
  BY <1>1, NowSteps, NowIs DEF Register, Quiet
<1>2. CASE Park(k)
  BY <1>2, NowSteps, NowIs DEF Park, Working, Quiet
<1>3. CASE WakeAborted(k) \/ Steer(k)
  BY <1>3, NowSteps, NowIs DEF WakeAborted, Steer, WakeUp, Quiet
<1>. QED
  BY <1>1, <1>2, <1>3

\* A resumed run takes its controller only as its row still runs for it; one
\* resumed from the view looks at nothing.
LEMMA StartsSound ==
  ASSUME Sound(Now, {}), NEW k \in Runs, StartSent(k) \/ StartViewed(k)
  PROVE  Sound(Now', {})
<1>1. Fine(Now) /\ Placed(Now) /\ StopsHeard(Now)
  BY DEF Sound
<1>2. PICK pc \in {"launch", "done"} :
        /\ run' = [run EXCEPT ![k].pc = pc]
        /\ pc = "launch" => /\ ctl' = [ctl EXCEPT ![run[k].task] = k]
                            /\ \/ Matches(Now, k) /\ Running(Now, run[k].task)
                               \/ run[k].how = "view"
        /\ pc = "done" => ctl' = ctl /\ ~(Matches(Now, k) /\ Running(Now, run[k].task))
        /\ run[k].pc = "prep" /\ UNCHANGED <<store, queue, posted>>
  BY DEF StartSent, StartViewed
<1>. DEFINE e == At(run[k], pc)
<1>3. run[k] \in RunType /\ ctl \in [Tasks -> Runs \cup {NoRun}] /\ run[k].task \in Tasks
  BY <1>1, <1>2, NowIs DEF Fine, Typed, Placed
<1>4. e \in RunType /\ SameCall(run[k], e) /\ e.pc = pc
  <2>. DEFINE r == run[k]
  <2>1. r \in RunType /\ e = At(r, pc) /\ pc \in {"launch", "done"}
    BY <1>3
  <2>. HIDE DEF r, e
  <2>2. e \in RunType /\ SameCall(r, e) /\ e.pc = pc
    BY <2>1 DEF RunType, At, SameCall
  <2>. QED
    BY <2>2 DEF r
<1>5. run' = [run EXCEPT ![k] = e]
  BY <1>2 DEF At
<1>. HIDE DEF e
<1>6. RowsStay(Now, Now') /\ Now'.run = [Now.run EXCEPT ![k] = e]
  BY <1>2, <1>5, NowIs DEF RowsStay
<1>7. Good(Now')
  BY <1>1, QuietRunLeads, LeadsKeepsGood DEF Fine
<1>8. ctl' \in [Tasks -> Runs \cup {NoRun}]
  BY <1>2, <1>3
<1>9. \A t \in Tasks : Now.store[t].token \in Runs => Now.run[Now.store[t].token].task = t
  BY <1>1 DEF Fine, Good, TokensAreOwned
<1>10. Controlled(Now, Now', k, e)
  <2>. SUFFICES ASSUME NEW t \in Tasks, Agent(Now, t), Now.store[t].token \in Runs
                PROVE  IF Now.store[t].token = k
                       THEN \/ Viewed(Now, t) \/ e.aborted \/ e.pc \in {"prep", "settle", "done"}
                            \/ Now.store[t].status # "killed" /\ Now'.ctl[t] = k
                       ELSE \/ Viewed(Now, t)
                            \/ Now.ctl[t] = Now.store[t].token => Now'.ctl[t] = Now.store[t].token
    BY DEF Controlled
  <2>1. CASE Now.store[t].token = k /\ pc = "done"
    BY <1>4, <2>1
  <2>2. CASE Now.store[t].token = k /\ pc = "launch" /\ run[k].how = "view"
    BY <1>9, <2>2, NowIs DEF Viewed
  <2>3. CASE Now.store[t].token = k /\ pc = "launch" /\ run[k].how # "view"
    <3>1. run[k].task = t /\ ctl'[t] = k /\ Running(Now, t)
      BY <1>2, <1>3, <1>9, <2>3, NowIs
    <3>. QED
      BY <2>3, <3>1, NowIs DEF Running
  <2>4. CASE Now.store[t].token # k
    <3>1. CASE pc = "done"
      BY <1>2, <2>4, <3>1, NowIs
    <3>2. CASE pc = "launch" /\ t # run[k].task
      BY <1>2, <1>3, <2>4, <3>2, NowIs
    <3>3. CASE pc = "launch" /\ t = run[k].task
      <4>1. run[k].how = "view"
        BY <1>2, <2>4, <3>3, NowIs DEF Matches
      <4>. QED
        BY <2>4, <3>3, <4>1, NowIs DEF Viewed
    <3>. QED
      BY <3>1, <3>2, <3>3
  <2>. QED
    BY <2>1, <2>2, <2>3, <2>4
<1>11. ASSUME NEW L PROVE EndIsTold(Now, k, e, L)
  BY <1>2, <1>4, <1>9, NowIs DEF EndIsTold, Matches, Running, Present
<1>12. \A L : Sound(Now, L) => Sound(Now', L)
  BY <1>2, <1>4, <1>6, <1>7, <1>8, <1>10, <1>11, NowIs, RunSound DEF SameCall
<1>. QED
  BY <1>12

\* What Close and Publish look up of a run before the call is what they find after it.
Same(S, k) == S.run[k].task = run[k].task /\ S.run[k].gate = run[k].gate

LEMMA LaunchFailsSound ==
  ASSUME Sound(Now, {}), NEW k \in Runs, LaunchFails(k)
  PROVE  Sound(Now', {})
<1>. DEFINE T == [Now EXCEPT !.run[k].pc = "settle", !.run[k].outcome = "setup"]
            f == Out(run[k], "settle", "setup")
<1>1. Become(Close(T, k)) /\ run[k].pc # "unborn"
  BY DEF LaunchFails
<1>2. Fine(Now) /\ run[k] \in RunType /\ k \in DOMAIN run
  BY NowIs DEF Sound, Fine, Typed
<1>3. f \in RunType /\ SameCall(run[k], f) /\ f.pc = "settle" /\ f.gate = run[k].gate
  <2>. DEFINE r == run[k]
  <2>1. r \in RunType /\ f = Out(r, "settle", "setup")
    BY <1>2
  <2>. HIDE DEF r, f
  <2>2. f \in RunType /\ SameCall(r, f) /\ f.pc = "settle" /\ f.gate = r.gate
    BY <2>1 DEF RunType, Out, SameCall
  <2>. QED
    BY <2>2 DEF r
<1>4. Steps(Now, T, k, f)
  BY <1>2, RecordIs, NowIs
<1>5. T.run[k] = f
  BY <1>2, <1>4, NowIs DEF Steps
<1>. HIDE DEF T, f
<1>6. \A L : Sound(Now, L) => Sound(T, L)
  BY <1>1, <1>3, <1>4, NowIs, StepSound DEF Steps, SameCall
<1>7. Sound(Close(T, k), {})
  BY <1>3, <1>5, <1>6, CloseSound DEF SameCall
<1>. QED
  BY <1>1, <1>7, BecomeSound

LEMMA UnwindSound ==
  ASSUME Sound(Now, {}), NEW k \in Runs, Unwind(k)
  PROVE  Sound(Now', {})
<1>. DEFINE t == run[k].task
            tok == store[t].token
            swept == IF run[k].aborted /\ run[k].how # "view" /\ Present(Now, t)
                     THEN CancelTaskTree(Now, tok, FALSE, FALSE, TRUE) ELSE Now
            T == [swept EXCEPT !.run[k].pc = "settle"]
            U == Promote(T, t)
<1>1. run[k].pc = "exit" /\ Become(Close(U, k))
  BY DEF Unwind
<1>2. Fine(Now) /\ Placed(Now)
  BY DEF Sound
<1>3. t \in Tasks
  BY <1>1, <1>2, NowIs DEF Placed
<1>4. Present(Now, t) => /\ Now.run[tok].task = t
                         /\ Matches(Now, tok)
  <2>1. Present(Now, t) => tok \in Runs
    BY <1>2, <1>3, NowIs DEF Fine, Typed, Minted
  <2>2. tok \in Runs => Now.run[tok].task = t
    BY <1>2, <1>3, NowIs DEF Fine, Good, TokensAreOwned
  <2>. QED
    BY <2>1, <2>2, NowIs DEF Matches
<1>5. swept \in {Now, CancelTaskTree(Now, tok, FALSE, FALSE, TRUE)}
      /\ (~Present(Now, t) => swept = Now)
  OBVIOUS
<1>. HIDE DEF swept, t, tok
<1>6. Sound(swept, {}) /\ SameRun(Now, swept, k) /\ Woken(Now, swept, k)
  <2>1. CASE swept = Now
    BY <2>1 DEF SameRun, Woken
  <2>2. CASE swept = CancelTaskTree(Now, tok, FALSE, FALSE, TRUE) /\ Present(Now, t)
    <3>1. Sound(CancelTaskTree(Now, tok, FALSE, FALSE, TRUE), {} \ {tok})
      BY <1>3, <1>4, <2>2, CancelSound
    <3>2. Cancelled(Now, CancelTaskTree(Now, tok, FALSE, FALSE, TRUE), tok, FALSE, TRUE)
      BY <1>2, <1>3, <1>4, <2>2, CancelIs
    <3>3. {} \ {tok} = {}
      OBVIOUS
    <3>4. Sound(swept, {})
      BY <2>2, <3>1, <3>3
    <3>. QED
      BY <2>2, <3>2, <3>4 DEF Cancelled
  <2>. QED
    BY <1>5, <2>1, <2>2
<1>7. swept.run[k].pc = "exit" /\ Same(swept, k)
  BY <1>1, <1>6, NowIs DEF Woken, SameRun, Same
<1>8. Sound(T, {}) /\ T.run = [swept.run EXCEPT ![k] = At(swept.run[k], "settle")]
  <2>. DEFINE e == At(swept.run[k], "settle")
  <2>1. Fine(swept) /\ swept.run[k] \in RunType
    BY <1>6 DEF Sound, Fine, Typed
  <2>2. e \in RunType /\ SameCall(swept.run[k], e) /\ e.pc = "settle"
    BY <2>1, StepIs
  <2>3. Steps(swept, T, k, e)
    BY <2>1, RecordIs
  <2>. HIDE DEF T, e
  <2>4. \A L : Sound(swept, L) => Sound(T, L)
    BY <1>7, <2>2, <2>3, StepSound DEF Steps, SameCall
  <2>. QED
    BY <1>6, <2>3, <2>4 DEF Steps, e
<1>9. T.run[k].pc = "settle" /\ Same(T, k)
  <2>1. /\ {"task", "gate", "pc"} \subseteq DOMAIN swept.run[k] /\ k \in DOMAIN swept.run
    BY <1>6 DEF Sound, Fine, Typed, RunType
  <2>. QED
    BY <1>7, <1>8, <2>1 DEF At, Same
<1>. HIDE DEF T
<1>10. Sound(U, {})
  BY <1>8, PromoteSound
<1>11. U.run[k].pc = "settle" /\ Same(U, k)
  <2>1. U.run = T.run
    BY <1>8 DEF Promote, Sound, Fine, Good, Shape
  <2>. QED
    BY <1>9, <2>1 DEF Same
<1>. HIDE DEF U
<1>12. Sound(Close(U, k), {})
  BY <1>10, <1>11, CloseSound DEF Same
<1>. QED
  BY <1>1, <1>12, BecomeSound

LEMMA CommitMainSound ==
  ASSUME Sound(Now, {}), NEW k \in Runs, CommitMain(k)
  PROVE  Sound(Now', {})
<1>. DEFINE T == [Now EXCEPT !.run[k].gate = "committed"]
            g == Shut(run[k])
<1>1. Become(IF run[k].pc = "done" THEN Publish(T, k) ELSE T) /\ run[k].gate = "open"
  BY DEF CommitMain
<1>2. Fine(Now) /\ run[k] \in RunType /\ k \in DOMAIN run
  BY NowIs DEF Sound, Fine, Typed
<1>3. g \in RunType /\ SameCall(run[k], g) /\ g.pc = run[k].pc
  <2>. DEFINE r == run[k]
  <2>1. r \in RunType /\ g = Shut(r)
    BY <1>2
  <2>. HIDE DEF r, g
  <2>2. g \in RunType /\ SameCall(r, g) /\ g.pc = r.pc
    BY <2>1 DEF RunType, Shut, SameCall
  <2>. QED
    BY <2>2 DEF r
<1>4. Steps(Now, T, k, g) /\ T.run[k] = g
  BY <1>2, NowIs DEF Steps, Shut, RowsStay
<1>5. run[k].pc # "unborn"
  BY NowIs DEF CommitMain, Sound, Placed
<1>. HIDE DEF T, g
<1>6. ASSUME NEW L, run[k].pc = "done" => k \in L
      PROVE  Sound(T, L)
  <2>1. /\ {} \subseteq L
        /\ Quiet(Now, k) => g.pc \in {"prep", "settle", "done"}
        /\ g.pc = "done" /\ g.gate \notin {"open", "lost"} => k \in L
    BY <1>3, <1>6, NowIs DEF Quiet
  <2>2. /\ DOMAIN T = DOMAIN Now /\ RowsStay(Now, T) /\ T.ctl = Now.ctl
        /\ T.run = [Now.run EXCEPT ![k] = g]
    BY <1>4 DEF Steps
  <2>3. /\ g.task = Now.run[k].task /\ g.how = Now.run[k].how /\ g.aborted = Now.run[k].aborted
        /\ Now.run[k].pc # "unborn" /\ g.pc # "unborn"
    BY <1>3, <1>5, NowIs DEF SameCall
  <2>4. ASSUME NEW M, Sound(Now, M), M \subseteq L
        PROVE  Sound(T, L)
    BY <1>3, <2>1, <2>2, <2>3, <2>4, StepSound
  <2>. QED
    BY <2>1, <2>4
<1>7. CASE run[k].pc = "done"
  <2>1. Sound(T, {k})
    BY <1>6
  <2>2. T.run[k].pc # "unborn" /\ run[k].task = T.run[k].task
    BY <1>3, <1>4, <1>5 DEF SameCall
  <2>. QED
    BY <1>1, <1>7, <2>1, <2>2, PublishSound, BecomeSound
<1>8. CASE run[k].pc # "done"
  <2>1. Sound(T, {})
    BY <1>6, <1>8
  <2>. QED
    BY <1>1, <1>8, <2>1, BecomeSound
<1>. QED
  BY <1>7, <1>8

LEMMA LoopEndSound ==
  ASSUME Sound(Now, {}), NEW k \in Runs,
         FinishLoop(k) \/ BreakLoop(k) \/ AbortLoop(k) \/ AbandonBatch(k)
  PROVE  Sound(Now', {})
<1>1. Now.run[k].pc = "loop"
  BY NowIs DEF FinishLoop, BreakLoop, AbortLoop, AbandonBatch, Working
<1>2. CASE FinishLoop(k) \/ BreakLoop(k) \/ AbortLoop(k)
  <2>1. \E outcome \in {"ok", "failed"} : Become(Leave(Now, k, outcome))
    BY <1>2 DEF FinishLoop, BreakLoop, AbortLoop
  <2>. QED
    BY <1>1, <2>1, LeaveSound, BecomeSound
<1>3. CASE AbandonBatch(k)
  <2>. DEFINE cs == OpenBatch(k)
              closed == Gated(Now, cs, "lost")
              none == {}
  <2>1. Become(Leave(closed, k, "failed"))
    BY <1>3 DEF AbandonBatch
  <2>2. none \cup none = {} /\ none = {}
    OBVIOUS
  <2>3. Gates(Now, closed, cs, "lost")
    BY GatedIs DEF Sound
  <2>. HIDE DEF cs, none
  <2>4. Sound(closed, none \cup none)
    BY <2>2, GatedSound
  <2>. HIDE DEF closed
  <2>5. closed.run[k].pc = "loop"
    BY <1>1, <2>3 DEF Gates
  <2>6. Sound(Leave(closed, k, "failed"), {})
    BY <2>2, <2>4, <2>5, LeaveSound
  <2>. QED
    BY <2>1, <2>6, BecomeSound
<1>. QED
  BY <1>2, <1>3

LEMMA CommitBatchSound ==
  ASSUME Sound(Now, {}), NEW k \in Runs, CommitBatch(k)
  PROVE  Sound(Now', {})
<1>. DEFINE cs == OpenBatch(k)
            closed == Gated(Now, cs, "committed")
            over == {c \in cs : run[c].pc = "done"}
            status == [t \in Tasks |->
                         IF Running(closed, t) THEN Ending(store[t].token) ELSE "none"]
            none == {}
<1>1. Become(Conclude(closed, Current(closed, over), status))
  BY DEF CommitBatch
<1>2. \A c \in Runs : c \in cs /\ Now.run[c].pc = "done" => c \in over
  BY NowIs
<1>3. \A t \in Current(closed, over) : status[t] \in Endings /\ status[t] # "killed"
  BY DEF Current, Ending, Endings
<1>4. none \cup over = over /\ none = {} /\ over \ over = {}
  OBVIOUS
<1>. HIDE DEF cs, over, status, none
<1>5. Sound(closed, none \cup over)
  BY <1>2, <1>4, GatedSound
<1>. HIDE DEF closed
<1>6. Sound(Conclude(closed, Current(closed, over), status), over \ over)
  BY <1>3, <1>4, <1>5, ConcludeSound
<1>. QED
  BY <1>1, <1>4, <1>6, BecomeSound

LEMMA SettleSound ==
  ASSUME Sound(Now, {}), NEW k \in Runs, Settle(k)
  PROVE  Sound(Now', {})
<1>1. Become(Report(Now, k)) /\ Now.run[k].pc # "unborn"
  BY NowIs DEF Settle
<1>2. Sound(Report(Now, k), {})
  BY <1>1, NowIs, ReportSound
<1>. QED
  BY <1>1, <1>2, BecomeSound

LEMMA ResumeFailsSound ==
  ASSUME Sound(Now, {}), NEW k \in Runs, ResumeFails(k)
  PROVE  Sound(Now', {})
<1>. DEFINE T == [Now EXCEPT !.run[k].pc = "done", !.run[k].outcome = "setup"]
            ks == {k}
<1>1. Become(Finish(T, ks, "error")) /\ Now.run[k].pc # "unborn"
  BY NowIs DEF ResumeFails
<1>2. /\ {} \subseteq ks /\ k \in ks /\ ks \ ks = {}
      /\ "error" \in Endings /\ "error" # "killed"
  BY DEF Endings
<1>. HIDE DEF ks
<1>3. Sound(T, ks)
  BY <1>1, <1>2, PcSound
<1>. HIDE DEF T
<1>4. Sound(Finish(T, ks, "error"), ks \ ks)
  BY <1>2, <1>3, FinishSound
<1>. QED
  BY <1>1, <1>2, <1>4, BecomeSound

LEMMA EndShellSound ==
  ASSUME Sound(Now, {}), NEW t \in Tasks, NEW status \in Endings, EndShell(t, status)
  PROVE  Sound(Now', {})
<1>. DEFINE k == store[t].token
            T == [Now EXCEPT !.run[k].pc = "done"]
            ks == {k}
<1>1. Become(Finish(T, ks, status)) /\ Running(Now, t) /\ ~Agent(Now, t)
  BY DEF EndShell
<1>2. Fine(Now) /\ k \in Runs /\ Now.run[k].pc # "unborn"
  BY <1>1, NowIs DEF Sound, Fine, Running, Good, RunsAreFresh, TokensAreOwned
<1>3. /\ {} \subseteq ks /\ k \in ks /\ ks \ ks = {}
      /\ "done" \in {"loop", "parked", "exit", "settle", "done"}
      /\ "none" \in {"none", "ok", "failed", "setup"}
  OBVIOUS
<1>4. ASSUME NEW u \in Tasks, Now.store[u].token \in ks
      PROVE  ~Agent(Now, u)
  <2>1. Now.store[u].token = k /\ Now.store[t].token = k
    BY <1>4, NowIs
  <2>2. u = t
    BY <1>2, <2>1 DEF Fine, Good, TokensAreOwned
  <2>. QED
    BY <1>1, <2>2
<1>. HIDE DEF ks, k
<1>5. Sound(T, ks)
  BY <1>2, <1>3, PcSound
<1>6. T.store = Now.store
  BY NowIs
<1>. HIDE DEF T
<1>7. \A u \in Current(T, ks) : Agent(T, u) => status # "killed"
  BY <1>4, <1>6 DEF Current, Agent
<1>8. Sound(Finish(T, ks, status), ks \ ks)
  BY <1>5, <1>7, FinishSound
<1>. QED
  BY <1>1, <1>3, <1>8, BecomeSound

\* A stop that names a row stops the run of it.
LEMMA StopSound ==
  ASSUME Sound(Now, {}), NEW t \in Tasks, Present(Now, t),
         NEW force \in BOOLEAN, NEW byUser, NEW quiet \in BOOLEAN,
         force /\ quiet => store[t].status # "killed"
  PROVE  Sound(CancelTaskTree(Now, store[t].token, force, byUser, quiet), {})
<1>. DEFINE k == store[t].token
<1>1. Fine(Now)
  BY DEF Sound
<1>2. k \in Runs
  BY <1>1, NowIs DEF Fine, Typed, Minted
<1>3. Now.run[k].task = t
  BY <1>1, <1>2, NowIs DEF Fine, Good, TokensAreOwned
<1>4. {} \ {k} = {} /\ Now.store = store
  BY NowIs
<1>. HIDE DEF k
<1>5. Sound(CancelTaskTree(Now, k, force, byUser, quiet), {} \ {k})
  BY <1>3, <1>4, CancelSound
<1>. QED
  BY <1>4, <1>5 DEF k

LEMMA CloseRowSound ==
  ASSUME Sound(Now, {}), NEW t \in Tasks, CloseRow(t)
  PROVE  Sound(Now', {})
<1>. DEFINE stopped == IF Running(Now, t)
                       THEN CancelTaskTree(Now, store[t].token, TRUE, TRUE, FALSE) ELSE Now
<1>1. Become(Evicted(stopped, Tree(stopped, t, TRUE))) /\ Present(Now, t) /\ Removes
  BY DEF CloseRow, Removes
<1>2. stopped \in {Now, CancelTaskTree(Now, store[t].token, TRUE, TRUE, FALSE)}
  OBVIOUS
<1>3. Sound(CancelTaskTree(Now, store[t].token, TRUE, TRUE, FALSE), {})
  BY <1>1, StopSound
<1>. HIDE DEF stopped
<1>4. Sound(stopped, {})
  BY <1>2, <1>3
<1>5. Sound(Evicted(stopped, Tree(stopped, t, TRUE)), {})
  BY <1>1, <1>4, EvictSound
<1>. QED
  BY <1>1, <1>5, BecomeSound

LEMMA TaskStepSound ==
  ASSUME Sound(Now, {}), NEW t \in Tasks, TaskStep(t)
  PROVE  Sound(Now', {})
<1>1. CASE UserStop(t)
  <2>1. Sound(CancelTaskTree(Now, store[t].token, TRUE, TRUE, FALSE), {})
    BY <1>1, StopSound DEF UserStop
  <2>. QED
    BY <1>1, <2>1, BecomeSound DEF UserStop
<1>2. CASE TaskStop(t)
  <2>1. /\ Present(Now, t)
        /\ ~Running(Now, t) => store[t].status # "killed"
    BY <1>2, NowIs DEF TaskStop, WasParked, Running, Present
  <2>. DEFINE f == ~Running(Now, t)
  <2>2. f \in BOOLEAN /\ (f => store[t].status # "killed")
    BY <2>1
  <2>3. Become(CancelTaskTree(Now, store[t].token, f, FALSE, f))
    BY <1>2 DEF TaskStop
  <2>. HIDE DEF f
  <2>4. Sound(CancelTaskTree(Now, store[t].token, f, FALSE, f), {})
    BY <2>1, <2>2, StopSound
  <2>. QED
    BY <2>3, <2>4, BecomeSound
<1>3. CASE ShellExits(t) \/ KillShell(t)
  <2>1. "completed" \in Endings /\ "killed" \in Endings
    BY DEF Endings
  <2>. QED
    BY <1>3, <2>1, EndShellSound DEF ShellExits, KillShell
<1>4. CASE Evict(t)
  <2>1. Sound(Evicted(Now, {t}), {})
    BY <1>4, EvictSound DEF Evict, Removes
  <2>. QED
    BY <1>4, <2>1, BecomeSound DEF Evict
<1>5. CASE CloseRow(t)
  BY <1>5, CloseRowSound
<1>. QED
  BY <1>1, <1>2, <1>3, <1>4, <1>5 DEF TaskStep

LEMMA CancelTurnSound ==
  ASSUME Sound(Now, {}), CancelTurn
  PROVE  Sound(Now', {})
<1>1. PICK hit : Become(Abort(Now, hit))
  BY Zenon DEF CancelTurn
<1>2. Sound(Abort(Now, hit), {})
  BY AbortSound
<1>. QED
  BY <1>1, <1>2, BecomeSound

LEMMA StutterSound ==
  ASSUME Sound(Now, {}), UNCHANGED vars
  PROVE  Sound(Now', {})
<1>1. Become(Now)
  BY NowIs DEF Become, vars
<1>. QED
  BY <1>1, BecomeSound

\* A run begins in a row of its own, and a stop reaches it.
BeginsAs(t, k, row, e) ==
  /\ run[k].pc = "unborn"
  /\ store' = [store EXCEPT ![t] = row] /\ run' = [run EXCEPT ![k] = e]
  /\ UNCHANGED <<queue, posted>>
  /\ row \in RowShape /\ row.token = k /\ row.term = "pending" /\ ~row.notified
  /\ row.mode = "linked" => row.kind = "agent"
  /\ e \in RunType /\ e.task = t /\ e.pc \in {"launch", "prep", "proc"}
  /\ \/ ctl' = [ctl EXCEPT ![t] = IF row.kind = "agent" THEN k ELSE NoRun] /\ row.status = "running"
     \/ ctl' = ctl /\ e.pc = "prep"

LEMMA BeginsSound ==
  ASSUME Sound(Now, {}), NEW t \in Tasks, NEW k \in Runs, NEW row, NEW e, BeginsAs(t, k, row, e)
  PROVE  Sound(Now', {})
<1>1. Fine(Now) /\ Matched(Now) /\ Placed(Now) /\ StopsHeard(Now) /\ ReportsEnd(Now, {})
  BY DEF Sound
<1>2. /\ Now.store \in [Tasks -> RowShape] /\ Now.run \in [Runs -> RunType]
      /\ Now.ctl \in [Tasks -> Runs \cup {NoRun}] /\ Now.queue \subseteq NoticeShape
      /\ Now.posted \subseteq Runs
  BY <1>1 DEF Fine, Typed
<1>3. /\ Now'.store[t] = row /\ \A u \in Tasks : u # t => Now'.store[u] = Now.store[u]
      /\ Now'.run[k] = e /\ \A j \in Runs : j # k => Now'.run[j] = Now.run[j]
      /\ Now'.queue = Now.queue /\ Now'.posted = Now.posted
      /\ Now'.store \in [Tasks -> RowShape] /\ Now'.run \in [Runs -> RunType]
  BY <1>2, NowIs DEF BeginsAs
<1>4. /\ Now'.ctl \in [Tasks -> Runs \cup {NoRun}]
      /\ \A u \in Tasks : u # t => Now'.ctl[u] = Now.ctl[u]
      /\ e.pc = "prep" \/ (row.status = "running" /\ (row.kind = "agent" => Now'.ctl[t] = k))
  BY <1>2, NowIs DEF BeginsAs
<1>5. /\ Now.run[k].pc = "unborn" /\ row \in RowShape /\ row.token = k /\ row.term = "pending"
      /\ ~row.notified /\ (row.mode = "linked" => row.kind = "agent")
      /\ e \in RunType /\ e.task = t /\ e.pc \in {"launch", "prep", "proc"}
  BY NowIs DEF BeginsAs
<1>6. Good(Now')
  <2>1. FreshRow(row, k) /\ FreshExecution(e, t)
    BY <1>5 DEF FreshRow, FreshExecution, RowShape, RunType
  <2>2. Begins
    BY <1>1, <2>1, FreshBegins DEF BeginsAs, Fine
  <2>. QED
    BY <1>1, <2>2, BeginsKeeps DEF Fine
<1>7. /\ k \notin Now.posted /\ \A u \in Tasks : Now.store[u].token # k
      /\ \A f \in Now.queue : f.token \in Runs /\ f.token # k /\ f.key.task \in Tasks
  BY <1>1, <1>2, <1>5 DEF Fine, Good, PostedRan, TokensAreOwned, Matched, NoticesArePosted, NoticeShape
<1>. DEFINE T == Now'
<1>. HIDE DEF T
<1>8. /\ T.store[t] = row /\ \A u \in Tasks : u # t => T.store[u] = Now.store[u]
      /\ T.run[k] = e /\ \A j \in Runs : j # k => T.run[j] = Now.run[j]
      /\ T.queue = Now.queue /\ T.posted = Now.posted
      /\ T.store \in [Tasks -> RowShape] /\ T.run \in [Runs -> RunType]
      /\ T.ctl \in [Tasks -> Runs \cup {NoRun}]
      /\ \A u \in Tasks : u # t => T.ctl[u] = Now.ctl[u]
      /\ e.pc = "prep" \/ (row.status = "running" /\ (row.kind = "agent" => T.ctl[t] = k))
      /\ Good(T)
  BY <1>3, <1>4, <1>6 DEF T
<1>9. Fine(T)
  <2>1. Minted(T)
    BY <1>1, <1>5, <1>8 DEF Fine, Typed, Minted, Present
  <2>. QED
    BY <1>2, <1>8, <2>1 DEF Fine, Typed
<1>10. Placed(T)
  BY <1>1, <1>5, <1>8 DEF Placed
<1>11. NoticesArePosted(T) /\ KeysAreUnique(T) /\ NoticesFit(T)
  <2>1. NoticesArePosted(T) /\ KeysAreUnique(T)
    BY <1>1, <1>7, <1>8 DEF Matched, NoticesArePosted, KeysAreUnique
  <2>2. ASSUME NEW f \in T.queue, T.store[f.key.task].token = f.token
        PROVE  /\ f.key = KeyOf(T, f.key.task)
               /\ f.owner = T.store[f.key.task].owner
               /\ T.store[f.key.task].term = IF f.private THEN "owner" ELSE "main"
    <3>1. f \in Now.queue /\ f.key.task \in Tasks /\ f.token # k
      BY <1>7, <1>8
    <3>2. f.key.task # t
      BY <1>5, <1>8, <2>2, <3>1
    <3>3. T.store[f.key.task] = Now.store[f.key.task]
      BY <1>8, <3>1, <3>2
    <3>. QED
      BY <1>1, <2>2, <3>1, <3>3 DEF Matched, NoticesFit, KeyOf
  <2>. QED
    BY <2>1, <2>2 DEF NoticesFit
<1>12. OwnersWait(T) /\ ToldArePosted(T) /\ LinkedAnswer(T)
  BY <1>1, <1>5, <1>8 DEF Matched, OwnersWait, ToldArePosted, LinkedAnswer, Agent
<1>13. ReportsEnd(T, {})
  <2>. SUFFICES ASSUME NEW u \in Tasks, Running(T, u), Reported(T, T.store[u].token)
                PROVE  FALSE
    BY DEF ReportsEnd
  <2>1. u # t
    BY <1>5, <1>8 DEF Reported
  <2>2. Running(Now, u) /\ T.store[u].token = Now.store[u].token /\ Now.store[u].token \in Runs
    BY <1>1, <1>8, <2>1 DEF Running, Fine, Good, RunsAreFresh
  <2>. QED
    BY <1>1, <1>7, <1>8, <2>2 DEF ReportsEnd, Reported
<1>14. StopsHeard(T)
  <2>. SUFFICES ASSUME NEW u \in Tasks, Agent(T, u), T.store[u].token \in Runs
                PROVE  \/ Viewed(T, u)
                       \/ T.run[T.store[u].token].aborted
                       \/ Quiet(T, T.store[u].token)
                       \/ T.store[u].status # "killed" /\ T.ctl[u] = T.store[u].token
    BY DEF StopsHeard
  <2>1. CASE u = t
    BY <1>5, <1>8, <2>1 DEF Quiet, Agent
  <2>2. CASE u # t
    <3>1. Agent(Now, u) /\ T.store[u] = Now.store[u] /\ Now.store[u].token # k
      BY <1>7, <1>8, <2>2 DEF Agent
    <3>2. Viewed(Now, u) => Viewed(T, u)
      <4>. SUFFICES ASSUME NEW j \in Runs, Now.run[j].task = u, Now.run[j].how = "view"
                    PROVE  Viewed(T, u)
        BY DEF Viewed
      <4>1. j # k
        BY <1>1, <1>5 DEF Placed
      <4>. QED
        BY <1>8, <4>1 DEF Viewed
    <3>3. \/ Viewed(Now, u)
          \/ Now.run[Now.store[u].token].aborted
          \/ Quiet(Now, Now.store[u].token)
          \/ Now.store[u].status # "killed" /\ Now.ctl[u] = Now.store[u].token
      BY <1>1, <3>1 DEF StopsHeard
    <3>4. T.run[T.store[u].token] = Now.run[Now.store[u].token]
      BY <1>8, <3>1
    <3>. QED
      BY <1>8, <2>2, <3>1, <3>2, <3>3, <3>4 DEF Quiet
  <2>. QED
    BY <2>1, <2>2
<1>. QED
  BY <1>9, <1>10, <1>11, <1>12, <1>13, <1>14 DEF Sound, Matched, T

LEMMA LaunchedSound ==
  ASSUME Sound(Now, {}), NEW t \in Tasks, NEW k \in Runs, NEW kind \in {"agent", "shell"},
         NEW mode \in {"linked", "detached"}, mode = "linked" => kind = "agent", NEW bg \in BOOLEAN,
         NEW owner \in Tasks \cup {Main}, NEW parent \in Tasks \cup {Main},
         NEW how \in {"main", "nested", "directive", "shell"}, NEW pc \in {"launch", "proc"},
         NEW caller \in Runs \cup {NoRun}, NEW gate \in {"none", "open"},
         Launch(t, k, Row(kind, k, mode, bg, owner, parent), Execution(t, how, pc, caller, gate))
  PROVE  Sound(Now', {})
<1>. DEFINE row == Row(kind, k, mode, bg, owner, parent)
            e == Execution(t, how, pc, caller, gate)
<1>1. /\ row \in RowShape /\ row.token = k /\ row.term = "pending" /\ row.notified = FALSE
      /\ row.mode = mode /\ row.kind = kind /\ row.status = "running"
  BY DEF Row, RowShape, Statuses
<1>2. e \in RunType /\ e.task = t /\ e.pc = pc
  BY DEF Execution, RunType
<1>3. Launch(t, k, row, e)
  OBVIOUS
<1>. HIDE DEF row, e
<1>4. BeginsAs(t, k, row, e)
  BY <1>1, <1>2, <1>3 DEF BeginsAs, Launch, Fresh
<1>. QED
  BY <1>4, BeginsSound

\* A row that is resumed, from the view or by a message.
Sent(row, k, owner) == [Reopened(row, k) EXCEPT !.bg = TRUE, !.owner = owner]

IsReopened(row, k, new) ==
  /\ new \in RowShape /\ new.token = k /\ new.term = "pending" /\ ~new.notified
  /\ new.kind = "agent" /\ new.gen = row.gen + 1 /\ new.status = "running"

LEMMA ReopenedIs ==
  ASSUME NEW row \in RowShape, NEW k \in Runs, row.kind = "agent"
  PROVE  /\ IsReopened(row, k, Reopened(row, k))
         /\ \A owner \in Tasks \cup {Main} : IsReopened(row, k, Sent(row, k, owner))
<1>. DEFINE halted == IF row.halted = "row" THEN "disk" ELSE row.halted
            new == Reopened(row, k)
<1>1. halted \in {"no", "row", "disk"} /\ row.gen + 1 \in Nat
  BY DEF RowShape
<1>2. new = [row EXCEPT !.status = "running", !.gen = row.gen + 1, !.token = k,
                        !.mode = "detached", !.term = "pending", !.notified = FALSE,
                        !.moved = FALSE, !.halted = halted]
  BY DEF Reopened
<1>. HIDE DEF halted, new
<1>3. /\ new \in RowShape /\ new.token = k /\ new.term = "pending" /\ new.notified = FALSE
      /\ new.kind = "agent" /\ new.gen = row.gen + 1 /\ new.status = "running"
  BY <1>1, <1>2 DEF RowShape, Statuses
<1>4. ASSUME NEW owner \in Tasks \cup {Main}
      PROVE  IsReopened(row, k, Sent(row, k, owner))
  <2>. DEFINE sent == [new EXCEPT !.bg = TRUE, !.owner = owner]
  <2>1. /\ sent \in RowShape /\ sent.token = k /\ sent.term = "pending" /\ sent.notified = FALSE
        /\ sent.kind = "agent" /\ sent.gen = row.gen + 1 /\ sent.status = "running"
    BY <1>3 DEF RowShape
  <2>2. Sent(row, k, owner) = sent
    BY DEF Sent, new
  <2>. HIDE DEF sent
  <2>. QED
    BY <2>1, <2>2 DEF IsReopened
<1>. QED
  BY <1>3, <1>4 DEF new, IsReopened

LEMMA StartSound ==
  ASSUME Sound(Now, {}), NEW t \in Tasks, NEW k \in Runs, Start(t, k)
  PROVE  Sound(Now', {})
<1>1. /\ \A p \in Runs : run[p].pc # "unborn" => run[p].task \in Tasks
      /\ store \in [Tasks -> RowShape]
  BY NowIs DEF Sound, Fine, Typed, Placed
<1>2. NoRun \in Runs \cup {NoRun} /\ Main \in Tasks \cup {Main}
  OBVIOUS
<1>3. CASE StartMain(t, k)
  BY <1>2, <1>3, LaunchedSound DEF StartMain
<1>4. CASE StartDirective(t, k)
  BY <1>2, <1>4, LaunchedSound DEF StartDirective
<1>5. ASSUME NEW p \in Runs, StartNested(p, t, k)
      PROVE  Sound(Now', {})
  <2>. DEFINE parent == IF run[p].how = "view" THEN Main ELSE run[p].task
  <2>1. /\ run[p].task \in Tasks \cup {Main} /\ parent \in Tasks \cup {Main}
        /\ Launch(t, k, Row("agent", k, "linked", TRUE, run[p].task, parent),
                  Execution(t, "nested", "launch", p, "open"))
    BY <1>1, <1>5 DEF StartNested, Working
  <2>. HIDE DEF parent
  <2>. QED
    BY <2>1, LaunchedSound
<1>6. ASSUME NEW p \in Runs \cup {NoRun}, StartShell(p, t, k)
      PROVE  Sound(Now', {})
  <2>. DEFINE owner == IF p = NoRun THEN Main ELSE run[p].task
  <2>1. /\ owner \in Tasks \cup {Main}
        /\ Launch(t, k, Row("shell", k, "detached", TRUE, owner, Main),
                  Execution(t, "shell", "proc", NoRun, "none"))
    BY <1>1, <1>6 DEF StartShell, Working
  <2>. HIDE DEF owner
  <2>. QED
    BY <1>2, <2>1, LaunchedSound
<1>7. CASE SendMessage(t, k)
  <2>. DEFINE row == [Reopened(store[t], k) EXCEPT !.bg = TRUE, !.owner = OwnerAfterResume(t)]
              e == Execution(t, "send", "prep", NoRun, "none")
  <2>1. OwnerAfterResume(t) \in Tasks \cup {Main} /\ store[t].kind = "agent" /\ store[t] \in RowShape
    BY <1>1, <1>7, NowIs DEF OwnerAfterResume, SendMessage, Agent, RowShape
  <2>2. row \in RowShape /\ row.token = k /\ row.term = "pending" /\ ~row.notified
        /\ row.kind = "agent"
    <3>1. IsReopened(store[t], k, Sent(store[t], k, OwnerAfterResume(t)))
      BY <2>1, ReopenedIs
    <3>. QED
      BY <3>1 DEF IsReopened, Sent
  <2>3. e \in RunType /\ e.task = t /\ e.pc = "prep"
    BY DEF Execution, RunType
  <2>4. /\ run[k].pc = "unborn" /\ store' = [store EXCEPT ![t] = row]
        /\ run' = [run EXCEPT ![k] = e] /\ UNCHANGED <<ctl, queue, posted>>
    BY <1>7 DEF SendMessage, Fresh
  <2>. HIDE DEF row, e
  <2>5. BeginsAs(t, k, row, e)
    BY <2>2, <2>3, <2>4 DEF BeginsAs
  <2>. QED
    BY <2>5, BeginsSound
<1>8. CASE ViewResume(t, k)
  <2>. DEFINE row == Reopened(store[t], k)
              e == Execution(t, "view", "prep", NoRun, "none")
  <2>1. store[t].kind = "agent" /\ store[t] \in RowShape
    BY <1>1, <1>8, NowIs DEF ViewResume, Agent
  <2>2. row \in RowShape /\ row.token = k /\ row.term = "pending" /\ ~row.notified
        /\ row.kind = "agent"
    BY <2>1, ReopenedIs DEF IsReopened
  <2>3. e \in RunType /\ e.task = t /\ e.pc = "prep"
    BY DEF Execution, RunType
  <2>4. /\ run[k].pc = "unborn" /\ store' = [store EXCEPT ![t] = row]
        /\ run' = [run EXCEPT ![k] = e] /\ UNCHANGED <<ctl, queue, posted>>
    BY <1>8 DEF ViewResume, Fresh
  <2>. HIDE DEF row, e
  <2>5. BeginsAs(t, k, row, e)
    BY <2>2, <2>3, <2>4 DEF BeginsAs
  <2>. QED
    BY <2>5, BeginsSound
<1>. QED
  BY <1>3, <1>4, <1>5, <1>6, <1>7, <1>8 DEF Start

\* The call of the tool answers, and the agent works on in the background.
LEMMA DetachSound ==
  ASSUME Sound(Now, {}), NEW k \in Runs, Detach(k)
  PROVE  Sound(Now', {})
<1>. DEFINE t == run[k].task
            row == [store[t] EXCEPT !.mode = "detached", !.bg = TRUE]
            e == [run[k] EXCEPT !.linked = FALSE]
            T == Now'
<1>1. Fine(Now) /\ Matched(Now) /\ Placed(Now) /\ StopsHeard(Now) /\ ReportsEnd(Now, {})
  BY DEF Sound
<1>2. /\ run[k].gate = "open" /\ store[t].mode = "linked" /\ Matches(Now, k)
      /\ store' = [store EXCEPT ![t] = row] /\ run' = [run EXCEPT ![k] = e]
      /\ UNCHANGED <<ctl, queue, posted>>
  BY DEF Detach
<1>3. /\ store \in [Tasks -> RowShape] /\ run \in [Runs -> RunType]
  BY <1>1, NowIs DEF Fine, Typed
<1>4. ASSUME NEW u \in Tasks
      PROVE  /\ store'[u] \in RowShape
             /\ store'[u].kind = store[u].kind /\ store'[u].status = store[u].status
             /\ store'[u].gen = store[u].gen /\ store'[u].token = store[u].token
             /\ store'[u].owner = store[u].owner /\ store'[u].term = store[u].term
             /\ store'[u].mode = "linked" => store[u].mode = "linked"
  <2>1. store[u] \in RowShape
    BY <1>3
  <2>2. \/ store'[u] = store[u]
        \/ store'[u] = [store[u] EXCEPT !.mode = "detached", !.bg = TRUE]
    BY <1>2, <1>3
  <2>. HIDE DEF row, t
  <2>. QED
    BY <2>1, <2>2 DEF RowShape
<1>5. ASSUME NEW j \in Runs
      PROVE  /\ run'[j] \in RunType
             /\ run'[j].task = run[j].task /\ run'[j].how = run[j].how /\ run'[j].pc = run[j].pc
             /\ run'[j].aborted = run[j].aborted /\ run'[j].gate = run[j].gate
  <2>1. run[j] \in RunType
    BY <1>3
  <2>2. run'[j] = run[j] \/ run'[j] = [run[j] EXCEPT !.linked = FALSE]
    BY <1>2, <1>3
  <2>. HIDE DEF e
  <2>. QED
    BY <2>1, <2>2 DEF RunType
<1>6. /\ T.queue = Now.queue /\ T.posted = Now.posted /\ T.ctl = Now.ctl
      /\ T.store \in [Tasks -> RowShape] /\ T.run \in [Runs -> RunType]
  <2>1. store' \in [Tasks -> RowShape] /\ run' \in [Runs -> RunType]
    BY <1>2, <1>3, <1>4, <1>5
  <2>. QED
    BY <1>2, <2>1, NowIs
<1>7. Good(T)
  BY <1>1, DetachLeads, LeadsKeepsGood DEF Fine
<1>8. /\ \A u \in Tasks :
           /\ T.store[u].kind = Now.store[u].kind /\ T.store[u].status = Now.store[u].status
           /\ T.store[u].gen = Now.store[u].gen /\ T.store[u].token = Now.store[u].token
           /\ T.store[u].owner = Now.store[u].owner /\ T.store[u].term = Now.store[u].term
           /\ T.store[u].mode = "linked" => Now.store[u].mode = "linked"
      /\ \A j \in Runs :
           /\ T.run[j].task = Now.run[j].task /\ T.run[j].how = Now.run[j].how
           /\ T.run[j].pc = Now.run[j].pc /\ T.run[j].aborted = Now.run[j].aborted
           /\ T.run[j].gate = Now.run[j].gate
  BY <1>4, <1>5, NowIs
<1>. HIDE DEF T
<1>9. Fine(T)
  BY <1>1, <1>6, <1>7, <1>8 DEF Fine, Typed, Minted, Present
<1>10. Placed(T) /\ StopsHeard(T)
  <2>1. \A j \in Runs : Ongoing(Now, T, j)
    BY <1>8 DEF Ongoing, Quiet
  <2>2. \A u \in Tasks : Steers(Now, T, u)
    BY <1>6, <1>8 DEF Steers
  <2>. QED
    BY <1>1, <1>8, <1>9, <2>1, <2>2, RunsKept
<1>11. ReportsEnd(T, {})
  BY <1>1, <1>8, SMTT(30) DEF ReportsEnd, Running, Reported, Fine, Good, RunsAreFresh
<1>12. \A f \in Now.queue : f.token \in Runs /\ f.key.task \in Tasks
  BY <1>1 DEF Fine, Typed, NoticeShape
<1>13. NoticesArePosted(T) /\ KeysAreUnique(T) /\ NoticesFit(T)
  <2>1. NoticesArePosted(T) /\ KeysAreUnique(T)
    BY <1>1, <1>6, <1>8, <1>12 DEF Matched, NoticesArePosted, KeysAreUnique
  <2>2. \A u \in Tasks : KeyOf(T, u) = KeyOf(Now, u)
    BY <1>8 DEF KeyOf
  <2>3. NoticesFit(T)
    BY <1>1, <1>6, <1>8, <1>12, <2>2 DEF Matched, NoticesFit
  <2>. QED
    BY <2>1, <2>3
<1>14. OwnersWait(T) /\ ToldArePosted(T) /\ LinkedAnswer(T)
  BY <1>1, <1>6, <1>8 DEF Matched, OwnersWait, ToldArePosted, LinkedAnswer, Agent
<1>. QED
  BY <1>9, <1>10, <1>11, <1>13, <1>14 DEF Sound, Matched, T

\* A reader that takes what is in its place leaves nothing behind it that a row points at.
LEMMA ReadSound ==
  ASSUME Sound(Now, {}), NEW taken, queue' = queue \ taken, UNCHANGED <<run, ctl, posted>>,
         Good(Now'), store' \in [Tasks -> RowShape],
         \A t \in Tasks :
           \/ /\ store'[t] = store[t]
              /\ store[t].token \in Runs /\ store[t].term = "owner" =>
                   \A e \in taken \cap queue : e.key # KeyOf(Now, t)
           \/ /\ \E e \in taken \cap queue : e.key = KeyOf(Now, t)
              /\ store'[t] = [store[t] EXCEPT !.term = "parent"]
  PROVE  Sound(Now', {})
<1>. DEFINE T == Now'
<1>1. Fine(Now) /\ Matched(Now) /\ Placed(Now) /\ StopsHeard(Now) /\ ReportsEnd(Now, {})
  BY DEF Sound
<1>2. /\ T.run = Now.run /\ T.ctl = Now.ctl /\ T.posted = Now.posted
      /\ T.queue = Now.queue \ taken /\ T.store \in [Tasks -> RowShape]
  BY NowIs
<1>3. ASSUME NEW t \in Tasks
      PROVE  /\ T.store[t].kind = Now.store[t].kind /\ T.store[t].status = Now.store[t].status
             /\ T.store[t].gen = Now.store[t].gen /\ T.store[t].token = Now.store[t].token
             /\ T.store[t].owner = Now.store[t].owner /\ T.store[t].mode = Now.store[t].mode
             /\ \/ /\ T.store[t].term = Now.store[t].term
                   /\ Now.store[t].token \in Runs /\ Now.store[t].term = "owner" =>
                        \A e \in taken \cap Now.queue : e.key # KeyOf(Now, t)
                \/ /\ \E e \in taken \cap Now.queue : e.key = KeyOf(Now, t)
                   /\ T.store[t].term = "parent"
  <2>1. store[t] \in RowShape
    BY <1>1, NowIs DEF Fine, Typed
  <2>2. CASE /\ store'[t] = store[t]
             /\ store[t].token \in Runs /\ store[t].term = "owner" =>
                  \A e \in taken \cap queue : e.key # KeyOf(Now, t)
    BY <2>2, NowIs
  <2>3. CASE /\ \E e \in taken \cap queue : e.key = KeyOf(Now, t)
             /\ store'[t] = [store[t] EXCEPT !.term = "parent"]
    <3>1. /\ store'[t].kind = store[t].kind /\ store'[t].status = store[t].status
          /\ store'[t].gen = store[t].gen /\ store'[t].token = store[t].token
          /\ store'[t].owner = store[t].owner /\ store'[t].mode = store[t].mode
          /\ store'[t].term = "parent"
      BY <2>1, <2>3 DEF RowShape
    <3>. QED
      BY <2>3, <3>1, NowIs
  <2>. QED
    BY <2>2, <2>3
<1>. HIDE DEF T
<1>4. Fine(T)
  <2>1. Minted(T)
    BY <1>1, <1>3 DEF Fine, Typed, Minted, Present
  <2>2. Good(T)
    BY DEF T
  <2>. QED
    BY <1>1, <1>2, <2>1, <2>2 DEF Fine, Typed
<1>5. Placed(T) /\ StopsHeard(T)
  <2>1. \A j \in Runs : Ongoing(Now, T, j)
    BY <1>2 DEF Ongoing, Quiet
  <2>2. \A u \in Tasks : Steers(Now, T, u)
    BY <1>2, <1>3 DEF Steers
  <2>. QED
    BY <1>1, <1>3, <1>4, <2>1, <2>2, RunsKept
<1>6. ReportsEnd(T, {})
  BY <1>1, <1>2, <1>3 DEF ReportsEnd, Running, Reported, Fine, Good, RunsAreFresh
<1>7. \A f \in Now.queue : f.token \in Runs /\ f.key.task \in Tasks
  BY <1>1 DEF Fine, Typed, NoticeShape
<1>8. NoticesArePosted(T) /\ KeysAreUnique(T)
  BY <1>1, <1>2, <1>7 DEF Matched, NoticesArePosted, KeysAreUnique
<1>9. \A u \in Tasks : KeyOf(T, u) = KeyOf(Now, u)
  BY <1>3 DEF KeyOf
<1>10. NoticesFit(T)
  <2>. SUFFICES ASSUME NEW f \in T.queue, T.store[f.key.task].token = f.token
                PROVE  /\ f.key = KeyOf(T, f.key.task)
                       /\ f.owner = T.store[f.key.task].owner
                       /\ T.store[f.key.task].term = IF f.private THEN "owner" ELSE "main"
    BY DEF NoticesFit
  <2>. DEFINE t == f.key.task
  <2>1. t \in Tasks /\ f \in Now.queue /\ f \notin taken /\ Now.store[t].token = f.token
    BY <1>2, <1>3, <1>7
  <2>2. /\ f.key = KeyOf(Now, t) /\ f.owner = Now.store[t].owner
        /\ Now.store[t].term = IF f.private THEN "owner" ELSE "main"
    BY <1>1, <2>1 DEF Matched, NoticesFit
  <2>. HIDE DEF t
  <2>3. ~\E e \in taken \cap Now.queue : e.key = KeyOf(Now, t)
    BY <1>1, <2>1, <2>2 DEF Matched, KeysAreUnique
  <2>4. T.store[t].term = Now.store[t].term /\ T.store[t].owner = Now.store[t].owner
    BY <1>3, <2>1, <2>3
  <2>. QED
    BY <1>9, <2>1, <2>2, <2>4 DEF t
<1>11. OwnersWait(T)
  <2>. SUFFICES ASSUME NEW t \in Tasks, T.store[t].token \in Runs, T.store[t].term = "owner"
                PROVE  \E e \in T.queue : e.token = T.store[t].token
    BY DEF OwnersWait
  <2>1. /\ Now.store[t].term = "owner" /\ Now.store[t].token = T.store[t].token
        /\ \A e \in taken \cap Now.queue : e.key # KeyOf(Now, t)
    BY <1>3
  <2>2. PICK e \in Now.queue : e.token = Now.store[t].token
    BY <1>1, <2>1 DEF Matched, OwnersWait
  <2>3. e.key = KeyOf(Now, t)
    BY <1>1, <2>1, <2>2, UntoldHasNoNotice
  <2>. QED
    BY <1>2, <2>1, <2>2, <2>3
<1>12. ToldArePosted(T) /\ LinkedAnswer(T)
  BY <1>1, <1>2, <1>3 DEF Matched, ToldArePosted, LinkedAnswer, Agent
<1>. QED
  BY <1>4, <1>5, <1>6, <1>8, <1>10, <1>11, <1>12 DEF Sound, Matched, T

LEMMA TakeSound ==
  ASSUME Sound(Now, {}), NEW k \in Runs, TakeForOwner(k)
  PROVE  Sound(Now', {})
<1>. DEFINE o == run[k].task
            taken == Inventory(Now, o)
<1>1. Fine(Now) /\ Matched(Now)
  BY DEF Sound
<1>2. Good(Now') /\ store \in [Tasks -> RowShape]
  BY <1>1, TakeForOwnerLeads, LeadsKeepsGood, NowIs DEF Fine, Typed
<1>3. /\ queue' = queue \ taken /\ UNCHANGED <<run, ctl, posted>>
      /\ store' = [t \in Tasks |->
             IF store[t].owner = o /\ store[t].term = "owner" /\ \E e \in taken : e.key = KeyOf(Now, t)
             THEN [store[t] EXCEPT !.term = "parent"] ELSE store[t]]
  BY DEF TakeForOwner
<1>4. taken \subseteq queue /\ \A e \in taken : e.owner = o
  BY NowIs DEF Inventory
<1>. HIDE DEF taken, o
<1>5. store' \in [Tasks -> RowShape]
  <2>1. ASSUME NEW t \in Tasks
        PROVE  store[t] \in RowShape /\ [store[t] EXCEPT !.term = "parent"] \in RowShape
    BY <1>2 DEF RowShape
  <2>. QED
    BY <1>3, <2>1
<1>6. ASSUME NEW t \in Tasks
      PROVE  \/ /\ store'[t] = store[t]
                /\ store[t].token \in Runs /\ store[t].term = "owner" =>
                     \A e \in taken \cap queue : e.key # KeyOf(Now, t)
             \/ /\ \E e \in taken \cap queue : e.key = KeyOf(Now, t)
                /\ store'[t] = [store[t] EXCEPT !.term = "parent"]
  <2>1. CASE store[t].owner = o /\ store[t].term = "owner" /\ \E e \in taken : e.key = KeyOf(Now, t)
    BY <1>3, <1>4, <2>1
  <2>2. CASE ~(store[t].owner = o /\ store[t].term = "owner" /\ \E e \in taken : e.key = KeyOf(Now, t))
    <3>1. store'[t] = store[t]
      BY <1>3, <2>2
    <3>2. ASSUME store[t].token \in Runs, store[t].term = "owner",
                 NEW e \in taken \cap queue, e.key = KeyOf(Now, t)
          PROVE  FALSE
      <4>1. /\ e \in Now.queue /\ e.owner = o /\ store[t].owner # o
            /\ Now.store[t].term = "owner" /\ Now.store[t].token \in Runs
        BY <1>4, <2>2, <3>2, NowIs
      <4>2. PICK f \in Now.queue : f.token = Now.store[t].token
        BY <1>1, <4>1 DEF Matched, OwnersWait
      <4>3. f.key = KeyOf(Now, t) /\ f.owner = Now.store[t].owner
        BY <1>1, <4>1, <4>2, UntoldHasNoNotice
      <4>4. f = e
        BY <1>1, <3>2, <4>1, <4>3 DEF Matched, KeysAreUnique
      <4>. QED
        BY <4>1, <4>3, <4>4, NowIs
    <3>. QED
      BY <3>1, <3>2
  <2>. QED
    BY <2>1, <2>2
<1>. QED
  BY <1>2, <1>3, <1>5, <1>6, ReadSound

LEMMA DrainSound ==
  ASSUME Sound(Now, {}), DrainMain
  PROVE  Sound(Now', {})
<1>. DEFINE taken == {e \in queue : ~e.private}
<1>1. Fine(Now) /\ Matched(Now)
  BY DEF Sound
<1>2. Good(Now')
  BY <1>1, DrainMainLeads, LeadsKeepsGood DEF Fine
<1>3. queue' = queue \ taken /\ UNCHANGED <<store, run, ctl, posted>>
  BY DEF DrainMain
<1>4. store' \in [Tasks -> RowShape]
  BY <1>1, <1>3, NowIs DEF Fine, Typed
<1>5. ASSUME NEW t \in Tasks, store[t].token \in Runs, store[t].term = "owner",
             NEW e \in taken \cap queue, e.key = KeyOf(Now, t)
      PROVE  FALSE
  <2>1. /\ e \in Now.queue /\ ~e.private
        /\ Now.store[t].term = "owner" /\ Now.store[t].token \in Runs
    BY <1>5, NowIs
  <2>2. PICK f \in Now.queue : f.token = Now.store[t].token
    BY <1>1, <2>1 DEF Matched, OwnersWait
  <2>3. f.key = KeyOf(Now, t) /\ Now.store[t].term = IF f.private THEN "owner" ELSE "main"
    BY <1>1, <2>1, <2>2, UntoldHasNoNotice
  <2>4. f = e
    BY <1>1, <1>5, <2>1, <2>3 DEF Matched, KeysAreUnique
  <2>. QED
    BY <2>1, <2>3, <2>4
<1>. HIDE DEF taken
<1>6. ASSUME NEW t \in Tasks
      PROVE  \/ /\ store'[t] = store[t]
                /\ store[t].token \in Runs /\ store[t].term = "owner" =>
                     \A e \in taken \cap queue : e.key # KeyOf(Now, t)
             \/ /\ \E e \in taken \cap queue : e.key = KeyOf(Now, t)
                /\ store'[t] = [store[t] EXCEPT !.term = "parent"]
  BY <1>3, <1>5
<1>. QED
  BY <1>2, <1>3, <1>4, <1>6, ReadSound

-----------------------------------------------------------------------------
(* The invariants together.                                                 *)

LEMMA RunStepSound ==
  ASSUME Sound(Now, {}), NEW k \in Runs, RunStep(k)
  PROVE  Sound(Now', {})
<1>1. CASE StartSent(k) \/ StartViewed(k)
  BY <1>1, StartsSound
<1>2. CASE Register(k) \/ Park(k) \/ WakeAborted(k) \/ Steer(k)
  BY <1>2, AwaitSound
<1>3. CASE FinishLoop(k) \/ BreakLoop(k) \/ AbortLoop(k) \/ AbandonBatch(k)
  BY <1>3, LoopEndSound
<1>. QED
  BY <1>1, <1>2, <1>3, ResumeFailsSound, LaunchFailsSound, TakeSound, CommitBatchSound,
     UnwindSound, SettleSound, CommitMainSound, DetachSound DEF RunStep

LEMMA StepKeepsSound ==
  ASSUME Sound(Now, {}), [Next]_vars
  PROVE  Sound(Now', {})
BY StartSound, RunStepSound, TaskStepSound, CancelTurnSound, DrainSound, StutterSound DEF Next

LEMMA InitSound ==
  ASSUME Init
  PROVE  Sound(Now, {})
<1>1. ASSUME NEW t \in Tasks
      PROVE  /\ store[t] \in RowShape /\ store[t].status = "unborn" /\ store[t].token = NoRun
             /\ store[t].kind = "agent" /\ store[t].term = "pending"
  BY DEF Init, Row, RowShape, Statuses
<1>2. ASSUME NEW k \in Runs
      PROVE  run[k] \in RunType /\ run[k].pc = "unborn" /\ run[k].how = "none"
  BY DEF Init, Execution, RunType
<1>3. /\ store \in [Tasks -> RowShape] /\ run \in [Runs -> RunType]
      /\ ctl \in [Tasks -> Runs \cup {NoRun}] /\ queue = {} /\ posted = {}
  BY <1>1, <1>2 DEF Init
<1>4. Typed(Now)
  BY <1>1, <1>3, NowIs DEF Typed, Minted, Present
<1>5. Placed(Now) /\ StopsHeard(Now)
  BY <1>1, <1>2, NowIs, NoRunIsNone DEF Placed, StopsHeard
<1>6. Matched(Now)
  BY <1>1, <1>3, NowIs DEF Matched, NoticesArePosted, KeysAreUnique, NoticesFit, OwnersWait,
     ToldArePosted, LinkedAnswer, Agent
<1>7. ReportsEnd(Now, {})
  BY <1>1, NowIs DEF ReportsEnd, Running
<1>. QED
  BY <1>4, <1>5, <1>6, <1>7, InitGood DEF Sound, Fine

LEMMA SoundInvariant == Spec => []Sound(Now, {})
<1>1. Init => Sound(Now, {})
  BY InitSound
<1>2. Sound(Now, {}) /\ [Next]_vars => Sound(Now, {})'
  BY StepKeepsSound
<1>. QED
  BY <1>1, <1>2, PTL DEF Spec

-----------------------------------------------------------------------------
(* What follows.                                                            *)

\* What a row says of its notification is where the notification is: after every stop,
\* walk, move to main, promotion, read and resume, of any tree.
THEOREM RowsKnowTheirNotices == Spec => []TermMatchesQueue
<1>1. Sound(Now, {}) => TermMatchesQueue
  <2>. SUFFICES ASSUME Sound(Now, {}), NEW t \in Tasks, Present(Now, t)
                PROVE  LET mine == {e \in queue : e.token = store[t].token} IN
                       /\ store[t].term = "owner" <=> \E e \in mine : e.private
                       /\ store[t].term \in {"pending", "parent", "discarded"} => mine = {}
                       /\ store[t].term = "main" => store[t].token \in posted
    BY DEF TermMatchesQueue
  <2>. DEFINE mine == {e \in queue : e.token = store[t].token}
  <2>1. Fine(Now) /\ Matched(Now) /\ Now.store[t].token \in Runs
    BY DEF Sound, Fine, Typed, Minted
  <2>2. \A e \in mine : /\ store[t].term \in {"owner", "main"}
                        /\ store[t].term = IF e.private THEN "owner" ELSE "main"
    BY <2>1, UntoldHasNoNotice, NowIs
  <2>3. store[t].term = "owner" => mine # {}
    BY <2>1, NowIs DEF Matched, OwnersWait
  <2>4. store[t].term = "main" => store[t].token \in posted
    BY <2>1, NowIs DEF Matched, ToldArePosted
  <2>. QED
    BY <2>2, <2>3, <2>4
<1>. QED
  BY <1>1, SoundInvariant, PTL

\* A run whose report is out has ended its row, whichever of the ways a run can be
\* reported was taken: answered in its batch, committed late, or published after a detach.
THEOREM ReportsAreFinal == Spec => []ReportedRunsEnd
<1>1. Sound(Now, {}) => ReportedRunsEnd
  BY NowIs DEF Sound, ReportsEnd, Reported, ReportedRunsEnd
<1>. QED
  BY <1>1, SoundInvariant, PTL

\* An agent that was killed does not work on, whoever killed it and however its run was
\* started, the resume from the agent view excepted.
THEOREM KillsAreHeard == Spec => []KilledRunsAbort
<1>1. Sound(Now, {}) => KilledRunsAbort
  BY NowIs DEF Sound, Fine, Typed, Minted, StopsHeard, Viewed, Quiet, KilledRunsAbort
<1>. QED
  BY <1>1, SoundInvariant, PTL
-----------------------------------------------------------------------------
(* Generations, where no row leaves the store.                              *)

\* A notice is of the generation its row is in, and then of the run of its row, or of
\* an earlier one.
Aged(S) ==
  /\ \A t \in Tasks : S.store[t].status = "unborn" => S.store[t].token = NoRun
  /\ \A e \in S.queue : LET t == e.key.task IN
       /\ S.store[t].status # "unborn"
       /\ e.key.gen <= S.store[t].gen
       /\ e.key.gen = S.store[t].gen => e.token = S.store[t].token

LEMMA LeadsKeepAged ==
  ASSUME NEW S, NEW T, ~Removes, Fine(S), Fine(T), Matched(S), Matched(T), Aged(S), Leads(S, T)
  PROVE  Aged(T)
<1>1. ASSUME NEW t \in Tasks
      PROVE  /\ T.store[t].token = S.store[t].token /\ T.store[t].gen = S.store[t].gen
             /\ T.store[t].status = "unborn" => S.store[t].status = "unborn"
  BY DEF Leads, KeepsRows
<1>2. ASSUME NEW t \in Tasks, T.store[t].status = "unborn"
      PROVE  T.store[t].token = NoRun
  BY <1>1, <1>2 DEF Aged
<1>3. ASSUME NEW e \in T.queue
      PROVE  /\ T.store[e.key.task].status # "unborn"
             /\ e.key.gen <= T.store[e.key.task].gen
             /\ e.key.gen = T.store[e.key.task].gen => e.token = T.store[e.key.task].token
  <2>. DEFINE t == e.key.task
  <2>1. e.token \in Runs /\ t \in Tasks
    BY DEF Fine, Typed, NoticeShape
  <2>2. CASE e.token \notin S.posted
    <3>1. e.token \in T.posted /\ T.run[e.token].task = t
      BY DEF Matched, NoticesArePosted
    <3>2. PICK u \in Tasks : S.store[u].token = e.token
      BY <2>1, <2>2, <3>1 DEF Leads, PostsOnce
    <3>3. T.store[u].token = e.token
      BY <1>1, <3>2
    <3>4. u = t
      BY <2>1, <3>1, <3>3 DEF Fine, Good, TokensAreOwned
    <3>5. e.key = KeyOf(T, t) /\ T.store[t].token = e.token
      BY <3>3, <3>4 DEF Matched, NoticesFit
    <3>6. e.key.gen = T.store[t].gen /\ T.store[t].gen \in Nat
      BY <2>1, <3>5 DEF KeyOf, Fine, Typed, RowShape
    <3>7. T.store[t].status # "unborn"
      BY <1>2, <2>1, <3>5, NoRunIsNone
    <3>. QED
      BY <3>5, <3>6, <3>7
  <2>3. CASE \E f \in S.queue : f.token = e.token /\ f.key = e.key
    BY <1>1, <2>1, <2>3 DEF Aged
  <2>. QED
    BY <2>1, <2>2, <2>3 DEF Leads, QueuesForward
<1>. QED
  BY <1>2, <1>3 DEF Aged

\* A row that begins a run is in a generation no notice is of.
LEMMA BeginKeepsAged ==
  ASSUME Sound(Now, {}), Aged(Now), NEW t \in Tasks, NEW k \in Runs, NEW row,
         store' = [store EXCEPT ![t] = row], queue' = queue,
         row.status = "running",
         store[t].status = "unborn" \/ row.gen = store[t].gen + 1
  PROVE  Aged(Now')
<1>1. /\ Now.store[t].gen \in Nat /\ DOMAIN store = Tasks
      /\ \A e \in Now.queue : e.key.task \in Tasks /\ e.key.gen \in Nat
  BY NowIs DEF Sound, Fine, Typed, RowShape, NoticeShape
<1>2. store'[t] = row /\ \A u \in Tasks \ {t} : store'[u] = store[u]
  BY <1>1
<1>3. ASSUME NEW u \in Tasks, Now'.store[u].status = "unborn"
      PROVE  Now'.store[u].token = NoRun
  BY <1>2, <1>3, NowIs DEF Aged
<1>4. ASSUME NEW e \in Now'.queue
      PROVE  /\ Now'.store[e.key.task].status # "unborn"
             /\ e.key.gen <= Now'.store[e.key.task].gen
             /\ e.key.gen = Now'.store[e.key.task].gen => e.token = Now'.store[e.key.task].token
  <2>1. /\ e \in Now.queue /\ e.key.task \in Tasks
        /\ Now.store[e.key.task].status # "unborn"
        /\ e.key.gen <= Now.store[e.key.task].gen
        /\ e.key.gen = Now.store[e.key.task].gen => e.token = Now.store[e.key.task].token
    BY <1>1, NowIs DEF Aged
  <2>2. CASE e.key.task # t
    BY <1>2, <2>1, <2>2, NowIs
  <2>3. CASE e.key.task = t
    <3>1. row.gen = store[t].gen + 1 /\ e.key.gen <= store[t].gen
      BY <2>1, <2>3, NowIs
    <3>2. e.key.gen \in Nat /\ row.gen \in Nat
      BY <1>1, <2>1, <3>1, NowIs
    <3>3. e.key.gen <= row.gen /\ e.key.gen # row.gen
      BY <1>1, <3>1, <3>2, NowIs
    <3>4. Now'.store[e.key.task] = row
      BY <1>2, <2>3, NowIs
    <3>. QED
      BY <3>3, <3>4
  <2>. QED
    BY <2>2, <2>3
<1>. QED
  BY <1>3, <1>4 DEF Aged

LEMMA StartKeepsAged ==
  ASSUME Sound(Now, {}), Aged(Now), NEW t \in Tasks, NEW k \in Runs, Start(t, k)
  PROVE  Aged(Now')
<1>1. store \in [Tasks -> RowShape]
  BY NowIs DEF Sound, Fine, Typed
<1>2. CASE StartMain(t, k) \/ StartDirective(t, k) \/ (\E p \in Runs : StartNested(p, t, k))
           \/ (\E p \in Runs \cup {NoRun} : StartShell(p, t, k))
  <2>1. \E kind, mode, bg, owner, parent, e :
          Launch(t, k, Row(kind, k, mode, bg, owner, parent), e)
    BY <1>2, Zenon DEF StartMain, StartDirective, StartNested, StartShell
  <2>2. PICK row : /\ row.status = "running" /\ store[t].status = "unborn"
                   /\ store' = [store EXCEPT ![t] = row] /\ queue' = queue
    BY <2>1 DEF Launch, Row
  <2>. QED
    BY <2>2, BeginKeepsAged
<1>3. CASE SendMessage(t, k)
  <2>. DEFINE row == Sent(store[t], k, OwnerAfterResume(t))
  <2>1. OwnerAfterResume(t) \in Tasks \cup {Main} /\ store[t].kind = "agent" /\ store[t] \in RowShape
    BY <1>1, <1>3, NowIs DEF OwnerAfterResume, SendMessage, Agent, RowShape
  <2>2. row.status = "running" /\ row.gen = store[t].gen + 1
    BY <2>1, ReopenedIs DEF IsReopened
  <2>3. store' = [store EXCEPT ![t] = row] /\ queue' = queue
    BY <1>3 DEF SendMessage, Sent
  <2>. HIDE DEF row
  <2>. QED
    BY <2>2, <2>3, BeginKeepsAged
<1>4. CASE ViewResume(t, k)
  <2>. DEFINE row == Reopened(store[t], k)
  <2>1. store[t].kind = "agent" /\ store[t] \in RowShape
    BY <1>1, <1>4, NowIs DEF ViewResume, Agent
  <2>2. row.status = "running" /\ row.gen = store[t].gen + 1
    BY <2>1, ReopenedIs DEF IsReopened
  <2>3. store' = [store EXCEPT ![t] = row] /\ queue' = queue
    BY <1>4 DEF ViewResume
  <2>. HIDE DEF row
  <2>. QED
    BY <2>2, <2>3, BeginKeepsAged
<1>. QED
  BY <1>2, <1>3, <1>4 DEF Start

LEMMA AgedInvariant ==
  ASSUME ~Removes
  PROVE  Spec => [](Sound(Now, {}) /\ Aged(Now))
<1>1. Init => Sound(Now, {}) /\ Aged(Now)
  <2>. SUFFICES ASSUME Init PROVE Sound(Now, {}) /\ Aged(Now)
    OBVIOUS
  <2>1. \A t \in Tasks : store[t].token = NoRun
    BY DEF Init, Row
  <2>2. queue = {}
    BY DEF Init
  <2>. QED
    BY <2>1, <2>2, InitSound, NowIs DEF Aged
<1>2. Sound(Now, {}) /\ Aged(Now) /\ [Next]_vars => (Sound(Now, {}) /\ Aged(Now))'
  <2>. SUFFICES ASSUME Sound(Now, {}), Aged(Now), [Next]_vars
                PROVE  Sound(Now', {}) /\ Aged(Now')
    OBVIOUS
  <2>1. Sound(Now', {})
    BY StepKeepsSound
  <2>2. /\ Fine(Now) /\ Fine(Now') /\ Good(Now) /\ Matched(Now) /\ Matched(Now')
    BY <2>1 DEF Sound, Fine
  <2>3. CASE \E t \in Tasks, k \in Runs : Start(t, k)
    BY <2>1, <2>3, StartKeepsAged
  <2>4. CASE ~\E t \in Tasks, k \in Runs : Start(t, k)
    <3>1. Leads(Now, Now')
      BY <2>2, <2>4, RunStepLeads, TaskStepLeads, CancelTurnLeads, DrainMainLeads, StutterLeads
         DEF Next
    <3>. QED
      BY <2>1, <2>2, <3>1, LeadsKeepAged
  <2>. QED
    BY <2>1, <2>3, <2>4
<1>. QED
  BY <1>1, <1>2, PTL DEF Spec

\* Where rows stay in the store, the notice of a run is never replaced by the notice of a
\* later run of its task: a resume begins a generation of its own, and only the run of a
\* row posts under the key of its row.
THEOREM RunsKeepNotices ==
  ASSUME {"evict", "close"} \cap Surfaces = {}
  PROVE  Spec => RunsKeepTheirNotices
<1>0. ~Removes
  BY DEF Removes
<1>1. /\ Sound(Now, {}) /\ Aged(Now) /\ (Sound(Now, {}) /\ Aged(Now))' /\ [Next]_vars
      => [\A e \in queue, f \in queue' \ queue : e.key = f.key => e.token = f.token]_vars
  <2>. SUFFICES ASSUME Sound(Now, {}), Aged(Now), Sound(Now', {}), Aged(Now'), [Next]_vars,
                       NEW e \in queue, NEW f \in queue' \ queue, e.key = f.key
                PROVE  e.token = f.token
    BY DEF vars
  <2>1. /\ Fine(Now) /\ Fine(Now') /\ Good(Now) /\ Matched(Now) /\ Matched(Now')
    BY DEF Sound, Fine
  <2>2. /\ e \in Now.queue /\ f \in Now'.queue /\ f.token \in Runs /\ e.key.task \in Tasks
    BY <2>1, NowIs DEF Fine, Typed, NoticeShape
  <2>3. Leads(Now, Now')
    BY <2>1, StepKinds DEF Begins
  <2>4. CASE f.token \notin Now.posted
    <3>. DEFINE t == e.key.task
    <3>1. f.token \in Now'.posted /\ Now'.run[f.token].task = t
      BY <2>1, <2>2 DEF Matched, NoticesArePosted
    <3>2. PICK u \in Tasks : Now.store[u].token = f.token
      BY <2>2, <2>3, <2>4, <3>1 DEF Leads, PostsOnce
    <3>3. Now'.store[u].token = f.token /\ Now'.store[u].gen = Now.store[u].gen
      BY <1>0, <2>3, <3>2 DEF Leads, KeepsRows
    <3>4. u = t
      BY <2>1, <2>2, <3>1, <3>3 DEF Fine, Good, TokensAreOwned
    <3>5. f.key = KeyOf(Now', t)
      BY <2>1, <2>2, <3>3, <3>4 DEF Matched, NoticesFit
    <3>6. e.key.gen = Now.store[t].gen
      BY <3>3, <3>4, <3>5 DEF KeyOf
    <3>. QED
      BY <2>2, <3>2, <3>4, <3>6 DEF Aged
  <2>5. CASE \E g \in Now.queue : g.token = f.token /\ g.key = f.key
    BY <2>1, <2>2, <2>5 DEF Matched, KeysAreUnique
  <2>. QED
    BY <2>2, <2>3, <2>4, <2>5 DEF Leads, QueuesForward
<1>. QED
  BY <1>0, <1>1, AgedInvariant, PTL DEF Spec, RunsKeepTheirNotices

-----------------------------------------------------------------------------
(* Who waits for whom, where agents are started and stopped and the rows of *)
(* a session stay what they are: no message or view resumes a run, no turn  *)
(* is cancelled, no row is stopped by TaskStop or leaves the store.         *)

Plain == Surfaces \subseteq {"main", "nested", "directive", "shell", "stop", "late"}

\* A run that its row still speaks for: set up, looping, waiting, leaving, or a process.
Live == {"launch", "loop", "parked", "exit", "proc"}

Born(S, k) == S.run[k].pc # "unborn"
Nested(S, k) == Born(S, k) /\ S.run[k].how = "nested"

\* A task has one run, which is the one its row names.
RunsHaveRows(S) ==
  \A k \in Runs : Born(S, k) => LET t == S.run[k].task IN
    /\ t \in Tasks /\ S.store[t].token = k /\ Present(S, t)
    /\ S.run[k].how \in {"main", "nested", "directive", "shell"}
    /\ S.run[k].how = "shell" <=> ~Agent(S, t)
    /\ S.run[k].how = "shell" => S.run[k].pc \in {"proc", "done"} /\ S.store[t].bg
    /\ S.run[k].pc # "prep"

\* A child knows its parent, and what it owes its caller.
CallsHaveCallers(S) ==
  \A k \in Runs : LET row == S.store[S.run[k].task]  p == S.run[k].caller IN
    /\ S.run[k].linked => Nested(S, k)
    /\ p \in Runs => Nested(S, k)
    /\ Nested(S, k) => /\ p \in Runs /\ Born(S, p)
                       /\ row.parent = S.run[p].task /\ row.owner \in {row.parent, Main}
                       /\ row.mode = "linked" => row.owner = row.parent
    /\ Born(S, k) /\ ~Nested(S, k) => row.parent = Main /\ (row.kind = "agent" => row.owner = Main)
    /\ Born(S, k) /\ row.mode = "detached" => row.bg

StopsAimRight(S) == \A t \in Tasks : S.ctl[t] \in {NoRun, S.store[t].token}

Grounded(S) == RunsHaveRows(S) /\ CallsHaveCallers(S) /\ StopsAimRight(S)

\* The call of a nested agent is open, and its caller waits in the batch.
Waits(S, t) ==
  Running(S, t) /\ S.store[t].mode = "linked" /\ S.run[S.store[t].token].how = "nested"
CallerOf(S, t) == S.run[S.store[t].token].caller

CallersWait(S) == \A t \in Tasks : Waits(S, t) => S.run[CallerOf(S, t)].pc = "loop"

\* X are the rows that are about to be concluded.
CallsAreOpen(S, X) ==
  \A t \in Tasks : t \notin X /\ Waits(S, t) => LET k == S.store[t].token IN
    S.run[k].gate = "open" /\ (S.run[k].pc # "done" => S.run[k].linked)

\* A run goes on without its row only to hear that it was stopped, and nothing below
\* a run that was stopped goes on.
AliveOrTold(S) == \A k \in Runs : S.run[k].pc \in Live => Running(S, S.run[k].task) \/ S.run[k].aborted
StoppedWithAll(S) ==
  \A k \in Runs, d \in Tasks : Born(S, k) /\ S.run[k].aborted /\ Running(S, d) =>
    d # S.run[k].task /\ S.store[d].parent # S.run[k].task

\* The call of an abandoned batch has no row to report.
LostHaveEnded(S) ==
  \A k \in Runs : Born(S, k) /\ S.run[k].gate = "lost" => ~Running(S, S.run[k].task)

ParkedWait(S) ==
  \A k \in Runs : S.run[k].pc = "parked" /\ ~S.run[k].aborted =>
    Inventory(S, S.run[k].task) = {} /\ HasRunningOwnedWork(S, S.run[k].task)

Moving(S, X) ==
  /\ CallersWait(S) /\ CallsAreOpen(S, X) /\ AliveOrTold(S) /\ StoppedWithAll(S)
  /\ LostHaveEnded(S)

Rooted(S, X) == Fine(S) /\ Grounded(S) /\ Moving(S, X) /\ ParkedWait(S)

\* What keeps the ground: rows and runs stay, a detached row may move to main, a link
\* and a controller may be let go.
Still(S, T) ==
  /\ \A t \in Tasks : /\ SameRow(S, T, t)
                      /\ \/ T.store[t].owner = S.store[t].owner
                         \/ T.store[t].owner = Main /\ S.store[t].mode # "linked"
                      /\ Present(S, t) => Present(T, t)
                      /\ T.ctl[t] \in {NoRun, S.ctl[t]}
  /\ \A k \in Runs : /\ T.run[k].task = S.run[k].task /\ T.run[k].how = S.run[k].how
                     /\ T.run[k].caller = S.run[k].caller
                     /\ T.run[k].linked => S.run[k].linked
                     /\ T.run[k].pc = "unborn" <=> S.run[k].pc = "unborn"
                     /\ T.run[k].pc = "prep" => S.run[k].pc = "prep"
                     /\ S.run[k].pc \in {"proc", "done"} => T.run[k].pc \in {"proc", "done"}

LEMMA StillGrounded ==
  ASSUME NEW S, Fine(S), Grounded(S), NEW T, Fine(T), Still(S, T)
  PROVE  Grounded(T)
<1>1. RunsHaveRows(T)
  BY SMTT(30) DEF Grounded, RunsHaveRows, Still, SameRow, Born, Agent
<1>2. CallsHaveCallers(T)
  <2>. SUFFICES ASSUME NEW k \in Runs
                PROVE  LET row == T.store[T.run[k].task]  p == T.run[k].caller IN
                       /\ T.run[k].linked => Nested(T, k)
                       /\ p \in Runs => Nested(T, k)
                       /\ Nested(T, k) =>
                            /\ p \in Runs /\ Born(T, p)
                            /\ row.parent = T.run[p].task /\ row.owner \in {row.parent, Main}
                            /\ row.mode = "linked" => row.owner = row.parent
                       /\ Born(T, k) /\ ~Nested(T, k) =>
                            row.parent = Main /\ (row.kind = "agent" => row.owner = Main)
                       /\ Born(T, k) /\ row.mode = "detached" => row.bg
    BY DEF CallsHaveCallers
  <2>. DEFINE t == S.run[k].task
              p == S.run[k].caller
  <2>1. /\ T.run[k].task = t /\ T.run[k].caller = p /\ (T.run[k].linked => S.run[k].linked)
        /\ Born(T, k) <=> Born(S, k)
        /\ Nested(T, k) <=> Nested(S, k)
    BY DEF Still, Born, Nested
  <2>2. Born(S, k) => t \in Tasks
    BY DEF Grounded, RunsHaveRows
  <2>3. t \in Tasks => /\ SameRow(S, T, t)
                       /\ \/ T.store[t].owner = S.store[t].owner
                          \/ T.store[t].owner = Main /\ S.store[t].mode # "linked"
    BY DEF Still
  <2>4. p \in Runs => T.run[p].task = S.run[p].task /\ (Born(T, p) <=> Born(S, p))
    BY DEF Still, Born
  <2>5. /\ S.run[k].linked => Nested(S, k)
        /\ p \in Runs => Nested(S, k)
        /\ Nested(S, k) => /\ p \in Runs /\ Born(S, p)
                           /\ S.store[t].parent = S.run[p].task
                           /\ S.store[t].owner \in {S.store[t].parent, Main}
                           /\ S.store[t].mode = "linked" => S.store[t].owner = S.store[t].parent
        /\ Born(S, k) /\ ~Nested(S, k) =>
             S.store[t].parent = Main /\ (S.store[t].kind = "agent" => S.store[t].owner = Main)
        /\ Born(S, k) /\ S.store[t].mode = "detached" => S.store[t].bg
    BY DEF Grounded, CallsHaveCallers
  <2>6. Nested(S, k) => Born(S, k)
    BY DEF Nested
  <2>. HIDE DEF t, p
  <2>. QED
    BY <2>1, <2>2, <2>3, <2>4, <2>5, <2>6 DEF SameRow
<1>3. StopsAimRight(T)
  BY DEF Grounded, StopsAimRight, Still, SameRow
<1>. QED
  BY <1>1, <1>2, <1>3 DEF Grounded

\* What keeps the rest: rows only end; a fork leaves its loop with no call open; a call
\* stays open until its row ends; a run that loses its row is told; and what is told to
\* stop leaves nothing running below it.
Onward(S, T, X, Y) ==
  /\ \A t \in Tasks : Running(T, t) => Running(S, t)
  /\ \A t \in Tasks : Waits(T, t) /\ S.run[CallerOf(S, t)].pc = "loop" =>
       T.run[CallerOf(S, t)].pc = "loop"
  /\ \A t \in Tasks : t \notin Y /\ Waits(T, t) => LET k == S.store[t].token IN
       /\ t \notin X /\ T.run[k].gate = S.run[k].gate
       /\ T.run[k].pc # "done" => S.run[k].pc # "done" /\ T.run[k].linked = S.run[k].linked
  /\ \A k \in Runs : T.run[k].pc \in Live =>
       /\ S.run[k].pc \in Live
       /\ S.run[k].aborted => T.run[k].aborted
       /\ Running(S, S.run[k].task) => Running(T, S.run[k].task) \/ T.run[k].aborted
  /\ \A k \in Runs, d \in Tasks : T.run[k].aborted /\ ~S.run[k].aborted /\ Running(T, d) =>
       d # S.run[k].task /\ S.store[d].parent # S.run[k].task
  /\ \A k \in Runs : Born(S, k) /\ T.run[k].gate = "lost" =>
       S.run[k].gate = "lost" \/ ~Running(T, S.run[k].task)

LEMMA WaitsIs ==
  ASSUME NEW S, Fine(S), Grounded(S), NEW t \in Tasks, Running(S, t)
  PROVE  LET k == S.store[t].token IN
         /\ k \in Runs /\ Born(S, k) /\ S.run[k].task = t
         /\ S.store[t].parent # Main => S.run[k].how = "nested"
         /\ S.run[k].how = "nested" =>
              /\ CallerOf(S, t) \in Runs /\ Born(S, CallerOf(S, t))
              /\ S.store[t].parent = S.run[CallerOf(S, t)].task
              /\ S.run[CallerOf(S, t)].task \in Tasks
              /\ S.store[t].owner \in {S.store[t].parent, Main}
              /\ S.store[t].mode = "linked" => S.store[t].owner = S.store[t].parent
<1>. DEFINE k == S.store[t].token
            p == CallerOf(S, t)
<1>1. k \in Runs /\ S.run[k].task = t /\ Born(S, k)
  BY DEF Fine, Good, RunsAreFresh, TokensAreOwned, Running, Born
<1>2. /\ Nested(S, k) => /\ p \in Runs /\ Born(S, p)
                         /\ S.store[t].parent = S.run[p].task
                         /\ S.store[t].owner \in {S.store[t].parent, Main}
                         /\ S.store[t].mode = "linked" => S.store[t].owner = S.store[t].parent
      /\ Born(S, k) /\ ~Nested(S, k) => S.store[t].parent = Main
  BY <1>1 DEF Grounded, CallsHaveCallers, CallerOf
<1>3. p \in Runs /\ Born(S, p) => S.run[p].task \in Tasks
  BY DEF Grounded, RunsHaveRows
<1>. HIDE DEF p
<1>. QED
  BY <1>1, <1>2, <1>3 DEF Nested, p

LEMMA OnwardMoves ==
  ASSUME NEW S, NEW X, Rooted(S, X), NEW T, Fine(T), Still(S, T), NEW Y, Onward(S, T, X, Y)
  PROVE  Grounded(T) /\ Moving(T, Y)
<1>1. Fine(S) /\ Grounded(S) /\ Moving(S, X)
  BY DEF Rooted
<1>2. Grounded(T)
  BY <1>1, StillGrounded
<1>3. ASSUME NEW t \in Tasks, Waits(T, t)
      PROVE  /\ Waits(S, t) /\ S.store[t].token \in Runs
             /\ T.store[t].token = S.store[t].token
             /\ CallerOf(S, t) \in Runs /\ CallerOf(T, t) = CallerOf(S, t)
  <2>1. Running(S, t)
    BY <1>3 DEF Onward, Waits
  <2>2. S.store[t].token \in Runs
    BY <1>1, <2>1, WaitsIs
  <2>3. T.store[t].token = S.store[t].token /\ T.store[t].mode = S.store[t].mode
    BY DEF Still, SameRow
  <2>4. /\ T.run[S.store[t].token].how = S.run[S.store[t].token].how
        /\ T.run[S.store[t].token].caller = S.run[S.store[t].token].caller
    BY <2>2 DEF Still
  <2>5. Waits(S, t)
    BY <1>3, <2>1, <2>3, <2>4 DEF Waits
  <2>6. CallerOf(S, t) \in Runs
    BY <1>1, <2>1, <2>5, WaitsIs DEF Waits
  <2>. QED
    BY <2>2, <2>3, <2>4, <2>5, <2>6 DEF CallerOf
<1>4. CallersWait(T)
  BY <1>1, <1>3 DEF Moving, CallersWait, Onward
<1>5. CallsAreOpen(T, Y)
  <2>. SUFFICES ASSUME NEW t \in Tasks, t \notin Y, Waits(T, t)
                PROVE  LET k == T.store[t].token IN
                       T.run[k].gate = "open" /\ (T.run[k].pc # "done" => T.run[k].linked)
    BY DEF CallsAreOpen
  <2>1. Waits(S, t) /\ T.store[t].token = S.store[t].token
    BY <1>3
  <2>2. LET k == S.store[t].token IN
        /\ t \notin X /\ T.run[k].gate = S.run[k].gate
        /\ T.run[k].pc # "done" => S.run[k].pc # "done" /\ T.run[k].linked = S.run[k].linked
    BY DEF Onward
  <2>3. LET k == S.store[t].token IN
        S.run[k].gate = "open" /\ (S.run[k].pc # "done" => S.run[k].linked)
    BY <1>1, <2>1, <2>2 DEF Moving, CallsAreOpen
  <2>. QED
    BY <2>1, <2>2, <2>3
<1>6. AliveOrTold(T)
  <2>. SUFFICES ASSUME NEW k \in Runs, T.run[k].pc \in Live
                PROVE  Running(T, T.run[k].task) \/ T.run[k].aborted
    BY DEF AliveOrTold
  <2>1. /\ S.run[k].pc \in Live
        /\ S.run[k].aborted => T.run[k].aborted
        /\ Running(S, S.run[k].task) => Running(T, S.run[k].task) \/ T.run[k].aborted
    BY DEF Onward
  <2>2. Running(S, S.run[k].task) \/ S.run[k].aborted
    BY <1>1, <2>1 DEF Moving, AliveOrTold
  <2>. QED
    BY <2>1, <2>2 DEF Still
<1>7. StoppedWithAll(T)
  <2>. SUFFICES ASSUME NEW k \in Runs, NEW d \in Tasks, Born(T, k), T.run[k].aborted, Running(T, d)
                PROVE  d # T.run[k].task /\ T.store[d].parent # T.run[k].task
    BY DEF StoppedWithAll
  <2>1. /\ Born(S, k) /\ T.run[k].task = S.run[k].task /\ Running(S, d)
        /\ T.store[d].parent = S.store[d].parent
    BY DEF Still, SameRow, Born, Onward
  <2>2. CASE S.run[k].aborted
    BY <1>1, <2>1, <2>2 DEF Moving, StoppedWithAll
  <2>3. CASE ~S.run[k].aborted
    BY <2>1, <2>3 DEF Onward
  <2>. QED
    BY <2>2, <2>3
<1>8. LostHaveEnded(T)
  <2>. SUFFICES ASSUME NEW k \in Runs, Born(T, k), T.run[k].gate = "lost", Running(T, T.run[k].task)
                PROVE  FALSE
    BY DEF LostHaveEnded
  <2>1. Born(S, k) /\ T.run[k].task = S.run[k].task
    BY DEF Still, Born
  <2>2. S.run[k].task \in Tasks
    BY <1>1, <2>1 DEF Grounded, RunsHaveRows
  <2>3. Running(S, S.run[k].task) /\ S.run[k].gate = "lost"
    BY <2>1, <2>2 DEF Onward
  <2>. QED
    BY <1>1, <2>1, <2>3 DEF Moving, LostHaveEnded
<1>. QED
  BY <1>2, <1>4, <1>5, <1>6, <1>7, <1>8 DEF Moving

LEMMA ParkedStay ==
  ASSUME NEW S, ParkedWait(S), NEW T,
         \A k \in Runs : T.run[k].pc = "parked" /\ ~T.run[k].aborted =>
           LET o == S.run[k].task IN
           /\ S.run[k].pc = "parked" /\ ~S.run[k].aborted /\ T.run[k].task = o
           /\ Inventory(S, o) = {} => Inventory(T, o) = {}
           /\ \A c \in Tasks : Running(S, c) /\ S.store[c].owner = o =>
                Running(T, c) /\ T.store[c].owner = o
  PROVE  ParkedWait(T)
<1>. SUFFICES ASSUME NEW k \in Runs, T.run[k].pc = "parked", ~T.run[k].aborted
              PROVE  /\ Inventory(T, T.run[k].task) = {}
                     /\ HasRunningOwnedWork(T, T.run[k].task)
  BY DEF ParkedWait
<1>. DEFINE o == S.run[k].task
<1>1. /\ S.run[k].pc = "parked" /\ ~S.run[k].aborted /\ T.run[k].task = o
      /\ Inventory(S, o) = {} => Inventory(T, o) = {}
      /\ \A c \in Tasks : Running(S, c) /\ S.store[c].owner = o =>
           Running(T, c) /\ T.store[c].owner = o
  OBVIOUS
<1>2. Inventory(S, o) = {} /\ HasRunningOwnedWork(S, o)
  BY <1>1 DEF ParkedWait
<1>. HIDE DEF o
<1>. QED
  BY <1>1, <1>2 DEF HasRunningOwnedWork

\* One run steps from S to the record e.
StepsOn(S, k, e) ==
  /\ e.task = S.run[k].task /\ e.how = S.run[k].how /\ e.caller = S.run[k].caller
  /\ e.aborted = S.run[k].aborted
  /\ Nested(S, k) => e.gate = S.run[k].gate
  /\ e.gate = "lost" => S.run[k].gate = "lost"
  /\ e.linked => S.run[k].linked
  /\ e.pc # "done" => S.run[k].pc # "done" /\ e.linked = S.run[k].linked
  /\ S.run[k].pc = "proc" => e.pc \in {"proc", "done"}
  /\ e.pc \notin {"unborn", "prep"}
  /\ e.pc \in Live => S.run[k].pc \in Live
  /\ S.run[k].pc = "loop" /\ e.pc # "loop" => \A t \in Tasks : Waits(S, t) => CallerOf(S, t) # k
  /\ e.pc = "parked" /\ ~e.aborted =>
       Inventory(S, e.task) = {} /\ HasRunningOwnedWork(S, e.task)

LEMMA RunRooted ==
  ASSUME NEW S, NEW X, Rooted(S, X), NEW T, Fine(T), RowsStay(S, T),
         \A t \in Tasks : T.ctl[t] \in {NoRun, S.ctl[t]},
         NEW k \in Runs, Born(S, k), NEW e, T.run = [S.run EXCEPT ![k] = e], StepsOn(S, k, e)
  PROVE  Rooted(T, X)
<1>1. Fine(S) /\ Grounded(S) /\ Moving(S, X) /\ ParkedWait(S)
  BY DEF Rooted
<1>2. T.run[k] = e /\ \A j \in Runs : j # k => T.run[j] = S.run[j]
  BY <1>1 DEF Fine, Typed
<1>3. /\ T.store = S.store /\ T.queue = S.queue
      /\ \A t \in Tasks : /\ Running(T, t) <=> Running(S, t)
                          /\ Present(T, t) <=> Present(S, t)
                          /\ SameRow(S, T, t)
  BY DEF RowsStay, Running, Present, SameRow
<1>4. Still(S, T)
  <2>1. ASSUME NEW j \in Runs
        PROVE  /\ T.run[j].task = S.run[j].task /\ T.run[j].how = S.run[j].how
               /\ T.run[j].caller = S.run[j].caller
               /\ T.run[j].linked => S.run[j].linked
               /\ T.run[j].pc = "unborn" <=> S.run[j].pc = "unborn"
               /\ T.run[j].pc = "prep" => S.run[j].pc = "prep"
               /\ S.run[j].pc \in {"proc", "done"} => T.run[j].pc \in {"proc", "done"}
    BY <1>2 DEF StepsOn, Born
  <2>. QED
    BY <1>3, <2>1 DEF Still
<1>5. ASSUME NEW t \in Tasks, Waits(T, t)
      PROVE  /\ Waits(S, t) /\ S.store[t].token \in Runs
             /\ Nested(S, S.store[t].token) /\ CallerOf(S, t) \in Runs
  <2>1. Running(S, t)
    BY <1>3, <1>5 DEF Waits
  <2>2. S.store[t].token \in Runs /\ Born(S, S.store[t].token)
    BY <1>1, <2>1, WaitsIs
  <2>3. T.run[S.store[t].token].how = S.run[S.store[t].token].how
    BY <2>2, <1>4 DEF Still
  <2>4. Waits(S, t)
    BY <1>3, <1>5, <2>1, <2>3 DEF Waits
  <2>. QED
    BY <1>1, <2>1, <2>2, <2>4, WaitsIs DEF Waits, Nested
<1>6. Onward(S, T, X, X)
  <2>1. ASSUME NEW t \in Tasks, Waits(T, t), S.run[CallerOf(S, t)].pc = "loop"
        PROVE  T.run[CallerOf(S, t)].pc = "loop"
    BY <1>2, <1>5, <2>1 DEF StepsOn
  <2>2. ASSUME NEW t \in Tasks, t \notin X, Waits(T, t)
        PROVE  LET j == S.store[t].token IN
               /\ T.run[j].gate = S.run[j].gate
               /\ T.run[j].pc # "done" => S.run[j].pc # "done" /\ T.run[j].linked = S.run[j].linked
    BY <1>2, <1>5, <2>2 DEF StepsOn
  <2>3. ASSUME NEW j \in Runs
        PROVE  /\ T.run[j].aborted = S.run[j].aborted
               /\ T.run[j].pc \in Live => S.run[j].pc \in Live
               /\ T.run[j].gate = "lost" => S.run[j].gate = "lost"
               /\ T.run[j].pc \in Live => S.run[j].task \in Tasks
    BY <1>1, <1>2 DEF StepsOn, Grounded, RunsHaveRows, Born, Live
  <2>4. ASSUME NEW j \in Runs, T.run[j].pc \in Live
        PROVE  /\ S.run[j].pc \in Live
               /\ S.run[j].aborted => T.run[j].aborted
               /\ Running(S, S.run[j].task) => Running(T, S.run[j].task) \/ T.run[j].aborted
    BY <1>3, <2>3, <2>4
  <2>. QED
    BY <1>3, <2>1, <2>2, <2>3, <2>4 DEF Onward
<1>7. Grounded(T) /\ Moving(T, X)
  BY <1>4, <1>6, OnwardMoves
<1>8. ParkedWait(T)
  <2>. SUFFICES ASSUME NEW j \in Runs, T.run[j].pc = "parked", ~T.run[j].aborted
                PROVE  /\ Inventory(T, T.run[j].task) = {}
                       /\ HasRunningOwnedWork(T, T.run[j].task)
    BY DEF ParkedWait
  <2>1. /\ Inventory(S, T.run[j].task) = {}
        /\ HasRunningOwnedWork(S, T.run[j].task)
    BY <1>1, <1>2 DEF ParkedWait, StepsOn
  <2>. QED
    BY <1>3, <2>1 DEF Inventory, HasRunningOwnedWork
<1>. QED
  BY <1>7, <1>8 DEF Rooted

\* What is read or handed on moves no run and no row.
LEMMA ReadRooted ==
  ASSUME NEW S, NEW X, Rooted(S, X), NEW T, Fine(T), T.run = S.run, T.ctl = S.ctl,
         \A t \in Tasks : /\ SameRow(S, T, t) /\ T.store[t].owner = S.store[t].owner
                          /\ T.store[t].status = S.store[t].status,
         \A o : Inventory(S, o) = {} => Inventory(T, o) = {}
  PROVE  Rooted(T, X)
<1>1. Fine(S) /\ Grounded(S) /\ Moving(S, X) /\ ParkedWait(S)
  BY DEF Rooted
<1>2. \A t \in Tasks : /\ Running(T, t) <=> Running(S, t)
                       /\ Present(T, t) <=> Present(S, t)
                       /\ Waits(T, t) <=> Waits(S, t)
  BY DEF Running, Present, Waits, SameRow
<1>3. Still(S, T)
  BY <1>2 DEF Still
<1>4. Onward(S, T, X, X)
  <2>1. \A t \in Tasks : Waits(T, t) /\ t \notin X => t \notin X
    OBVIOUS
  <2>2. \A k \in Runs : Born(S, k) => S.run[k].task \in Tasks
    BY <1>1 DEF Grounded, RunsHaveRows
  <2>3. \A k \in Runs : S.run[k].pc \in Live => Born(S, k)
    BY DEF Live, Born
  <2>. QED
    BY <1>2, <2>1, <2>2, <2>3 DEF Onward
<1>5. Grounded(T) /\ Moving(T, X)
  BY <1>3, <1>4, OnwardMoves
<1>6. ParkedWait(T)
  <2>1. ASSUME NEW k \in Runs, T.run[k].pc = "parked", ~T.run[k].aborted
        PROVE  LET o == S.run[k].task IN
               /\ S.run[k].pc = "parked" /\ ~S.run[k].aborted /\ T.run[k].task = o
               /\ Inventory(S, o) = {} => Inventory(T, o) = {}
               /\ \A c \in Tasks : Running(S, c) /\ S.store[c].owner = o =>
                    Running(T, c) /\ T.store[c].owner = o
    BY <1>2, <2>1
  <2>. QED
    BY <1>1, <2>1, ParkedStay
<1>. QED
  BY <1>5, <1>6 DEF Rooted

LEMMA ShellsAre ==
  ASSUME NEW S, Fine(S), Grounded(S), NEW o, NEW t \in ShellsOf(S, o)
  PROVE  LET k == S.store[t].token IN
         /\ t \in Tasks /\ Running(S, t) /\ S.store[t].owner = o
         /\ k \in Runs /\ S.run[k].task = t /\ Born(S, k) /\ S.run[k].pc \in {"proc", "done"}
         /\ KillShellsForOwner(S, o).run[k].pc = "done"
<1>. DEFINE k == S.store[t].token
            ks == {S.store[u].token : u \in ShellsOf(S, o)}
<1>1. t \in Tasks /\ Running(S, t) /\ S.store[t].owner = o /\ ~Agent(S, t)
  BY DEF ShellsOf
<1>2. k \in Runs /\ Born(S, k) /\ S.run[k].task = t
  BY <1>1, WaitsIs
<1>3. S.run[k].pc \in {"proc", "done"}
  BY <1>1, <1>2 DEF Grounded, RunsHaveRows
<1>4. KillShellsForOwner(S, o).run =
        [j \in Runs |-> IF j \in ks THEN [S.run[j] EXCEPT !.pc = "done"] ELSE S.run[j]]
  BY DEF KillShellsForOwner, Fine, Good, Shape
<1>5. k \in ks
  OBVIOUS
<1>. HIDE DEF ks, k
<1>6. KillShellsForOwner(S, o).run[k] = [S.run[k] EXCEPT !.pc = "done"]
  BY <1>2, <1>4, <1>5
<1>7. [S.run[k] EXCEPT !.pc = "done"].pc = "done"
  BY <1>2 DEF Fine, Typed, RunType
<1>. QED
  BY <1>1, <1>2, <1>3, <1>6, <1>7 DEF k

LEMMA KillShellsRooted ==
  ASSUME NEW S, NEW X, Rooted(S, X), NEW o,
         \A j \in Runs : S.run[j].pc = "parked" => S.run[j].task # o
  PROVE  Rooted(KillShellsForOwner(S, o), X)
<1>. DEFINE T == KillShellsForOwner(S, o)
<1>1. Fine(S) /\ Grounded(S) /\ Moving(S, X) /\ ParkedWait(S)
  BY DEF Rooted
<1>2. Fine(T) /\ KillsShells(S, T, o)
  BY <1>1, KillShellsIs
<1>3. \A t \in ShellsOf(S, o) : LET k == S.store[t].token IN
         /\ t \in Tasks /\ Running(S, t) /\ S.store[t].owner = o
         /\ k \in Runs /\ S.run[k].task = t /\ Born(S, k) /\ S.run[k].pc \in {"proc", "done"}
         /\ T.run[k].pc = "done"
  BY <1>1, ShellsAre
<1>. HIDE DEF T
<1>4. ASSUME NEW t \in Tasks
      PROVE  /\ SameRow(S, T, t) /\ T.store[t].owner = S.store[t].owner
             /\ T.ctl[t] = S.ctl[t]
             /\ Running(T, t) => Running(S, t)
             /\ Running(S, t) /\ t \notin ShellsOf(S, o) => Running(T, t)
             /\ Present(S, t) => Present(T, t)
  BY <1>2 DEF KillsShells, Running, Present
<1>5. ASSUME NEW k \in Runs
      PROVE  /\ SameRun(S, T, k)
             /\ T.run[k].aborted = S.run[k].aborted /\ T.run[k].linked = S.run[k].linked
             /\ \/ T.run[k].pc = S.run[k].pc
                \/ T.run[k].pc = "done" /\ S.run[k].pc \in {"proc", "done"}
             /\ T.run[k].pc # "done" => T.run[k].pc = S.run[k].pc
  BY <1>2, <1>3 DEF KillsShells
<1>6. Still(S, T)
  BY <1>4, <1>5 DEF Still, SameRun
<1>7. ASSUME NEW t \in Tasks, Running(S, t)
      PROVE  /\ S.store[t].token \in Runs
             /\ S.run[S.store[t].token].how = "nested" => CallerOf(S, t) \in Runs
  BY <1>1, <1>7, WaitsIs
<1>8. Onward(S, T, X, X)
  <2>1. ASSUME NEW t \in Tasks, Waits(T, t), S.run[CallerOf(S, t)].pc = "loop"
        PROVE  T.run[CallerOf(S, t)].pc = "loop"
    <3>1. Running(S, t) /\ T.store[t].token = S.store[t].token
      BY <1>4, <2>1 DEF Waits, SameRow
    <3>2. S.run[S.store[t].token].how = "nested"
      BY <1>5, <1>7, <2>1, <3>1 DEF Waits, SameRun
    <3>. QED
      BY <1>5, <1>7, <2>1, <3>1, <3>2
  <2>2. ASSUME NEW t \in Tasks, t \notin X, Waits(T, t)
        PROVE  LET j == S.store[t].token IN
               /\ T.run[j].gate = S.run[j].gate
               /\ T.run[j].pc # "done" => S.run[j].pc # "done" /\ T.run[j].linked = S.run[j].linked
    BY <1>4, <1>5, <1>7, <2>2 DEF Waits, SameRun
  <2>3. ASSUME NEW k \in Runs, T.run[k].pc \in Live
        PROVE  /\ S.run[k].pc \in Live
               /\ S.run[k].aborted => T.run[k].aborted
               /\ Running(S, S.run[k].task) => Running(T, S.run[k].task) \/ T.run[k].aborted
    <3>1. T.run[k].pc # "done" /\ S.run[k].pc \in Live /\ Born(S, k)
      BY <1>5, <2>3 DEF Live, Born
    <3>2. S.run[k].task \in Tasks /\ S.store[S.run[k].task].token = k
      BY <1>1, <3>1 DEF Grounded, RunsHaveRows
    <3>3. S.run[k].task \notin ShellsOf(S, o)
      BY <1>3, <3>1, <3>2
    <3>. QED
      BY <1>4, <1>5, <3>1, <3>2, <3>3
  <2>4. \A k \in Runs : T.run[k].aborted = S.run[k].aborted /\ T.run[k].gate = S.run[k].gate
    BY <1>5 DEF SameRun
  <2>. QED
    BY <1>4, <2>1, <2>2, <2>3, <2>4 DEF Onward
<1>9. Grounded(T) /\ Moving(T, X)
  BY <1>2, <1>6, <1>8, OnwardMoves
<1>10. ParkedWait(T)
  <2>1. ASSUME NEW k \in Runs, T.run[k].pc = "parked", ~T.run[k].aborted
        PROVE  LET u == S.run[k].task IN
               /\ S.run[k].pc = "parked" /\ ~S.run[k].aborted /\ T.run[k].task = u
               /\ Inventory(S, u) = {} => Inventory(T, u) = {}
               /\ \A c \in Tasks : Running(S, c) /\ S.store[c].owner = u =>
                    Running(T, c) /\ T.store[c].owner = u
    <3>1. S.run[k].pc = "parked" /\ ~S.run[k].aborted /\ T.run[k].task = S.run[k].task
      BY <1>5, <2>1 DEF SameRun
    <3>2. S.run[k].task # o
      BY <3>1
    <3>3. T.queue = S.queue
      BY <1>2 DEF KillsShells
    <3>4. \A c \in ShellsOf(S, o) : S.store[c].owner = o
      BY <1>3
    <3>. QED
      BY <1>4, <3>1, <3>2, <3>3, <3>4 DEF Inventory
  <2>. QED
    BY <1>1, <2>1, ParkedStay
<1>. QED
  BY <1>2, <1>9, <1>10 DEF T, Rooted

\* A fork that waits for its inventory wakes as a notice is filed for it.
LEMMA ConcludeWakes ==
  ASSUME NEW S, Fine(S), NEW ts \in SUBSET Tasks, NEW status,
         NEW k \in Runs, S.run[k].pc = "parked",
         NEW t \in ts, Notifies(S, t), Private(S, t), S.store[t].owner = S.run[k].task
  PROVE  Conclude(S, ts, status).run[k].pc = "loop"
<1>1. Conclude(S, ts, status).run = [j \in Runs |->
            IF S.run[j].pc = "parked" /\ \E u \in {v \in ts : Notifies(S, v)} :
                 Private(S, u) /\ S.store[u].owner = S.run[j].task
            THEN [S.run[j] EXCEPT !.pc = "loop"] ELSE S.run[j]]
  BY DEF Conclude, Fine, Good, Shape
<1>2. Conclude(S, ts, status).run[k] = [S.run[k] EXCEPT !.pc = "loop"]
  BY <1>1
<1>3. [S.run[k] EXCEPT !.pc = "loop"].pc = "loop"
  BY DEF Fine, Typed, RunType
<1>. QED
  BY <1>2, <1>3

\* The notices that are filed wake whom they are for.
LEMMA FiledWakes ==
  ASSUME NEW S, Fine(S), NEW ts \in SUBSET Tasks, NEW status, NEW T,
         T = Conclude(S, ts, status), Concluded(S, T, ts, status),
         NEW k \in Runs, S.run[k].pc = "parked", T.run[k].pc = "parked",
         Inventory(S, S.run[k].task) = {}
  PROVE  /\ Inventory(T, S.run[k].task) = {}
         /\ \A t \in ts : Notifies(S, t) /\ S.store[t].owner = S.run[k].task => S.run[k].task = Main
<1>. DEFINE o == S.run[k].task
<1>1. \A t \in ts : Notifies(S, t) /\ Private(S, t) => S.store[t].owner # o
  BY ConcludeWakes
<1>2. Inventory(T, o) = {}
  <2>. SUFFICES ASSUME NEW e \in T.queue, e.owner = o, e.private
                PROVE  FALSE
    BY DEF Inventory
  <2>1. \/ e \in S.queue
        \/ \E t \in Told(S, ts) : e = Notice(S, t)
    BY DEF Concluded
  <2>2. CASE e \in S.queue
    BY <2>2 DEF Inventory
  <2>3. ASSUME NEW t \in Told(S, ts), e = Notice(S, t)
        PROVE  FALSE
    BY <1>1, <2>3 DEF Told, Notice
  <2>. QED
    BY <2>1, <2>2, <2>3
<1>3. ASSUME NEW t \in ts, Notifies(S, t), S.store[t].owner = o, o # Main
      PROVE  FALSE
  <2>1. IsOwnerRegistered(S, o)
    BY DEF IsOwnerRegistered, Registered
  <2>2. Private(S, t)
    BY <1>3, <2>1 DEF Private
  <2>. QED
    BY <1>1, <1>3, <2>2
<1>. QED
  BY <1>2, <1>3

\* A task has one run at a time.
LEMMA OneRun ==
  ASSUME NEW S, Grounded(S), NEW j \in Runs, NEW k \in Runs, Born(S, j), Born(S, k),
         S.run[j].task = S.run[k].task
  PROVE  j = k
BY DEF Grounded, RunsHaveRows

\* What a parked fork owns will tell it.
LEMMA OwnedTells ==
  ASSUME NEW S, Fine(S), Grounded(S), CallersWait(S), NEW k \in Runs, S.run[k].pc = "parked",
         NEW t \in Tasks, Running(S, t), S.store[t].owner = S.run[k].task
  PROVE  Notifies(S, t) /\ (Agent(S, t) => S.store[t].mode = "detached")
<1>. DEFINE j == S.store[t].token
            p == CallerOf(S, t)
<1>1. /\ j \in Runs /\ Born(S, j) /\ S.run[j].task = t
      /\ S.run[j].how = "nested" =>
           /\ p \in Runs /\ Born(S, p) /\ S.store[t].parent = S.run[p].task
           /\ S.store[t].mode = "linked" => S.store[t].owner = S.store[t].parent
  BY WaitsIs
<1>2. Born(S, k)
  BY DEF Born
<1>3. S.run[k].task \in Tasks /\ S.run[k].task # Main
  BY <1>2, TasksAssumption DEF Grounded, RunsHaveRows
<1>4. ~S.store[t].notified
  BY DEF Fine, Good, RunsAreFresh, Running
<1>5. S.store[t].mode \in {"linked", "detached"} /\ S.store[t].kind \in {"agent", "shell"}
  BY DEF Fine, Typed, RowShape
<1>6. /\ S.run[j].how = "shell" <=> ~Agent(S, t)
      /\ S.run[j].how = "shell" => S.store[t].bg
  BY <1>1 DEF Grounded, RunsHaveRows
<1>7. /\ ~Nested(S, j) /\ S.store[t].kind = "agent" => S.store[t].owner = Main
      /\ S.store[t].mode = "detached" => S.store[t].bg
  BY <1>1 DEF Grounded, CallsHaveCallers
<1>. HIDE DEF j, p
<1>8. CASE ~Agent(S, t)
  BY <1>4, <1>6, <1>8 DEF Notifies, Answers
<1>9. CASE Agent(S, t)
  <2>1. S.run[j].how = "nested"
    BY <1>3, <1>7, <1>9 DEF Nested, Agent
  <2>2. ASSUME S.store[t].mode = "linked"
        PROVE  FALSE
    <3>1. Waits(S, t)
      BY <2>1, <2>2 DEF Waits, j
    <3>2. p = k
      BY <1>1, <1>2, <2>1, <2>2, OneRun
    <3>3. S.run[p].pc = "loop"
      BY <3>1 DEF CallersWait, p
    <3>. QED
      BY <3>2, <3>3
  <2>. QED
    BY <1>4, <1>5, <1>7, <2>2 DEF Notifies, Answers
<1>. QED
  BY <1>8, <1>9

\* The rows of runs that are over end.
LEMMA ConcludeRooted ==
  ASSUME NEW S, NEW X, Rooted(S, X), NEW ts \in SUBSET Tasks, NEW status,
         \A t \in ts : /\ Running(S, t) /\ S.run[S.store[t].token].pc = "done"
                       /\ status[t] \in Endings
  PROVE  Rooted(Conclude(S, ts, status), X \ ts)
<1>. DEFINE T == Conclude(S, ts, status)
<1>1. Fine(S) /\ Grounded(S) /\ Moving(S, X) /\ ParkedWait(S)
  BY DEF Rooted
<1>2. ASSUME NEW t \in Tasks, Running(S, t)
      PROVE  /\ S.store[t].token \in Runs
             /\ S.run[S.store[t].token].how = "nested" => CallerOf(S, t) \in Runs
  BY <1>1, <1>2, WaitsIs
<1>3. Fine(T) /\ Concluded(S, T, ts, status)
  BY <1>1, <1>2, ConcludeIs
<1>t. T = Conclude(S, ts, status)
  OBVIOUS
<1>. HIDE DEF T
<1>4. ASSUME NEW t \in Tasks
      PROVE  /\ SameRow(S, T, t) /\ T.store[t].owner = S.store[t].owner
             /\ T.ctl[t] = S.ctl[t]
             /\ Running(T, t) => Running(S, t) /\ t \notin ts
             /\ Running(S, t) /\ t \notin ts => Running(T, t)
             /\ Present(S, t) => Present(T, t)
  <2>1. CASE t \in ts
    BY <1>3, <2>1 DEF Concluded, Running, Present, Endings
  <2>2. CASE t \notin ts
    BY <1>3, <2>2 DEF Concluded, Running, Present
  <2>. QED
    BY <2>1, <2>2
<1>5. ASSUME NEW k \in Runs
      PROVE  /\ SameRun(S, T, k) /\ Woken(S, T, k)
             /\ T.run[k].linked = S.run[k].linked /\ T.run[k].aborted = S.run[k].aborted
  BY <1>3 DEF Concluded
<1>6. Still(S, T)
  <2>1. ASSUME NEW k \in Runs
        PROVE  /\ T.run[k].task = S.run[k].task /\ T.run[k].how = S.run[k].how
               /\ T.run[k].caller = S.run[k].caller
               /\ T.run[k].linked => S.run[k].linked
               /\ T.run[k].pc = "unborn" <=> S.run[k].pc = "unborn"
               /\ T.run[k].pc = "prep" => S.run[k].pc = "prep"
               /\ S.run[k].pc \in {"proc", "done"} => T.run[k].pc \in {"proc", "done"}
    BY <1>5 DEF SameRun, Woken
  <2>. QED
    BY <1>4, <2>1 DEF Still
<1>7. Onward(S, T, X, X \ ts)
  <2>1. ASSUME NEW t \in Tasks, Waits(T, t)
        PROVE  Running(S, t) /\ t \notin ts /\ Waits(S, t)
    <3>1. Running(S, t) /\ t \notin ts /\ S.store[t].token \in Runs
      BY <1>2, <1>4, <2>1 DEF Waits
    <3>. QED
      BY <1>4, <1>5, <2>1, <3>1 DEF Waits, SameRow, SameRun
  <2>2. ASSUME NEW t \in Tasks, Waits(T, t), S.run[CallerOf(S, t)].pc = "loop"
        PROVE  T.run[CallerOf(S, t)].pc = "loop"
    <3>1. CallerOf(S, t) \in Runs
      BY <1>2, <2>1, <2>2 DEF Waits
    <3>. QED
      BY <1>5, <2>2, <3>1 DEF Woken
  <2>3. ASSUME NEW t \in Tasks, t \notin X \ ts, Waits(T, t)
        PROVE  LET j == S.store[t].token IN
               /\ t \notin X /\ T.run[j].gate = S.run[j].gate
               /\ T.run[j].pc # "done" => S.run[j].pc # "done" /\ T.run[j].linked = S.run[j].linked
    BY <1>2, <1>5, <2>1, <2>3 DEF SameRun, Woken
  <2>4. ASSUME NEW k \in Runs, T.run[k].pc \in Live
        PROVE  /\ S.run[k].pc \in Live
               /\ S.run[k].aborted => T.run[k].aborted
               /\ Running(S, S.run[k].task) => Running(T, S.run[k].task) \/ T.run[k].aborted
    <3>1. S.run[k].pc \in Live /\ S.run[k].pc # "done" /\ Born(S, k)
      BY <1>5, <2>4 DEF Live, Woken, Born
    <3>2. S.run[k].task \in Tasks /\ S.store[S.run[k].task].token = k
      BY <1>1, <3>1 DEF Grounded, RunsHaveRows
    <3>. QED
      BY <1>4, <1>5, <3>1, <3>2
  <2>5. \A k \in Runs : T.run[k].aborted = S.run[k].aborted /\ T.run[k].gate = S.run[k].gate
    BY <1>5 DEF SameRun
  <2>. QED
    BY <1>4, <2>2, <2>3, <2>4, <2>5 DEF Onward
<1>8. Grounded(T) /\ Moving(T, X \ ts)
  BY <1>3, <1>6, <1>7, OnwardMoves
<1>9. ParkedWait(T)
  <2>1. ASSUME NEW k \in Runs, T.run[k].pc = "parked", ~T.run[k].aborted
        PROVE  LET u == S.run[k].task IN
               /\ S.run[k].pc = "parked" /\ ~S.run[k].aborted /\ T.run[k].task = u
               /\ Inventory(S, u) = {} => Inventory(T, u) = {}
               /\ \A c \in Tasks : Running(S, c) /\ S.store[c].owner = u =>
                    Running(T, c) /\ T.store[c].owner = u
    <3>1. S.run[k].pc = "parked" /\ ~S.run[k].aborted /\ T.run[k].task = S.run[k].task
      BY <1>5, <2>1 DEF SameRun, Woken
    <3>2. S.run[k].task \in Tasks /\ S.run[k].task # Main
      BY <1>1, <3>1, TasksAssumption DEF Grounded, RunsHaveRows, Born
    <3>3. Inventory(S, S.run[k].task) = {}
      BY <1>1, <3>1 DEF ParkedWait
    <3>4. /\ Inventory(T, S.run[k].task) = {}
          /\ \A t \in ts : Notifies(S, t) /\ S.store[t].owner = S.run[k].task => S.run[k].task = Main
      <4>1. /\ Fine(S) /\ T = Conclude(S, ts, status) /\ Concluded(S, T, ts, status)
            /\ S.run[k].pc = "parked" /\ T.run[k].pc = "parked" /\ Inventory(S, S.run[k].task) = {}
        BY <1>1, <1>3, <1>t, <2>1, <3>1, <3>3
      <4>. QED
        BY ONLY <4>1, FiledWakes, ts \in SUBSET Tasks, k \in Runs, Zenon
    <3>5. \A c \in Tasks : Running(S, c) /\ S.store[c].owner = S.run[k].task => c \notin ts
      BY <1>1, <3>1, <3>2, <3>4, OwnedTells DEF Moving
    <3>. QED
      BY <1>4, <3>1, <3>4, <3>5
  <2>. QED
    BY <1>1, <2>1, ParkedStay, ZenonT(40)
<1>. QED
  BY <1>3, <1>8, <1>9 DEF T, Rooted

\* A run that is over ends its row.
LEMMA FinishRooted ==
  ASSUME NEW S, NEW X, Rooted(S, X), NEW ks, NEW status \in Endings,
         \A k \in Runs : k \in ks => S.run[k].pc = "done"
  PROVE  Rooted(Finish(S, ks, status), X \ Current(S, ks))
<1>. DEFINE all == [t \in Tasks |-> status]
            ts == Current(S, ks)
<1>1. Finish(S, ks, status) = Conclude(S, ts, all) /\ ts \in SUBSET Tasks
  BY DEF Finish, Current
<1>2. ASSUME NEW t \in ts
      PROVE  Running(S, t) /\ S.run[S.store[t].token].pc = "done" /\ all[t] \in Endings
  <2>1. t \in Tasks /\ Running(S, t) /\ S.store[t].token \in ks
    BY DEF Current
  <2>2. S.store[t].token \in Runs
    BY <2>1 DEF Rooted, Fine, Good, RunsAreFresh, Running
  <2>. QED
    BY <2>1, <2>2
<1>. HIDE DEF all, ts
<1>3. Rooted(Conclude(S, ts, all), X \ ts)
  BY <1>1, <1>2, ConcludeRooted
<1>. QED
  BY <1>1, <1>3 DEF ts

\* The calls of a batch are committed, or lost.
LEMMA GatedRooted ==
  ASSUME NEW S, Rooted(S, {}), NEW cs, NEW gate \in {"committed", "lost"}, NEW X,
         \A t \in Tasks : Waits(S, t) /\ S.store[t].token \in cs => t \in X,
         gate = "lost" => \A k \in Runs : k \in cs /\ Born(S, k) => ~Running(S, S.run[k].task)
  PROVE  Rooted(Gated(S, cs, gate), X)
<1>. DEFINE T == Gated(S, cs, gate)
<1>1. Fine(S) /\ Grounded(S) /\ Moving(S, {}) /\ ParkedWait(S)
  BY DEF Rooted
<1>2. Fine(T) /\ Gates(S, T, cs, gate)
  BY <1>1, GatedIs
<1>. HIDE DEF T
<1>3. /\ T.store = S.store /\ T.queue = S.queue /\ T.ctl = S.ctl
      /\ \A t \in Tasks : /\ Running(T, t) <=> Running(S, t)
                          /\ Present(T, t) <=> Present(S, t)
                          /\ SameRow(S, T, t)
  BY <1>2 DEF Gates, RowsStay, Running, Present, SameRow
<1>4. ASSUME NEW k \in Runs
      PROVE  /\ T.run[k].task = S.run[k].task /\ T.run[k].how = S.run[k].how
             /\ T.run[k].caller = S.run[k].caller /\ T.run[k].pc = S.run[k].pc
             /\ T.run[k].linked = S.run[k].linked /\ T.run[k].aborted = S.run[k].aborted
             /\ T.run[k].gate = IF k \in cs THEN gate ELSE S.run[k].gate
  BY <1>2 DEF Gates
<1>5. Still(S, T)
  BY <1>3, <1>4 DEF Still
<1>6. ASSUME NEW t \in Tasks, Running(S, t)
      PROVE  /\ S.store[t].token \in Runs
             /\ S.run[S.store[t].token].how = "nested" => CallerOf(S, t) \in Runs
  BY <1>1, <1>6, WaitsIs
<1>7. ASSUME NEW t \in Tasks, Waits(T, t)
      PROVE  Waits(S, t)
  BY <1>3, <1>4, <1>6, <1>7 DEF Waits
<1>8. Onward(S, T, {}, X)
  <2>1. ASSUME NEW t \in Tasks, Waits(T, t), S.run[CallerOf(S, t)].pc = "loop"
        PROVE  T.run[CallerOf(S, t)].pc = "loop"
    BY <1>4, <1>6, <1>7, <2>1 DEF Waits
  <2>2. ASSUME NEW t \in Tasks, t \notin X, Waits(T, t)
        PROVE  LET j == S.store[t].token IN
               /\ t \notin {} /\ T.run[j].gate = S.run[j].gate
               /\ T.run[j].pc # "done" => S.run[j].pc # "done" /\ T.run[j].linked = S.run[j].linked
    <3>1. Waits(S, t) /\ S.store[t].token \in Runs /\ S.store[t].token \notin cs
      BY <1>6, <1>7, <2>2 DEF Waits
    <3>. QED
      BY <1>4, <3>1
  <2>3. ASSUME NEW k \in Runs, T.run[k].pc \in Live
        PROVE  /\ S.run[k].pc \in Live
               /\ S.run[k].aborted => T.run[k].aborted
               /\ Running(S, S.run[k].task) => Running(T, S.run[k].task) \/ T.run[k].aborted
    <3>1. S.run[k].pc \in Live /\ Born(S, k)
      BY <1>4, <2>3 DEF Live, Born
    <3>2. S.run[k].task \in Tasks
      BY <1>1, <3>1 DEF Grounded, RunsHaveRows
    <3>. QED
      BY <1>3, <1>4, <3>1, <3>2
  <2>4. ASSUME NEW k \in Runs, Born(S, k), T.run[k].gate = "lost"
        PROVE  S.run[k].gate = "lost" \/ ~Running(T, S.run[k].task)
    <3>1. S.run[k].task \in Tasks
      BY <1>1, <2>4 DEF Grounded, RunsHaveRows
    <3>. QED
      BY <1>3, <1>4, <2>4, <3>1
  <2>. QED
    BY <1>3, <1>4, <2>1, <2>2, <2>3, <2>4 DEF Onward
<1>9. Grounded(T) /\ Moving(T, X)
  BY <1>2, <1>5, <1>8, OnwardMoves
<1>10. ParkedWait(T)
  <2>1. ASSUME NEW k \in Runs, T.run[k].pc = "parked", ~T.run[k].aborted
        PROVE  LET o == S.run[k].task IN
               /\ S.run[k].pc = "parked" /\ ~S.run[k].aborted /\ T.run[k].task = o
               /\ Inventory(S, o) = {} => Inventory(T, o) = {}
               /\ \A c \in Tasks : Running(S, c) /\ S.store[c].owner = o =>
                    Running(T, c) /\ T.store[c].owner = o
    BY <1>3, <1>4, <2>1 DEF Inventory
  <2>. QED
    BY <1>1, <2>1, ParkedStay
<1>. QED
  BY <1>2, <1>9, <1>10 DEF T, Rooted

\* The rows a walk enters.
LEMMA TreeIs ==
  ASSUME NEW S, NEW r \in Tasks, NEW force
  PROVE  LET V == Tree(S, r, force) IN
         /\ V \subseteq Tasks /\ r \in V
         /\ \A x \in V : \A c \in Children(S, x) : force \/ S.store[c].mode = "linked" => c \in V
         /\ \A t \in V : t = r \/ \E x \in V : t \in Children(S, x)
<1>. DEFINE V == Tree(S, r, force)
            Closed(U) == \A x \in U : \A c \in Children(S, x) : force \/ S.store[c].mode = "linked" => c \in U
<1>1. \A t \in Tasks : t \in V <=> \A U \in SUBSET Tasks : r \in U /\ Closed(U) => t \in U
  BY DEF Tree
<1>2. V \subseteq Tasks
  BY DEF Tree
<1>3. \A x : Children(S, x) \subseteq Tasks
  BY DEF Children
<1>. HIDE DEF V
<1>4. r \in V
  BY <1>1
<1>5. Closed(V)
  <2>. SUFFICES ASSUME NEW x \in V, NEW c \in Children(S, x), force \/ S.store[c].mode = "linked",
                       NEW U \in SUBSET Tasks, r \in U, Closed(U)
                PROVE  c \in U
    BY <1>1, <1>3
  <2>1. x \in U
    BY <1>1, <1>2
  <2>. QED
    BY <2>1
<1>6. ASSUME NEW t \in V, t # r, \A x \in V : t \notin Children(S, x)
      PROVE  FALSE
  <2>. DEFINE U == V \ {t}
  <2>1. U \in SUBSET Tasks /\ r \in U
    BY <1>2, <1>4, <1>6
  <2>2. Closed(U)
    BY <1>5, <1>6
  <2>3. t \in U
    BY <1>1, <1>2, <2>1, <2>2
  <2>. QED
    BY <2>3
<1>. QED
  BY <1>2, <1>4, <1>5, <1>6 DEF V

LEMMA TreeWithin ==
  ASSUME NEW S, NEW r \in Tasks, NEW force, NEW U \in SUBSET Tasks, r \in U,
         \A x \in U : \A c \in Children(S, x) : force \/ S.store[c].mode = "linked" => c \in U
  PROVE  Tree(S, r, force) \subseteq U
BY DEF Tree

\* A child was called by the run of its parent.
LEMMA ChildIs ==
  ASSUME NEW S, Fine(S), Grounded(S), NEW x \in Tasks, NEW c \in Children(S, x)
  PROVE  /\ c \in Tasks /\ Agent(S, c) /\ S.store[c].parent = x
         /\ S.store[c].token \in Runs /\ S.run[S.store[c].token].how = "nested"
         /\ CallerOf(S, c) \in Runs /\ Born(S, CallerOf(S, c)) /\ S.run[CallerOf(S, c)].task = x
         /\ S.store[c].owner \in {x, Main}
<1>. DEFINE k == S.store[c].token
<1>1. c \in Tasks /\ Agent(S, c) /\ S.store[c].parent = x /\ Present(S, c)
  BY DEF Children
<1>2. k \in Runs
  BY <1>1 DEF Fine, Typed, Minted
<1>3. S.run[k].task = c /\ Born(S, k)
  BY <1>1, <1>2 DEF Fine, Good, TokensAreOwned, Born
<1>4. x # Main
  BY TasksAssumption
<1>5. S.run[k].how = "nested" /\ Nested(S, k)
  BY <1>1, <1>2, <1>3, <1>4 DEF Grounded, CallsHaveCallers, Nested
<1>. QED
  BY <1>1, <1>2, <1>3, <1>5 DEF Grounded, CallsHaveCallers, CallerOf

\* An abort reaches no run outside a set that is closed under links.
Hears(S, A) == \A c \in Runs : S.run[c].linked /\ S.run[c].caller \in A => c \in A

LEMMA AbortSpares ==
  ASSUME NEW S, "run" \in DOMAIN S, NEW ks, NEW A \in SUBSET Runs, Hears(S, A), ks \subseteq A,
         NEW j \in Runs, j \notin A
  PROVE  Abort(S, ks).run[j] = S.run[j]
<1>1. Abort(S, ks).run = [k \in Runs |->
           IF k \in AbortClosure(S, ks) THEN [S.run[k] EXCEPT !.aborted = TRUE] ELSE S.run[k]]
  BY DEF Abort
<1>2. j \notin AbortClosure(S, ks)
  BY DEF AbortClosure, Hears
<1>. QED
  BY <1>1, <1>2

\* What a walk reaches, and whom its notices wake.
LEMMA CancelReaches ==
  ASSUME NEW S, Fine(S), NEW k, S.run[k].task \in Tasks, Matches(S, k),
         NEW force \in BOOLEAN, NEW byUser, NEW quiet \in BOOLEAN
  PROVE  LET T == CancelTaskTree(S, k, force, byUser, quiet)
             kills == Kills(S, k, force)
             hushes == Hushes(S, k, force, quiet)
         IN
         /\ \A A \in SUBSET Runs :
              Hears(S, A) /\ (\A t \in kills : S.ctl[t] \in A \cup {NoRun}) =>
                \A j \in Runs : j \notin A => T.run[j].aborted = S.run[j].aborted
         /\ \A j \in Runs : LET o == S.run[j].task IN
              S.run[j].pc = "parked" /\ T.run[j].pc = "parked" /\ Inventory(S, o) = {} /\ o # Main =>
                /\ Inventory(T, o) = {}
                /\ \A c \in kills : c \notin hushes /\ S.store[c].owner = o => ~Notifies(S, c)
<1>. DEFINE kills == Kills(S, k, force)
            hushes == Hushes(S, k, force, quiet)
            moves == Moves(S, k, force)
            ts == kills \ hushes
            W == Walked(S, kills, hushes, moves, byUser)
            all == [t \in Tasks |-> "killed"]
            C == Conclude(W, ts, all)
            F == [C EXCEPT !.ctl = [t \in Tasks |-> IF t \in kills THEN NoRun ELSE C.ctl[t]]]
            hit == {S.ctl[t] : t \in kills} \ {NoRun}
            T == CancelTaskTree(S, k, force, byUser, quiet)
<1>1. T = Abort(F, hit)
  BY DEF CancelTaskTree, Kills, Hushes, Moves, Stops
<1>2. /\ kills \subseteq Tasks /\ moves \cap kills = {}
      /\ \A t \in kills : S.store[t].token \in Runs
  BY StopsAre DEF Kills
<1>3. Fine(T) /\ Cancelled(S, T, k, force, quiet)
  BY CancelIs
<1>. HIDE DEF kills, hushes, moves, T
<1>4. Fine(W) /\ Walks(S, W, kills, hushes, moves)
  BY <1>2, WalkedIs
<1>5. "run" \in DOMAIN C /\ "queue" \in DOMAIN C
  BY DEF C, Conclude, W, Walked, Fine, Good, Shape
<1>w. W.run = S.run
  BY <1>4 DEF Walks
<1>. HIDE DEF W
<1>6. ts \in SUBSET Tasks /\ \A t \in ts : all[t] \in Endings /\ W.store[t].token \in Runs
  BY <1>2, <1>4 DEF Endings, Walks, SameRow
<1>c. C = Conclude(W, ts, all)
  OBVIOUS
<1>. HIDE DEF all, ts, C
<1>7. Concluded(W, C, ts, all)
  BY <1>4, <1>6, <1>c, ConcludeIs
<1>8. ASSUME NEW j \in Runs
      PROVE  /\ C.run[j].linked = S.run[j].linked /\ C.run[j].caller = S.run[j].caller
             /\ C.run[j].aborted = S.run[j].aborted
  BY <1>7, <1>w DEF Concluded, SameRun
<1>9. F.run = C.run /\ "run" \in DOMAIN F /\ F.queue = C.queue /\ "queue" \in DOMAIN F
  BY <1>5
<1>. HIDE DEF F
<1>10. ASSUME NEW A \in SUBSET Runs, Hears(S, A), \A t \in kills : S.ctl[t] \in A \cup {NoRun},
              NEW j \in Runs, j \notin A
       PROVE  T.run[j].aborted = S.run[j].aborted
  <2>1. Hears(F, A)
    BY <1>8, <1>9, <1>10 DEF Hears
  <2>2. hit \subseteq A
    BY <1>10
  <2>3. T.run[j] = F.run[j]
    BY <1>1, <1>9, <1>10, <2>1, <2>2, AbortSpares
  <2>. QED
    BY <1>8, <1>9, <2>3
<1>11. ASSUME NEW j \in Runs, S.run[j].pc = "parked", T.run[j].pc = "parked",
              Inventory(S, S.run[j].task) = {}, S.run[j].task # Main
       PROVE  /\ Inventory(T, S.run[j].task) = {}
              /\ \A c \in kills : c \notin hushes /\ S.store[c].owner = S.run[j].task => ~Notifies(S, c)
  <2>. DEFINE o == S.run[j].task
  <2>1. Inventory(W, o) = {}
    <3>. SUFFICES ASSUME NEW e \in W.queue, e.owner = o, e.private
                  PROVE  FALSE
      BY DEF Inventory
    <3>1. PICK f \in S.queue : Carried(f, e, \E t \in moves : f.key = KeyOf(S, t), Main)
      BY <1>4 DEF Walks
    <3>2. f.private /\ f.owner = o
      BY <1>11, <3>1 DEF Carried
    <3>. QED
      BY <1>11, <3>2 DEF Inventory
  <2>2. T.queue = C.queue /\ T.run[j].pc = C.run[j].pc
    <3>1. T.queue = F.queue
      BY <1>1, <1>9 DEF Abort
    <3>2. T.run = [i \in Runs |-> IF i \in AbortClosure(F, hit)
                                  THEN [F.run[i] EXCEPT !.aborted = TRUE] ELSE F.run[i]]
      BY <1>1, <1>9 DEF Abort
    <3>3. T.run[j] \in {F.run[j], [F.run[j] EXCEPT !.aborted = TRUE]}
      BY <3>2
    <3>4. [F.run[j] EXCEPT !.aborted = TRUE].pc = F.run[j].pc
      OBVIOUS
    <3>. QED
      BY <1>9, <3>1, <3>3, <3>4
  <2>3. W.run[j].pc = "parked" /\ W.run[j].task = o /\ C.run[j].pc = "parked"
    BY <1>11, <1>w, <2>2
  <2>4. /\ Inventory(C, o) = {}
        /\ \A t \in ts : Notifies(W, t) /\ W.store[t].owner = o => o = Main
    <3>1. /\ Fine(W) /\ C = Conclude(W, ts, all) /\ Concluded(W, C, ts, all)
          /\ W.run[j].pc = "parked" /\ C.run[j].pc = "parked" /\ Inventory(W, W.run[j].task) = {}
      BY <1>4, <1>7, <1>c, <2>1, <2>3
    <3>2. /\ Inventory(C, W.run[j].task) = {}
          /\ \A t \in ts : Notifies(W, t) /\ W.store[t].owner = W.run[j].task => W.run[j].task = Main
      BY ONLY <3>1, <1>6, FiledWakes, j \in Runs, Zenon
    <3>. QED
      BY <2>3, <3>2
  <2>5. ASSUME NEW c \in kills, c \notin hushes, S.store[c].owner = o, Notifies(S, c)
        PROVE  FALSE
    <3>1. c \in ts /\ c \in Tasks /\ c \notin moves
      BY <1>2, <2>5 DEF ts
    <3>2. W.store[c].owner = o /\ Notifies(W, c)
      BY <1>4, <2>5, <3>1 DEF Walks, SameRow, Notifies, Answers, Agent
    <3>. QED
      BY <1>11, <2>4, <3>1, <3>2
  <2>6. Inventory(T, o) = {}
    BY <2>2, <2>4 DEF Inventory
  <2>. QED
    BY <2>5, <2>6
<1>. QED
  BY <1>10, <1>11 DEF T, kills, hushes

LEMMA CancelMoves ==
  ASSUME NEW S, NEW X, Rooted(S, X), NEW k, S.run[k].task \in Tasks, Matches(S, k),
         NEW force \in BOOLEAN, NEW byUser, NEW quiet \in BOOLEAN,
         NEW T, T = CancelTaskTree(S, k, force, byUser, quiet),
         \A j \in Runs : S.run[j].pc \in Live /\ ~S.run[j].aborted =>
           (S.run[j].task \in Kills(S, k, force) => S.ctl[S.run[j].task] = j),
         \A j \in Runs, d \in Tasks : T.run[j].aborted /\ ~S.run[j].aborted /\ Running(T, d) =>
           d # S.run[j].task /\ S.store[d].parent # S.run[j].task
  PROVE  /\ Grounded(T) /\ Moving(T, X)
         /\ \A t \in Tasks : Running(T, t) <=> Running(S, t) /\ t \notin Kills(S, k, force)
<1>. DEFINE kills == Kills(S, k, force)
            moves == Moves(S, k, force)
<1>1. Fine(S) /\ Grounded(S) /\ Moving(S, X) /\ ParkedWait(S)
  BY DEF Rooted
<1>2. Fine(T) /\ Cancelled(S, T, k, force, quiet)
  BY <1>1, CancelIs
<1>3. \A t \in moves : t \in Tasks /\ S.store[t].mode # "linked"
  <2>1. \A t \in moves : t \in Tasks
    BY <1>1, StopsAre
  <2>2. moves # {} => /\ ~force
                      /\ moves = Orphaned(S, Tree(S, S.run[k].task, force))
    BY DEF Moves
  <2>3. ASSUME NEW t \in Orphaned(S, Tree(S, S.run[k].task, force))
        PROVE  S.store[t].mode # "linked"
    BY TreeIs DEF Orphaned
  <2>. QED
    BY <2>1, <2>2, <2>3
<1>. HIDE DEF kills, moves
<1>4. ASSUME NEW t \in Tasks
      PROVE  /\ SameRow(S, T, t)
             /\ T.store[t].owner = IF t \in moves THEN Main ELSE S.store[t].owner
             /\ T.store[t].status = IF t \in kills THEN "killed" ELSE S.store[t].status
             /\ T.ctl[t] \in {NoRun, S.ctl[t]}
             /\ t \in kills /\ S.ctl[t] \in Runs => T.run[S.ctl[t]].aborted
  BY <1>2 DEF Cancelled, kills, moves
<1>5. ASSUME NEW j \in Runs
      PROVE  /\ SameRun(S, T, j) /\ Woken(S, T, j)
             /\ T.run[j].linked = S.run[j].linked
             /\ S.run[j].aborted => T.run[j].aborted
  BY <1>2 DEF Cancelled
<1>6. \A t \in Tasks : /\ Running(T, t) <=> Running(S, t) /\ t \notin kills
                       /\ t \notin kills => (Present(T, t) <=> Present(S, t))
                       /\ t \in kills => Present(T, t)
  BY <1>4 DEF Running, Present
<1>7. Still(S, T)
  <2>1. ASSUME NEW j \in Runs
        PROVE  /\ T.run[j].task = S.run[j].task /\ T.run[j].how = S.run[j].how
               /\ T.run[j].caller = S.run[j].caller
               /\ T.run[j].linked => S.run[j].linked
               /\ T.run[j].pc = "unborn" <=> S.run[j].pc = "unborn"
               /\ T.run[j].pc = "prep" => S.run[j].pc = "prep"
               /\ S.run[j].pc \in {"proc", "done"} => T.run[j].pc \in {"proc", "done"}
    BY <1>5 DEF SameRun, Woken
  <2>2. ASSUME NEW t \in Tasks
        PROVE  /\ SameRow(S, T, t)
               /\ \/ T.store[t].owner = S.store[t].owner
                  \/ T.store[t].owner = Main /\ S.store[t].mode # "linked"
               /\ Present(S, t) => Present(T, t)
               /\ T.ctl[t] \in {NoRun, S.ctl[t]}
    BY <1>3, <1>4, <1>6
  <2>. QED
    BY <2>1, <2>2 DEF Still
<1>8. ASSUME NEW t \in Tasks, Waits(T, t)
      PROVE  S.store[t].token \in Runs /\ CallerOf(S, t) \in Runs
  <2>1. Running(S, t)
    BY <1>6, <1>8 DEF Waits
  <2>2. S.store[t].token \in Runs
    BY <1>1, <2>1, WaitsIs
  <2>3. S.run[S.store[t].token].how = "nested"
    BY <1>4, <1>5, <1>8, <2>2 DEF Waits, SameRow, SameRun
  <2>. QED
    BY <1>1, <2>1, <2>2, <2>3, WaitsIs
<1>9. Onward(S, T, X, X)
  <2>1. ASSUME NEW t \in Tasks, Waits(T, t), S.run[CallerOf(S, t)].pc = "loop"
        PROVE  T.run[CallerOf(S, t)].pc = "loop"
    BY <1>5, <1>8, <2>1 DEF Woken
  <2>2. ASSUME NEW t \in Tasks, t \notin X, Waits(T, t)
        PROVE  LET j == S.store[t].token IN
               /\ T.run[j].gate = S.run[j].gate
               /\ T.run[j].pc # "done" => S.run[j].pc # "done" /\ T.run[j].linked = S.run[j].linked
    BY <1>5, <1>8, <2>2 DEF SameRun, Woken
  <2>3. ASSUME NEW j \in Runs, T.run[j].pc \in Live
        PROVE  /\ S.run[j].pc \in Live
               /\ S.run[j].aborted => T.run[j].aborted
               /\ Running(S, S.run[j].task) => Running(T, S.run[j].task) \/ T.run[j].aborted
    <3>1. S.run[j].pc \in Live /\ Born(S, j)
      BY <1>5, <2>3 DEF Live, Woken, Born
    <3>2. S.run[j].task \in Tasks
      BY <1>1, <3>1 DEF Grounded, RunsHaveRows
    <3>3. S.run[j].task \in kills /\ ~S.run[j].aborted => S.ctl[S.run[j].task] = j
      BY <3>1 DEF kills
    <3>. QED
      BY <1>4, <1>5, <1>6, <3>1, <3>2, <3>3
  <2>4. \A j \in Runs : T.run[j].gate = S.run[j].gate
    BY <1>5 DEF SameRun
  <2>. QED
    BY <1>6, <2>1, <2>2, <2>3, <2>4 DEF Onward
<1>. QED
  BY <1>2, <1>6, <1>7, <1>9, OnwardMoves DEF kills

\* An unwinding that was told to stop finds nothing that runs in its tree; what was
\* detached below it moves to main.
LEMMA CancelQuiet ==
  ASSUME NEW S, NEW X, Rooted(S, X), NEW k \in Runs, Born(S, k), S.run[k].aborted,
         NEW force \in BOOLEAN, ~force, NEW byUser, NEW quiet \in BOOLEAN
  PROVE  LET T == CancelTaskTree(S, k, force, byUser, quiet) IN
         /\ Rooted(T, X)
         /\ \A j \in Runs : /\ SameRun(S, T, j) /\ Woken(S, T, j)
                            /\ T.run[j].linked = S.run[j].linked
                            /\ T.run[j].aborted = S.run[j].aborted
<1>. DEFINE r == S.run[k].task
            V == Tree(S, r, force)
            T == CancelTaskTree(S, k, force, byUser, quiet)
            moves == Moves(S, k, force)
<1>1. Fine(S) /\ Grounded(S) /\ Moving(S, X) /\ ParkedWait(S)
  BY DEF Rooted
<1>2. r \in Tasks /\ Matches(S, k)
  BY <1>1 DEF Grounded, RunsHaveRows, Matches
<1>3. ASSUME NEW j \in Runs, Born(S, j), S.run[j].aborted, NEW d \in Tasks, Running(S, d)
      PROVE  d # S.run[j].task /\ S.store[d].parent # S.run[j].task
  BY <1>1, <1>3 DEF Moving, StoppedWithAll
<1>. HIDE DEF T, r
<1>4. \A t \in V : ~Running(S, t)
  <2>. DEFINE U == {t \in Tasks : ~Running(S, t)}
  <2>1. r \in U
    BY <1>2, <1>3 DEF r
  <2>2. ASSUME NEW x \in U, NEW c \in Children(S, x), S.store[c].mode = "linked"
        PROVE  c \in U
    <3>. SUFFICES ASSUME Running(S, c)
                  PROVE  FALSE
      BY DEF Children
    <3>1. /\ c \in Tasks /\ S.store[c].parent = x
          /\ S.run[S.store[c].token].how = "nested"
          /\ CallerOf(S, c) \in Runs /\ Born(S, CallerOf(S, c)) /\ S.run[CallerOf(S, c)].task = x
      BY <1>1, ChildIs
    <3>2. S.run[CallerOf(S, c)].pc = "loop"
      BY <1>1, <2>2, <3>1 DEF Waits, Moving, CallersWait
    <3>3. S.run[CallerOf(S, c)].aborted
      BY <1>1, <3>1, <3>2 DEF Moving, AliveOrTold, Live
    <3>. QED
      BY <1>3, <3>1, <3>3
  <2>3. V \subseteq U
    <3>. HIDE DEF U, V
    <3>1. U \in SUBSET Tasks
      BY DEF U
    <3>2. \A x \in U : \A c \in Children(S, x) : force \/ S.store[c].mode = "linked" => c \in U
      BY <2>2
    <3>. QED
      BY <1>2, <2>1, <3>1, <3>2, TreeWithin DEF V
  <2>. QED
    BY <2>3
<1>. HIDE DEF V
<1>5. Kills(S, k, force) = {}
  BY <1>4 DEF Kills, Stops, Stoppable, V, r
<1>6. Fine(T) /\ Cancelled(S, T, k, force, quiet)
  BY <1>1, <1>2, CancelIs DEF T, r
<1>7. \A j \in Runs : T.run[j].aborted = S.run[j].aborted
  <2>. DEFINE A == {}
  <2>1. A \in SUBSET Runs /\ Hears(S, A) /\ \A j \in Runs : j \notin A
    BY DEF Hears
  <2>. HIDE DEF A
  <2>2. \A t \in Kills(S, k, force) : S.ctl[t] \in A \cup {NoRun}
    BY <1>5
  <2>3. \A B \in SUBSET Runs :
           Hears(S, B) /\ (\A t \in Kills(S, k, force) : S.ctl[t] \in B \cup {NoRun}) =>
             \A j \in Runs : j \notin B => T.run[j].aborted = S.run[j].aborted
    BY <1>1, <1>2, CancelReaches DEF T, r
  <2>. QED
    BY <2>1, <2>2, <2>3
<1>8. /\ Grounded(T) /\ Moving(T, X)
      /\ \A t \in Tasks : Running(T, t) <=> Running(S, t) /\ t \notin Kills(S, k, force)
  <2>1. ASSUME NEW j \in Runs, NEW d \in Tasks
        PROVE  /\ S.run[j].task \notin Kills(S, k, force)
               /\ ~(T.run[j].aborted /\ ~S.run[j].aborted)
    BY <1>5, <1>7
  <2>2. S.run[k].task \in Tasks /\ T = CancelTaskTree(S, k, force, byUser, quiet)
    BY <1>2 DEF T, r
  <2>. QED
    <3>1. \A j \in Runs : S.run[j].pc \in Live /\ ~S.run[j].aborted =>
            (S.run[j].task \in Kills(S, k, force) => S.ctl[S.run[j].task] = j)
      BY <1>5
    <3>2. \A j \in Runs, d \in Tasks : T.run[j].aborted /\ ~S.run[j].aborted /\ Running(T, d) =>
            d # S.run[j].task /\ S.store[d].parent # S.run[j].task
      BY <2>1
    <3>3. Rooted(S, X) /\ Matches(S, k) /\ force \in BOOLEAN /\ quiet \in BOOLEAN
      BY <1>2
    <3>. QED
      BY ONLY <2>2, <3>1, <3>2, <3>3, CancelMoves
<1>9. ASSUME NEW j \in Runs
      PROVE  /\ SameRun(S, T, j) /\ Woken(S, T, j)
             /\ T.run[j].linked = S.run[j].linked
  BY <1>6 DEF Cancelled
<1>10. \A t \in Tasks : T.store[t].owner = IF t \in moves THEN Main ELSE S.store[t].owner
  BY <1>6 DEF Cancelled
<1>11. \A t \in moves : \E x \in V : x \in Tasks /\ t \in Children(S, x)
  BY <1>2, TreeIs DEF Moves, Orphaned, V, r
<1>. HIDE DEF moves
<1>12. ParkedWait(T)
  <2>1. ASSUME NEW j \in Runs, T.run[j].pc = "parked", ~T.run[j].aborted
        PROVE  LET o == S.run[j].task IN
               /\ S.run[j].pc = "parked" /\ ~S.run[j].aborted /\ T.run[j].task = o
               /\ Inventory(S, o) = {} => Inventory(T, o) = {}
               /\ \A c \in Tasks : Running(S, c) /\ S.store[c].owner = o =>
                    Running(T, c) /\ T.store[c].owner = o
    <3>1. /\ S.run[j].pc = "parked" /\ ~S.run[j].aborted /\ T.run[j].task = S.run[j].task
          /\ Born(S, j)
      BY <1>7, <1>9, <2>1 DEF SameRun, Woken, Born
    <3>2. S.run[j].task \in Tasks /\ S.run[j].task # Main
      BY <1>1, <3>1, TasksAssumption DEF Grounded, RunsHaveRows
    <3>3. Inventory(S, S.run[j].task) = {} => Inventory(T, S.run[j].task) = {}
      BY <1>1, <1>2, <2>1, <3>1, <3>2, CancelReaches DEF T, r
    <3>4. Running(S, S.run[j].task)
      BY <1>1, <3>1 DEF Moving, AliveOrTold, Live
    <3>5. ASSUME NEW c \in Tasks, S.store[c].owner = S.run[j].task
          PROVE  c \notin moves
      <4>. SUFFICES ASSUME NEW x \in V, x \in Tasks, c \in Children(S, x)
                    PROVE  FALSE
        BY <1>11
      <4>1. S.store[c].owner \in {x, Main}
        BY <1>1, ChildIs
      <4>. QED
        BY <1>4, <3>2, <3>4, <3>5, <4>1
    <3>. QED
      BY <1>5, <1>8, <1>10, <3>1, <3>3, <3>5
  <2>. QED
    BY <1>1, <2>1, ParkedStay
<1>. QED
  BY <1>6, <1>7, <1>8, <1>9, <1>12 DEF T, Rooted

\* A stop by the user ends all that runs in the tree and tells their runs; what was
\* waiting for the root is woken, and what was waiting below it is stopped as well.
LEMMA CancelForced ==
  ASSUME NEW S, NEW X, Rooted(S, X), Placed(S), StopsHeard(S),
         NEW r \in Tasks, Present(S, r), Agent(S, r), NEW k, k = S.store[r].token,
         NEW force \in BOOLEAN, force, NEW byUser, NEW quiet \in BOOLEAN, ~quiet
  PROVE  Rooted(CancelTaskTree(S, k, force, byUser, quiet), X)
<1>. DEFINE V == Tree(S, r, force)
            T == CancelTaskTree(S, k, force, byUser, quiet)
            kills == Kills(S, k, force)
            A == {j \in Runs : Born(S, j) /\ S.run[j].task \in V}
<1>1. Fine(S) /\ Grounded(S) /\ Moving(S, X) /\ ParkedWait(S)
  BY DEF Rooted
<1>2. k \in Runs /\ S.run[k].task = r /\ Matches(S, k)
  BY <1>1 DEF Fine, Typed, Minted, Good, TokensAreOwned, Matches
<1>t. T = CancelTaskTree(S, k, force, byUser, quiet)
  OBVIOUS
<1>g. Fine(S) /\ S.run[k].task \in Tasks /\ Matches(S, k) /\ force \in BOOLEAN /\ quiet \in BOOLEAN
  BY <1>1, <1>2
<1>. HIDE DEF T
<1>3. /\ V \subseteq Tasks /\ r \in V
      /\ \A x \in V : \A c \in Children(S, x) : c \in V
      /\ \A t \in V : t = r \/ \E x \in V : t \in Children(S, x)
  BY TreeIs
<1>4. \A t \in V : Agent(S, t)
  BY <1>3 DEF Children
<1>5. /\ kills \subseteq V
      /\ \A t \in V : Running(S, t) => t \in kills
      /\ \A t \in kills : t \in Tasks /\ S.store[t].token \in Runs
      /\ Moves(S, k, force) = {}
  <2>1. \A t \in kills : S.store[t].token \in Runs
    <3>1. \A t \in Stops(S, k, force) : S.store[t].token \in Runs
      BY ONLY <1>g, StopsAre
    <3>. QED
      BY <3>1 DEF Kills
  <2>2. kills \subseteq V /\ \A t \in V : Running(S, t) => t \in kills
    BY <1>2 DEF Kills, Stops, Stoppable, Running
  <2>3. Moves(S, k, force) = {}
    BY DEF Moves
  <2>. QED
    BY <1>3, <2>1, <2>2, <2>3
<1>h. r \in kills /\ S.store[r].mode # "linked" => r \notin Hushes(S, k, force, quiet)
  BY <1>2 DEF Hushes
<1>. HIDE DEF V, kills
<1>6. Fine(T) /\ Cancelled(S, T, k, force, quiet)
  BY ONLY <1>g, <1>t, CancelIs
<1>7. \A d \in Tasks : Running(T, d) => Running(S, d) /\ d \notin V
  <2>1. \A d \in Tasks : T.store[d].status = IF d \in kills THEN "killed" ELSE S.store[d].status
    BY <1>6 DEF Cancelled, kills
  <2>. QED
    BY <1>5, <2>1 DEF Running
<1>8. ASSUME NEW j \in Runs, S.run[j].pc \in Live, ~S.run[j].aborted, S.run[j].task \in kills
      PROVE  S.ctl[S.run[j].task] = j
  <2>. DEFINE t == S.run[j].task
  <2>1. t \in Tasks /\ S.store[t].token = j
    BY <1>1, <1>8 DEF Grounded, RunsHaveRows, Live, Born
  <2>2. Agent(S, t)
    BY <1>4, <1>5, <1>8
  <2>3. ~Quiet(S, j)
    BY <1>8 DEF Quiet, Live
  <2>4. \A i \in Runs : S.run[i].how # "view"
    BY <1>1 DEF Placed, Grounded, RunsHaveRows, Born
  <2>. HIDE DEF t
  <2>5. S.ctl[t] = j
    BY <1>8, <2>1, <2>2, <2>3, <2>4 DEF StopsHeard, Viewed
  <2>. QED
    BY <2>5 DEF t
<1>9. A \in SUBSET Runs /\ Hears(S, A) /\ \A t \in kills : S.ctl[t] \in A \cup {NoRun}
  <2>1. ASSUME NEW c \in Runs, S.run[c].linked, S.run[c].caller \in A
        PROVE  c \in A
    <3>. DEFINE t == S.run[c].task
                x == S.run[S.run[c].caller].task
    <3>1. Born(S, c) /\ S.run[c].how = "nested" /\ S.store[t].parent = x /\ x \in V
      BY <1>1, <2>1 DEF Grounded, CallsHaveCallers, Nested
    <3>2. t \in Tasks /\ Present(S, t) /\ Agent(S, t)
      BY <1>1, <3>1 DEF Grounded, RunsHaveRows
    <3>3. t \in Children(S, x)
      BY <3>1, <3>2 DEF Children
    <3>. QED
      BY <1>3, <3>1, <3>3
  <2>2. ASSUME NEW t \in kills
        PROVE  S.ctl[t] \in A \cup {NoRun}
    <3>1. t \in Tasks /\ S.store[t].token \in Runs /\ t \in V
      BY <1>5
    <3>2. S.run[S.store[t].token].task = t /\ Born(S, S.store[t].token)
      BY <1>1, <3>1 DEF Fine, Good, TokensAreOwned, Born
    <3>3. S.ctl[t] \in {NoRun, S.store[t].token}
      BY <1>1, <3>1 DEF Grounded, StopsAimRight
    <3>. QED
      BY <3>1, <3>2, <3>3
  <2>. QED
    BY <2>1, <2>2 DEF Hears
<1>10. \A j \in Runs : T.run[j].aborted = S.run[j].aborted \/ j \in A
  <2>. HIDE DEF A
  <2>1. \A B \in SUBSET Runs :
           Hears(S, B) /\ (\A t \in kills : S.ctl[t] \in B \cup {NoRun}) =>
             \A j \in Runs : j \notin B => T.run[j].aborted = S.run[j].aborted
    BY ONLY <1>g, <1>t, CancelReaches DEF kills
  <2>. QED
    BY <1>9, <2>1
<1>11. ASSUME NEW j \in Runs, NEW d \in Tasks, T.run[j].aborted, ~S.run[j].aborted, Running(T, d)
       PROVE  d # S.run[j].task /\ S.store[d].parent # S.run[j].task
  <2>1. S.run[j].task \in V /\ S.run[j].task \in Tasks
    BY <1>3, <1>10, <1>11
  <2>2. Running(S, d) /\ d \notin V
    BY <1>7, <1>11
  <2>3. ASSUME S.store[d].parent = S.run[j].task
        PROVE  FALSE
    <3>1. S.store[d].parent # Main
      BY <2>1, <2>3, TasksAssumption
    <3>2. /\ S.store[d].token \in Runs /\ Born(S, S.store[d].token)
          /\ S.run[S.store[d].token].task = d /\ S.run[S.store[d].token].how = "nested"
      BY <1>1, <2>2, <3>1, WaitsIs
    <3>3. Agent(S, d) /\ Present(S, d)
      BY <1>1, <3>2 DEF Grounded, RunsHaveRows
    <3>4. d \in Children(S, S.run[j].task)
      BY <2>3, <3>3 DEF Children
    <3>. QED
      BY <1>3, <2>1, <2>2, <3>4
  <2>. QED
    BY <2>1, <2>2, <2>3
<1>. HIDE DEF A
<1>12. /\ Grounded(T) /\ Moving(T, X)
       /\ \A t \in Tasks : Running(T, t) <=> Running(S, t) /\ t \notin kills
  <2>1. \A j \in Runs : S.run[j].pc \in Live /\ ~S.run[j].aborted =>
          (S.run[j].task \in Kills(S, k, force) => S.ctl[S.run[j].task] = j)
    BY <1>8 DEF kills
  <2>2. \A j \in Runs, d \in Tasks : T.run[j].aborted /\ ~S.run[j].aborted /\ Running(T, d) =>
          d # S.run[j].task /\ S.store[d].parent # S.run[j].task
    BY <1>11
  <2>3. S.run[k].task \in Tasks /\ Matches(S, k) /\ Rooted(S, X) /\ force \in BOOLEAN
        /\ quiet \in BOOLEAN
    BY <1>2
  <2>4. /\ Grounded(T) /\ Moving(T, X)
        /\ \A t \in Tasks : Running(T, t) <=> Running(S, t) /\ t \notin Kills(S, k, force)
    BY ONLY <1>t, <2>1, <2>2, <2>3, CancelMoves
  <2>. QED
    BY <2>4 DEF kills
<1>13. ASSUME NEW j \in Runs
       PROVE  /\ SameRun(S, T, j) /\ Woken(S, T, j)
              /\ S.run[j].aborted => T.run[j].aborted
  BY <1>6 DEF Cancelled
<1>14. \A t \in Tasks : T.store[t].owner = S.store[t].owner
  BY <1>5, <1>6 DEF Cancelled
<1>15. ParkedWait(T)
  <2>1. ASSUME NEW j \in Runs, T.run[j].pc = "parked", ~T.run[j].aborted
        PROVE  LET o == S.run[j].task IN
               /\ S.run[j].pc = "parked" /\ ~S.run[j].aborted /\ T.run[j].task = o
               /\ Inventory(S, o) = {} => Inventory(T, o) = {}
               /\ \A c \in Tasks : Running(S, c) /\ S.store[c].owner = o =>
                    Running(T, c) /\ T.store[c].owner = o
    <3>. DEFINE o == S.run[j].task
    <3>1. S.run[j].pc = "parked" /\ ~S.run[j].aborted /\ T.run[j].task = o /\ Born(S, j)
      BY <1>13, <2>1 DEF SameRun, Woken, Born
    <3>2. o \in Tasks /\ o # Main
      BY <1>1, <3>1, TasksAssumption DEF Grounded, RunsHaveRows
    <3>3. Inventory(S, o) = {}
      BY <1>1, <3>1 DEF ParkedWait
    <3>4. /\ Inventory(T, o) = {}
          /\ \A c \in kills : c \notin Hushes(S, k, force, quiet) /\ S.store[c].owner = o =>
               ~Notifies(S, c)
      <4>1. S.run[j].pc = "parked" /\ T.run[j].pc = "parked"
        BY <2>1, <3>1
      <4>. QED
        <5>1. Inventory(T, o) = {}
          BY ONLY <1>g, <1>t, <3>2, <3>3, <4>1, j \in Runs, CancelReaches DEF o
        <5>2. ASSUME NEW c \in Kills(S, k, force), c \notin Hushes(S, k, force, quiet),
                     S.store[c].owner = o, Notifies(S, c)
              PROVE  FALSE
          BY ONLY <1>g, <1>t, <3>2, <3>3, <4>1, <5>2, j \in Runs, CancelReaches DEF o
        <5>. QED
          BY <5>1, <5>2 DEF kills
    <3>5. Running(T, o)
      BY <1>12, <2>1, <3>1 DEF Moving, AliveOrTold, Live
    <3>6. o \notin V
      BY <1>7, <3>2, <3>5
    <3>. HIDE DEF o
    <3>7. ASSUME NEW c \in kills, Running(S, c), S.store[c].owner = o
          PROVE  FALSE
      <4>1. c \in V /\ c \in Tasks
        BY <1>5
      <4>2. Notifies(S, c) /\ (Agent(S, c) => S.store[c].mode = "detached")
        BY <1>1, <3>1, <3>7, <4>1, OwnedTells DEF Moving, o
      <4>3. CASE c = r
        BY <1>h, <3>4, <3>7, <4>2, <4>3
      <4>4. ASSUME NEW x \in V, c \in Children(S, x)
            PROVE  FALSE
        <5>1. S.store[c].owner \in {x, Main}
          BY <1>1, <1>3, <4>4, ChildIs
        <5>. QED
          BY <3>2, <3>6, <3>7, <5>1
      <4>. QED
        BY <1>3, <4>1, <4>3, <4>4
    <3>. QED
      BY <1>12, <1>14, <3>1, <3>4, <3>7 DEF o
  <2>. QED
    BY <1>1, <2>1, ParkedStay
<1>. QED
  BY <1>6, <1>12, <1>15 DEF T, Rooted

LEMMA StepsFine ==
  ASSUME NEW S, Fine(S), NEW T, NEW k \in Runs, NEW e \in RunType, Steps(S, T, k, e),
         Born(S, k), e.pc # "unborn", e.task = S.run[k].task
  PROVE  Fine(T)
<1>1. {"task", "pc"} \subseteq DOMAIN e
  BY DEF RunType
<1>2. /\ DOMAIN T = DOMAIN S /\ T.run = [S.run EXCEPT ![k] = e] /\ T.ctl = S.ctl
      /\ T.store = S.store /\ T.queue = S.queue /\ T.posted = S.posted
  BY DEF Steps, RowsStay
<1>3. Leads(S, T)
  BY <1>1, <1>2, RunMoves DEF Fine, Born
<1>4. Good(T)
  BY <1>3, LeadsKeepsGood DEF Fine
<1>5. T.run \in [Runs -> RunType] /\ T.ctl \in [Tasks -> Runs \cup {NoRun}]
  BY <1>2 DEF Fine, Typed
<1>. QED
  BY <1>4, <1>5, RunsFine DEF Steps

LEMMA StepRooted ==
  ASSUME NEW S, NEW X, Rooted(S, X), NEW T, NEW k \in Runs, NEW e \in RunType, Steps(S, T, k, e),
         Born(S, k), StepsOn(S, k, e)
  PROVE  Rooted(T, X)
<1>1. Fine(T)
  BY StepsFine DEF StepsOn, Rooted
<1>2. RowsStay(S, T) /\ (\A t \in Tasks : T.ctl[t] \in {NoRun, S.ctl[t]})
      /\ T.run = [S.run EXCEPT ![k] = e]
  BY DEF Steps
<1>. QED
  BY <1>1, <1>2, RunRooted

\* A run that reaches its next place.
Reaches(S, k, pc) ==
  /\ pc # "done" => S.run[k].pc # "done"
  /\ S.run[k].pc = "proc" => pc = "done"
  /\ pc \in Live => S.run[k].pc \in Live
  /\ S.run[k].pc = "loop" /\ pc # "loop" => \A t \in Tasks : Waits(S, t) => CallerOf(S, t) # k
  /\ pc = "parked" /\ ~S.run[k].aborted =>
       Inventory(S, S.run[k].task) = {} /\ HasRunningOwnedWork(S, S.run[k].task)

LEMMA PcRooted ==
  ASSUME NEW S, NEW X, Rooted(S, X), NEW k \in Runs, Born(S, k),
         NEW pc \in {"loop", "parked", "exit", "settle", "done"},
         NEW outcome \in {"none", "ok", "failed", "setup"}, Reaches(S, k, pc)
  PROVE  /\ Rooted([S EXCEPT !.run[k].pc = pc], X)
         /\ Rooted([S EXCEPT !.run[k].pc = pc, !.run[k].outcome = outcome], X)
<1>. DEFINE T == [S EXCEPT !.run[k].pc = pc]
            U == [S EXCEPT !.run[k].pc = pc, !.run[k].outcome = outcome]
            e == At(S.run[k], pc)
            f == Out(S.run[k], pc, outcome)
<1>1. Fine(S) /\ S.run[k] \in RunType
  BY DEF Rooted, Fine, Typed
<1>2. /\ e \in RunType /\ e.pc = pc /\ e.task = S.run[k].task /\ e.how = S.run[k].how
      /\ e.caller = S.run[k].caller /\ e.linked = S.run[k].linked
      /\ e.aborted = S.run[k].aborted /\ e.gate = S.run[k].gate
  BY <1>1 DEF At, RunType
<1>3. /\ f \in RunType /\ f.pc = pc /\ f.task = S.run[k].task /\ f.how = S.run[k].how
      /\ f.caller = S.run[k].caller /\ f.linked = S.run[k].linked
      /\ f.aborted = S.run[k].aborted /\ f.gate = S.run[k].gate
  <2>. DEFINE r == S.run[k]
  <2>1. r \in RunType /\ f = Out(r, pc, outcome)
    BY <1>1
  <2>. HIDE DEF r, f
  <2>2. f \in RunType /\ SameCall(r, f) /\ f.pc = pc /\ f.gate = r.gate
    BY <2>1, StepIs
  <2>3. f.caller = r.caller /\ f.linked = r.linked
    BY <2>1 DEF Out, RunType
  <2>. QED
    BY <2>2, <2>3 DEF r, SameCall
<1>4. Steps(S, T, k, e) /\ Steps(S, U, k, f)
  BY <1>1, RecordIs
<1>. HIDE DEF T, U, e, f
<1>5. StepsOn(S, k, e) /\ StepsOn(S, k, f)
  BY <1>2, <1>3 DEF StepsOn, Reaches
<1>6. Rooted(T, X) /\ Rooted(U, X)
  BY <1>2, <1>3, <1>4, <1>5, StepRooted
<1>. QED
  BY <1>6 DEF T, U

\* A fork leaves its loop with its shells, and with no call open.
LEMMA LeaveRooted ==
  ASSUME NEW S, Rooted(S, {}), NEW k \in Runs, S.run[k].pc = "loop",
         NEW outcome \in {"ok", "failed"},
         \A t \in Tasks : Waits(S, t) => CallerOf(S, t) # k
  PROVE  Rooted(Leave(S, k, outcome), {})
<1>. DEFINE T == [S EXCEPT !.run[k].pc = "exit", !.run[k].outcome = outcome]
<1>1. Fine(S) /\ Born(S, k) /\ S.run[k] \in RunType
  BY DEF Rooted, Fine, Typed, Born
<1>2. Reaches(S, k, "exit")
  BY DEF Reaches, Live
<1>3. Rooted(T, {})
  BY <1>1, <1>2, PcRooted
<1>4. Leave(S, k, outcome) = KillShellsForOwner(T, S.run[k].task)
  BY DEF Leave
<1>5. T.run = [S.run EXCEPT ![k] = Out(S.run[k], "exit", outcome)]
  <2>1. Steps(S, T, k, Out(S.run[k], "exit", outcome))
    BY <1>1, RecordIs
  <2>. HIDE DEF T
  <2>. QED
    BY <2>1 DEF Steps
<1>6. Out(S.run[k], "exit", outcome).pc = "exit" /\ Out(S.run[k], "exit", outcome).task = S.run[k].task
  BY <1>1, StepIs DEF SameCall
<1>. HIDE DEF T
<1>7. /\ T.run[k].pc = "exit" /\ T.run[k].task = S.run[k].task
      /\ \A j \in Runs : T.run[j].task = S.run[j].task /\ (j # k => T.run[j] = S.run[j])
  <2>1. T.run[k] = Out(S.run[k], "exit", outcome) /\ \A j \in Runs : j # k => T.run[j] = S.run[j]
    BY <1>1, <1>5 DEF Fine, Typed
  <2>. QED
    BY <1>6, <2>1
<1>8. ASSUME NEW j \in Runs, T.run[j].pc = "parked", T.run[j].task = S.run[k].task
      PROVE  FALSE
  <2>1. Born(T, j) /\ Born(T, k) /\ j # k
    BY <1>7, <1>8 DEF Born
  <2>. QED
    BY <1>3, <1>7, <1>8, <2>1, OneRun DEF Rooted
<1>. QED
  BY <1>3, <1>4, <1>8, KillShellsRooted

\* What the step knows of its run is what the call finds.
Knows(S, k) ==
  /\ S.run[k].task = run[k].task /\ S.run[k].how = run[k].how
  /\ run[k].aborted => S.run[k].aborted

LEMMA PublishRooted ==
  ASSUME NEW S, Rooted(S, {}), NEW k \in Runs, S.run[k].pc = "done", Knows(S, k)
  PROVE  Rooted(Publish(S, k), {})
<1>. DEFINE ks == {k}
<1>1. Fine(S) /\ Grounded(S) /\ Born(S, k)
  BY DEF Rooted, Born
<1>2. S.store[run[k].task].token = k /\ run[k].how \notin {"send", "view"}
  BY <1>1 DEF Grounded, RunsHaveRows, Knows
<1>3. Ending(k) \in Endings
  BY DEF Ending, Endings
<1>4. \/ Publish(S, k) = Finish(S, ks, Ending(k))
      \/ Publish(S, k) = CancelTaskTree(S, k, FALSE, TRUE, FALSE) /\ run[k].aborted
  BY <1>2 DEF Publish
<1>5. \A j \in Runs : j \in ks => S.run[j].pc = "done"
  OBVIOUS
<1>6. \A A : {} \ A = {}
  OBVIOUS
<1>. HIDE DEF ks
<1>7. Rooted(Finish(S, ks, Ending(k)), {})
  <2>1. Rooted(Finish(S, ks, Ending(k)), {} \ Current(S, ks))
    BY <1>3, <1>5, FinishRooted
  <2>. QED
    BY <1>6, <2>1
<1>8. run[k].aborted => Rooted(CancelTaskTree(S, k, FALSE, TRUE, FALSE), {})
  BY <1>1, CancelQuiet DEF Knows
<1>. QED
  BY <1>4, <1>7, <1>8

LEMMA ReportRooted ==
  ASSUME NEW S, Rooted(S, {}), NEW k \in Runs, S.run[k].pc = "settle", Knows(S, k)
  PROVE  Rooted(Report(S, k), {})
<1>. DEFINE t == run[k].task
            over == [S EXCEPT !.run[k].pc = "done",
                              !.run[k].linked = FALSE,
                              !.ctl[t] = IF @ = k THEN NoRun ELSE @]
            e == [S.run[k] EXCEPT !.pc = "done", !.linked = FALSE]
            c == IF S.ctl[t] = k THEN NoRun ELSE S.ctl[t]
<1>1. Report(S, k) = IF run[k].gate \in {"none", "committed"} THEN Publish(over, k) ELSE over
  BY DEF Report
<1>2. Fine(S) /\ Born(S, k)
  BY DEF Rooted, Born
<1>3. /\ DOMAIN over = DOMAIN S /\ RowsStay(S, over)
      /\ over.run = [S.run EXCEPT ![k] = e]
      /\ over.ctl = [S.ctl EXCEPT ![t] = c]
  BY <1>2 DEF Fine, Good, Shape, RowsStay
<1>4. S.run[k] \in RunType /\ S.run \in [Runs -> RunType] /\ S.ctl \in [Tasks -> Runs \cup {NoRun}]
  BY <1>2 DEF Fine, Typed
<1>5. /\ e \in RunType /\ e.task = S.run[k].task /\ e.how = S.run[k].how
      /\ e.gate = S.run[k].gate /\ e.pc = "done" /\ e.caller = S.run[k].caller
      /\ e.linked = FALSE /\ e.aborted = S.run[k].aborted
  BY <1>4 DEF RunType
<1>6. /\ over.ctl \in [Tasks -> Runs \cup {NoRun}]
      /\ \A u \in Tasks : over.ctl[u] \in {NoRun, S.ctl[u]}
  <2>1. \A u \in Tasks : over.ctl[u] = IF u = t THEN c ELSE S.ctl[u]
    BY <1>3, <1>4
  <2>2. over.ctl \in [Tasks -> Runs \cup {NoRun}]
    BY <1>3, <1>4
  <2>. QED
    BY <2>1, <2>2
<1>. HIDE DEF over, e, c
<1>7. Fine(over)
  <2>1. {"task", "pc"} \subseteq DOMAIN e
    BY <1>5 DEF RunType
  <2>2. over.store = S.store /\ over.queue = S.queue /\ over.posted = S.posted
    BY <1>3 DEF RowsStay
  <2>3. e.pc # "unborn"
    BY <1>5
  <2>4. Leads(S, over)
    BY <1>2, <1>3, <1>5, <2>1, <2>2, <2>3, RunMoves DEF Fine, Born
  <2>5. Good(over)
    BY <1>2, <2>4, LeadsKeepsGood DEF Fine
  <2>6. over.run \in [Runs -> RunType]
    BY <1>3, <1>4, <1>5
  <2>. QED
    BY <1>2, <1>3, <1>6, <2>5, <2>6, RunsFine
<1>8. StepsOn(S, k, e)
  BY <1>5 DEF StepsOn, Live
<1>9. Rooted(over, {})
  BY <1>2, <1>3, <1>6, <1>7, <1>8, RunRooted
<1>10. over.run[k] = e
  BY <1>3, <1>4
<1>11. Knows(over, k) /\ over.run[k].pc = "done"
  BY <1>5, <1>10 DEF Knows
<1>. QED
  BY <1>1, <1>9, <1>11, PublishRooted

LEMMA CloseRooted ==
  ASSUME NEW S, Rooted(S, {}), NEW k \in Runs, S.run[k].pc = "settle", Knows(S, k)
  PROVE  Rooted(Close(S, k), {})
BY ReportRooted DEF Close

LEMMA BecomeRooted ==
  ASSUME NEW T, Become(T), Rooted(T, {}), Fine(Now')
  PROVE  Rooted(Now', {})
<1>. DEFINE U == Now'
<1>1. T.store = U.store /\ T.run = U.run /\ T.ctl = U.ctl /\ T.queue = U.queue
  BY NowIs DEF Become
<1>2. Fine(U)
  OBVIOUS
<1>. HIDE DEF U
<1>3. \A t \in Tasks : /\ SameRow(T, U, t) /\ U.store[t].owner = T.store[t].owner
                       /\ U.store[t].status = T.store[t].status
  BY <1>1 DEF SameRow
<1>4. \A o : Inventory(T, o) = {} => Inventory(U, o) = {}
  BY <1>1 DEF Inventory
<1>5. \A X : Rooted(T, X) => Rooted(U, X)
  BY <1>1, <1>2, <1>3, <1>4, ReadRooted
<1>. QED
  BY <1>5 DEF U

\* The awaits of a run that change nothing but its place.
LEMMA NowGoes ==
  ASSUME Rooted(Now, {}), NEW k \in Runs, Born(Now, k), NEW pc \in {"loop", "parked"},
         Reaches(Now, k, pc), run' = [run EXCEPT ![k].pc = pc],
         UNCHANGED <<store, ctl, queue, posted>>
  PROVE  Rooted(Now', {})
<1>. DEFINE e == At(run[k], pc)
<1>1. Fine(Now) /\ run[k] \in RunType
  BY NowIs DEF Rooted, Fine, Typed
<1>2. /\ e \in RunType /\ e.pc = pc /\ e.task = run[k].task /\ e.how = run[k].how
      /\ e.caller = run[k].caller /\ e.linked = run[k].linked
      /\ e.aborted = run[k].aborted /\ e.gate = run[k].gate
  <2>. DEFINE r == run[k]
  <2>1. r \in RunType /\ e = At(r, pc)
    BY <1>1
  <2>. HIDE DEF r, e
  <2>2. /\ e \in RunType /\ e.pc = pc /\ e.task = r.task /\ e.how = r.how
        /\ e.caller = r.caller /\ e.linked = r.linked /\ e.aborted = r.aborted /\ e.gate = r.gate
    BY <2>1 DEF At, RunType
  <2>. QED
    BY <2>2 DEF r
<1>3. run' = [run EXCEPT ![k] = e]
  BY DEF At
<1>. HIDE DEF e
<1>4. Steps(Now, Now', k, e)
  BY <1>3, NowIs DEF Steps, RowsStay
<1>5. StepsOn(Now, k, e)
  BY <1>2, NowIs DEF StepsOn, Reaches
<1>6. \A X : Rooted(Now, X) => Rooted(Now', X)
  BY <1>2, <1>4, <1>5, StepRooted
<1>. QED
  BY <1>6

\* Nobody waits for a fork that has no call open.
LEMMA NoCalls ==
  ASSUME Rooted(Now, {}), NEW k \in Runs, ~Dispatching(k), NEW t \in Tasks, Waits(Now, t)
  PROVE  CallerOf(Now, t) # k
<1>. DEFINE j == Now.store[t].token
<1>1. Fine(Now) /\ Grounded(Now) /\ Running(Now, t)
  BY DEF Rooted, Waits
<1>2. j \in Runs
  BY <1>1, WaitsIs
<1>3. Now.run[j].gate = "open"
  BY DEF Rooted, Moving, CallsAreOpen
<1>4. j \notin OpenBatch(k)
  BY DEF Dispatching
<1>. QED
  BY <1>2, <1>3, <1>4, NowIs DEF OpenBatch, CallerOf

LEMMA AwaitRooted ==
  ASSUME Plain, Rooted(Now, {}), NEW k \in Runs,
         Register(k) \/ Park(k) \/ WakeAborted(k) \/ Steer(k)
  PROVE  Rooted(Now', {})
<1>1. CASE Register(k)
  <2>1. Reaches(Now, k, "loop") /\ Born(Now, k)
    BY <1>1, NowIs DEF Register, Reaches, Live, Born
  <2>. QED
    BY <1>1, <2>1, NowGoes DEF Register
<1>2. CASE Park(k)
  <2>1. \A t \in Tasks : Waits(Now, t) => CallerOf(Now, t) # k
    BY <1>2, NoCalls DEF Park
  <2>2. Reaches(Now, k, "parked") /\ Born(Now, k)
    BY <1>2, <2>1, NowIs DEF Park, Working, Reaches, Live, Born
  <2>. QED
    BY <1>2, <2>2, NowGoes DEF Park
<1>3. CASE WakeAborted(k)
  <2>1. Reaches(Now, k, "loop") /\ Born(Now, k)
    BY <1>3, NowIs DEF WakeAborted, WakeUp, Reaches, Live, Born
  <2>. QED
    BY <1>3, <2>1, NowGoes DEF WakeAborted, WakeUp
<1>4. CASE Steer(k)
  BY <1>4 DEF Steer, Plain
<1>. QED
  BY <1>1, <1>2, <1>3, <1>4

LEMMA ReadsRooted ==
  ASSUME Rooted(Now, {}), Fine(Now'), (\E k \in Runs : TakeForOwner(k)) \/ DrainMain
  PROVE  Rooted(Now', {})
<1>1. queue' \subseteq queue /\ run' = run /\ ctl' = ctl
  BY DEF TakeForOwner, DrainMain
<1>2. ASSUME NEW t \in Tasks
      PROVE  store'[t] = store[t] \/ store'[t] = [store[t] EXCEPT !.term = "parent"]
  BY DEF TakeForOwner, DrainMain
<1>3. ASSUME NEW t \in Tasks
      PROVE  /\ SameRow(Now, Now', t) /\ Now'.store[t].owner = Now.store[t].owner
             /\ Now'.store[t].status = Now.store[t].status
  <2>1. store[t] \in RowShape
    BY NowIs DEF Rooted, Fine, Typed
  <2>2. /\ store'[t].kind = store[t].kind /\ store'[t].gen = store[t].gen
        /\ store'[t].token = store[t].token /\ store'[t].mode = store[t].mode
        /\ store'[t].bg = store[t].bg /\ store'[t].parent = store[t].parent
        /\ store'[t].owner = store[t].owner /\ store'[t].status = store[t].status
    BY <1>2, <2>1 DEF RowShape
  <2>. QED
    BY <2>2, NowIs DEF SameRow
<1>4. \A o : Inventory(Now, o) = {} => Inventory(Now', o) = {}
  BY <1>1, NowIs DEF Inventory
<1>5. Now'.run = Now.run /\ Now'.ctl = Now.ctl
  BY <1>1, NowIs
<1>6. \A X : Rooted(Now, X) => Rooted(Now', X)
  BY <1>3, <1>4, <1>5, ReadRooted
<1>. QED
  BY <1>6

LEMMA SettleRooted ==
  ASSUME Rooted(Now, {}), Fine(Now'), NEW k \in Runs, Settle(k)
  PROVE  Rooted(Now', {})
<1>1. Become(Report(Now, k)) /\ Now.run[k].pc = "settle" /\ Knows(Now, k)
  BY NowIs DEF Settle, Knows
<1>2. Rooted(Report(Now, k), {})
  BY <1>1, ReportRooted
<1>. QED
  BY <1>1, <1>2, BecomeRooted

LEMMA LaunchFailsRooted ==
  ASSUME Rooted(Now, {}), Fine(Now'), NEW k \in Runs, LaunchFails(k)
  PROVE  Rooted(Now', {})
<1>. DEFINE T == [Now EXCEPT !.run[k].pc = "settle", !.run[k].outcome = "setup"]
            f == Out(Now.run[k], "settle", "setup")
<1>1. Become(Close(T, k)) /\ Now.run[k].pc = "launch"
  BY NowIs DEF LaunchFails
<1>2. Fine(Now) /\ Now.run[k] \in RunType
  BY DEF Rooted, Fine, Typed
<1>3. SameCall(Now.run[k], f) /\ f.pc = "settle" /\ f.gate = Now.run[k].gate
  <2>. DEFINE r == Now.run[k]
  <2>1. r \in RunType /\ f = Out(r, "settle", "setup")
    BY <1>2
  <2>. HIDE DEF r, f
  <2>2. SameCall(r, f) /\ f.pc = "settle" /\ f.gate = r.gate
    BY <2>1 DEF RunType, Out, SameCall
  <2>. QED
    BY <2>2 DEF r
<1>4. Steps(Now, T, k, f)
  BY <1>2, RecordIs
<1>5. Reaches(Now, k, "settle") /\ Born(Now, k)
  BY <1>1 DEF Reaches, Live, Born
<1>6. Rooted(T, {})
  BY <1>5, PcRooted
<1>. HIDE DEF T, f
<1>7. T.run[k] = f
  BY <1>2, <1>4 DEF Steps, Fine, Typed
<1>8. T.run[k].pc = "settle" /\ Knows(T, k)
  BY <1>3, <1>7, NowIs DEF SameCall, Knows
<1>9. Rooted(Close(T, k), {})
  BY <1>6, <1>8, CloseRooted
<1>. QED
  BY <1>1, <1>9, BecomeRooted

LEMMA PromoteRooted ==
  ASSUME NEW S, NEW X, Rooted(S, X), NEW o
  PROVE  Rooted(Promote(S, o), X) /\ Promote(S, o).run = S.run
<1>. DEFINE T == Promote(S, o)
<1>1. CASE IsOwnerRegistered(S, o)
  BY <1>1 DEF Promote
<1>2. CASE ~IsOwnerRegistered(S, o)
  <2>1. Fine(T) /\ Promotes(S, T, o)
    BY <1>2, PromoteIs DEF Rooted
  <2>. HIDE DEF T
  <2>2. ASSUME NEW x, NEW e \in Inventory(T, x)
        PROVE  Inventory(S, x) # {}
    <3>1. e \in T.queue /\ e.owner = x /\ e.private
      BY <2>2 DEF Inventory
    <3>2. PICK f \in S.queue : Carried(f, e, f \in Inventory(S, o), o)
      BY <2>1, <3>1 DEF Promotes
    <3>3. f.private /\ f.owner = x
      BY <3>1, <3>2 DEF Carried
    <3>. QED
      BY <3>3 DEF Inventory
  <2>3. \A x : Inventory(S, x) = {} => Inventory(T, x) = {}
    BY <2>2
  <2>4. /\ T.run = S.run /\ T.ctl = S.ctl
        /\ \A t \in Tasks : /\ SameRow(S, T, t) /\ T.store[t].owner = S.store[t].owner
                            /\ T.store[t].status = S.store[t].status
    BY <2>1 DEF Promotes
  <2>5. Rooted(T, X)
    BY <2>1, <2>3, <2>4, ReadRooted
  <2>. QED
    BY <2>4, <2>5 DEF T
<1>. QED
  BY <1>1, <1>2

LEMMA UnwindRooted ==
  ASSUME Rooted(Now, {}), Fine(Now'), NEW k \in Runs, Unwind(k)
  PROVE  Rooted(Now', {})
<1>. DEFINE t == run[k].task
            tok == store[t].token
            force == FALSE
            quiet == TRUE
            byUser == FALSE
            swept == IF run[k].aborted /\ run[k].how # "view" /\ Present(Now, t)
                     THEN CancelTaskTree(Now, tok, force, byUser, quiet) ELSE Now
            T == [swept EXCEPT !.run[k].pc = "settle"]
            U == Promote(T, t)
<1>1. Now.run[k].pc = "exit" /\ Become(Close(U, k))
  BY NowIs DEF Unwind
<1>2. Fine(Now) /\ Grounded(Now) /\ Born(Now, k)
  BY <1>1 DEF Rooted, Born
<1>3. tok = k
  BY <1>2, NowIs DEF Grounded, RunsHaveRows
<1>4. \/ swept = Now
      \/ Now.run[k].aborted /\ swept = CancelTaskTree(Now, k, force, byUser, quiet)
  BY <1>3, NowIs
<1>5. force \in BOOLEAN /\ ~force /\ quiet \in BOOLEAN
  OBVIOUS
<1>. HIDE DEF swept, force, quiet, byUser, tok
<1>6. Rooted(swept, {}) /\ SameRun(Now, swept, k) /\ Woken(Now, swept, k)
      /\ (Now.run[k].aborted => swept.run[k].aborted)
  <2>1. CASE swept = Now
    BY <2>1 DEF SameRun, Woken
  <2>2. CASE Now.run[k].aborted /\ swept = CancelTaskTree(Now, k, force, byUser, quiet)
    <3>. DEFINE W == CancelTaskTree(Now, k, force, byUser, quiet)
    <3>1. Now.run[k].aborted /\ k \in Runs
      BY <2>2
    <3>2. ASSUME NEW X, Rooted(Now, X)
          PROVE  /\ Rooted(W, X) /\ SameRun(Now, W, k) /\ Woken(Now, W, k)
                 /\ W.run[k].aborted
      <4>1. Rooted(W, X)
        BY ONLY <1>2, <1>5, <3>1, <3>2, CancelQuiet DEF W
      <4>2. SameRun(Now, W, k) /\ Woken(Now, W, k)
        BY ONLY <1>2, <1>5, <3>1, <3>2, CancelQuiet DEF W
      <4>3. W.run[k].aborted
        <5>1. Now.run[k].task \in Tasks /\ Matches(Now, k)
          BY <1>2 DEF Grounded, RunsHaveRows, Matches
        <5>2. Cancelled(Now, W, k, force, quiet)
          BY ONLY <1>2, <1>5, <5>1, CancelIs DEF W
        <5>. QED
          BY <2>2, <5>2 DEF Cancelled
      <4>. QED
        BY <4>1, <4>2, <4>3
    <3>3. Rooted(Now, {})
      OBVIOUS
    <3>. HIDE DEF W
    <3>4. swept = W
      BY <2>2 DEF W
    <3>. QED
      BY <3>2, <3>3, <3>4
  <2>. QED
    BY <1>4, <2>1, <2>2
<1>7. swept.run[k].pc = "exit" /\ Knows(swept, k) /\ Born(swept, k)
  BY <1>1, <1>6, NowIs DEF SameRun, Woken, Knows, Born
<1>8. Reaches(swept, k, "settle")
  BY <1>7 DEF Reaches, Live
<1>9. Rooted(T, {})
  BY <1>6, <1>7, <1>8, PcRooted
<1>10. T.run[k].pc = "settle" /\ Knows(T, k)
  <2>. DEFINE r == swept.run[k]
  <2>1. Fine(swept) /\ r \in RunType
    BY <1>6 DEF Rooted, Fine, Typed
  <2>2. Steps(swept, T, k, At(r, "settle"))
    BY <2>1, RecordIs
  <2>. HIDE DEF T, r
  <2>3. /\ At(r, "settle").pc = "settle" /\ At(r, "settle").task = r.task
        /\ At(r, "settle").how = r.how /\ At(r, "settle").gate = r.gate
        /\ At(r, "settle").aborted = r.aborted
    BY <2>1 DEF At, RunType
  <2>4. T.run[k] = At(r, "settle")
    BY <2>1, <2>2 DEF Steps, Fine, Typed
  <2>. QED
    BY <1>7, <2>3, <2>4 DEF Knows, r
<1>. HIDE DEF T, t
<1>11. Rooted(U, {}) /\ U.run = T.run
  BY <1>9, PromoteRooted
<1>12. U.run[k].pc = "settle" /\ Knows(U, k)
  BY <1>10, <1>11 DEF Knows
<1>. HIDE DEF U
<1>13. Rooted(Close(U, k), {})
  BY <1>11, <1>12, CloseRooted
<1>. QED
  BY <1>1, <1>13, BecomeRooted

LEMMA LoopEndRooted ==
  ASSUME Rooted(Now, {}), Fine(Now'), NEW k \in Runs,
         FinishLoop(k) \/ BreakLoop(k) \/ AbortLoop(k) \/ AbandonBatch(k)
  PROVE  Rooted(Now', {})
<1>1. Now.run[k].pc = "loop" /\ Born(Now, k)
  BY NowIs DEF FinishLoop, BreakLoop, AbortLoop, AbandonBatch, Working, Born
<1>2. CASE FinishLoop(k) \/ BreakLoop(k) \/ AbortLoop(k)
  <2>1. ~Dispatching(k) /\ \E outcome \in {"ok", "failed"} : Become(Leave(Now, k, outcome))
    BY <1>2 DEF FinishLoop, BreakLoop, AbortLoop
  <2>2. \A t \in Tasks : Waits(Now, t) => CallerOf(Now, t) # k
    BY <2>1, NoCalls
  <2>3. \A outcome \in {"ok", "failed"} : Rooted(Leave(Now, k, outcome), {})
    BY <1>1, <2>2, LeaveRooted
  <2>. QED
    BY <2>1, <2>3, BecomeRooted
<1>3. CASE AbandonBatch(k)
  <2>. DEFINE cs == OpenBatch(k)
              closed == Gated(Now, cs, "lost")
              o == Now.run[k].task
  <2>1. Become(Leave(closed, k, "failed")) /\ Now.run[k].aborted
    BY <1>3, NowIs DEF AbandonBatch
  <2>2. Fine(Now) /\ Grounded(Now) /\ StoppedWithAll(Now)
    BY DEF Rooted, Moving
  <2>3. \A d \in Tasks : Running(Now, d) => Now.store[d].parent # o
    BY <1>1, <2>1, <2>2 DEF StoppedWithAll
  <2>4. ASSUME NEW c \in Runs, c \in cs, Born(Now, c), Running(Now, Now.run[c].task)
        PROVE  FALSE
    <3>. DEFINE d == Now.run[c].task
    <3>1. Now.run[c].caller = k
      BY <2>4, NowIs DEF OpenBatch
    <3>2. d \in Tasks /\ Now.store[d].token = c
      BY <2>2, <2>4 DEF Grounded, RunsHaveRows
    <3>3. Nested(Now, c)
      BY <2>2, <3>1 DEF Grounded, CallsHaveCallers
    <3>4. Now.store[d].parent = o
      BY <2>2, <3>1, <3>3 DEF Grounded, CallsHaveCallers
    <3>. QED
      BY <2>3, <2>4, <3>2, <3>4
  <2>5. ASSUME NEW t \in Tasks, Waits(Now, t)
        PROVE  CallerOf(Now, t) # k
    BY <2>2, <2>3, <2>5, WaitsIs DEF Waits
  <2>6. Gates(Now, closed, cs, "lost")
    BY <2>2, GatedIs
  <2>7. Rooted(closed, {})
    <3>. DEFINE gate == "lost"
                none == {}
    <3>1. gate \in {"committed", "lost"}
      OBVIOUS
    <3>2. \A t \in Tasks : Waits(Now, t) /\ Now.store[t].token \in cs => t \in none
      <4>. SUFFICES ASSUME NEW t \in Tasks, Waits(Now, t), Now.store[t].token \in cs
                    PROVE  FALSE
        OBVIOUS
      <4>1. CallerOf(Now, t) = k
        BY NowIs DEF OpenBatch, CallerOf
      <4>. QED
        BY <2>5, <4>1
    <3>3. gate = "lost" => \A c \in Runs : c \in cs /\ Born(Now, c) => ~Running(Now, Now.run[c].task)
      BY <2>4
    <3>4. closed = Gated(Now, cs, gate) /\ none = {}
      OBVIOUS
    <3>. HIDE DEF gate, none, cs, closed
    <3>5. Rooted(Gated(Now, cs, gate), none)
      BY <3>1, <3>2, <3>3, GatedRooted
    <3>. QED
      BY <3>4, <3>5
  <2>. HIDE DEF cs, o
  <2>8. \A t \in Tasks : Waits(closed, t) => CallerOf(closed, t) # k
    <3>. HIDE DEF closed
    <3>. SUFFICES ASSUME NEW t \in Tasks, Waits(closed, t)
                  PROVE  CallerOf(closed, t) # k
      OBVIOUS
    <3>1. closed.store = Now.store /\ Running(Now, t)
      BY <2>6 DEF Gates, RowsStay, Waits, Running
    <3>2. Now.store[t].token \in Runs
      BY <2>2, <3>1, WaitsIs
    <3>3. Waits(Now, t) /\ CallerOf(closed, t) = CallerOf(Now, t)
      BY <2>6, <3>1, <3>2 DEF Gates, Waits, CallerOf
    <3>. QED
      BY <2>5, <3>3
  <2>9. closed.run[k].pc = "loop" /\ "failed" \in {"ok", "failed"}
    BY <1>1, <2>6 DEF Gates
  <2>. HIDE DEF closed
  <2>10. Rooted(Leave(closed, k, "failed"), {})
    BY <2>7, <2>8, <2>9, LeaveRooted
  <2>. QED
    BY <2>1, <2>10, BecomeRooted
<1>. QED
  BY <1>2, <1>3

LEMMA CommitBatchRooted ==
  ASSUME Rooted(Now, {}), Fine(Now'), NEW k \in Runs, CommitBatch(k)
  PROVE  Rooted(Now', {})
<1>. DEFINE cs == OpenBatch(k)
            gate == "committed"
            closed == Gated(Now, cs, gate)
            over == {c \in cs : run[c].pc = "done"}
            ts == Current(closed, over)
            status == [t \in Tasks |->
                         IF Running(closed, t) THEN Ending(store[t].token) ELSE "none"]
<1>1. Become(Conclude(closed, ts, status)) /\ \A c \in cs : Settled(c)
  BY DEF CommitBatch
<1>2. Fine(Now) /\ Grounded(Now) /\ CallsAreOpen(Now, {})
  BY DEF Rooted, Moving
<1>3. gate \in {"committed", "lost"} /\ gate # "lost"
  OBVIOUS
<1>4. Gates(Now, closed, cs, gate)
  BY <1>2, <1>3, GatedIs
<1>5. ts \in SUBSET Tasks /\ \A t \in ts : Running(closed, t) /\ closed.store[t].token \in over
  BY DEF Current
<1>6. \A t \in ts : status[t] \in Endings
  BY <1>5 DEF Ending, Endings
<1>7. \A c \in over : c \in cs /\ Now.run[c].pc = "done"
  BY NowIs
<1>8. ASSUME NEW t \in Tasks, Waits(Now, t), Now.store[t].token \in cs
      PROVE  t \in ts
  <2>. DEFINE j == Now.store[t].token
  <2>1. Running(Now, t) /\ j \in Runs
    BY <1>2, <1>8, WaitsIs DEF Waits
  <2>2. Now.run[j].pc # "done" => Now.run[j].linked
    BY <1>2, <1>8 DEF CallsAreOpen
  <2>3. Now.run[j].pc = "done"
    BY <1>1, <1>8, <2>2, NowIs DEF Settled
  <2>4. j \in over
    BY <1>8, <2>3, NowIs
  <2>5. closed.store = Now.store
    BY <1>4 DEF Gates, RowsStay
  <2>. QED
    BY <2>1, <2>4, <2>5 DEF Current, Running
<1>. HIDE DEF gate, closed, ts, over, status, cs
<1>9. Rooted(closed, ts)
  <2>1. Rooted(Gated(Now, cs, gate), ts)
    BY <1>3, <1>8, GatedRooted
  <2>. QED
    BY <2>1 DEF closed
<1>10. \A t \in ts : /\ Running(closed, t) /\ closed.run[closed.store[t].token].pc = "done"
                     /\ status[t] \in Endings
  <2>. SUFFICES ASSUME NEW t \in ts
                PROVE  /\ Running(closed, t) /\ closed.run[closed.store[t].token].pc = "done"
                       /\ status[t] \in Endings
    OBVIOUS
  <2>1. closed.store[t].token \in Runs
    BY <1>5, <1>9, WaitsIs DEF Rooted
  <2>2. closed.run[closed.store[t].token].pc = "done"
    BY <1>4, <1>5, <1>7, <2>1 DEF Gates
  <2>. QED
    BY <1>5, <1>6, <2>2
<1>11. Rooted(Conclude(closed, ts, status), ts \ ts)
  BY <1>5, <1>9, <1>10, ConcludeRooted
<1>12. ts \ ts = {}
  OBVIOUS
<1>13. Rooted(Conclude(closed, ts, status), {})
  BY <1>11, <1>12
<1>. QED
  BY <1>1, <1>13, BecomeRooted

LEMMA CommitMainRooted ==
  ASSUME Rooted(Now, {}), Fine(Now'), NEW k \in Runs, CommitMain(k), Placed(Now)
  PROVE  Rooted(Now', {})
<1>. DEFINE T == [Now EXCEPT !.run[k].gate = "committed"]
            r == Now.run[k]
            g == Shut(r)
<1>1. Become(IF r.pc = "done" THEN Publish(T, k) ELSE T) /\ r.gate = "open" /\ r.how = "main"
  BY NowIs DEF CommitMain
<1>2. Fine(Now) /\ Grounded(Now) /\ ParkedWait(Now)
  BY DEF Rooted
<1>3. r \in RunType /\ Born(Now, k)
  BY <1>1, <1>2 DEF Fine, Typed, Placed, Born
<1>4. Steps(Now, T, k, g)
  BY <1>2, RecordIs
<1>5. T.run[k] = g
  BY <1>2, <1>3, <1>4 DEF Steps, Fine, Typed
<1>6. r.pc \notin {"prep", "unborn"}
  BY <1>2, <1>3 DEF Grounded, RunsHaveRows, Born
<1>7. /\ r.pc = "parked" /\ ~r.aborted =>
           Inventory(Now, r.task) = {} /\ HasRunningOwnedWork(Now, r.task)
      /\ ~Nested(Now, k)
  BY <1>1, <1>2 DEF ParkedWait, Nested
<1>8. /\ g \in RunType /\ g.pc = r.pc /\ g.task = r.task /\ g.how = r.how
      /\ g.caller = r.caller /\ g.linked = r.linked /\ g.aborted = r.aborted
      /\ g.gate = "committed"
  <2>. HIDE DEF r
  <2>. QED
    BY <1>3 DEF Shut, RunType
<1>. HIDE DEF T, g
<1>9. StepsOn(Now, k, g)
  BY <1>6, <1>7, <1>8 DEF StepsOn
<1>10. Rooted(T, {})
  BY <1>3, <1>4, <1>8, <1>9, StepRooted
<1>11. Knows(T, k)
  <2>1. \A x : r.aborted = x => run[k].aborted = x
    BY NowIs
  <2>. QED
    BY <1>5, <1>8, <2>1, NowIs DEF Knows
<1>. QED
  BY <1>1, <1>5, <1>8, <1>10, <1>11, PublishRooted, BecomeRooted

LEMMA DetachRooted ==
  ASSUME Rooted(Now, {}), Fine(Now'), NEW k \in Runs, Detach(k)
  PROVE  Rooted(Now', {})
<1>. DEFINE t == Now.run[k].task
            T == Now'
<1>1. Fine(Now) /\ Grounded(Now) /\ Moving(Now, {}) /\ ParkedWait(Now)
  BY DEF Rooted
<1>2. /\ Matches(Now, k) /\ T.queue = Now.queue /\ T.ctl = Now.ctl
      /\ T.store = [Now.store EXCEPT ![t].mode = "detached", ![t].bg = TRUE]
      /\ T.run = [Now.run EXCEPT ![k].linked = FALSE]
  BY NowIs DEF Detach
<1>3. Now.store[t].token = k
  BY <1>2 DEF Matches
<1>. HIDE DEF T
<1>4. ASSUME NEW u \in Tasks
      PROVE  /\ T.store[u].kind = Now.store[u].kind /\ T.store[u].token = Now.store[u].token
             /\ T.store[u].parent = Now.store[u].parent /\ T.store[u].owner = Now.store[u].owner
             /\ T.store[u].status = Now.store[u].status
             /\ u # t => T.store[u].mode = Now.store[u].mode /\ T.store[u].bg = Now.store[u].bg
             /\ u = t => T.store[u].mode = "detached" /\ T.store[u].bg
  <2>1. Now.store[u] \in RowShape /\ Now.store \in [Tasks -> RowShape]
    BY <1>1 DEF Fine, Typed
  <2>2. \/ u # t /\ T.store[u] = Now.store[u]
        \/ u = t /\ T.store[u] = [Now.store[u] EXCEPT !.mode = "detached", !.bg = TRUE]
    BY <1>2, <2>1
  <2>. HIDE DEF t
  <2>. QED
    BY <2>1, <2>2 DEF RowShape
<1>5. ASSUME NEW j \in Runs
      PROVE  /\ T.run[j].task = Now.run[j].task /\ T.run[j].how = Now.run[j].how
             /\ T.run[j].pc = Now.run[j].pc /\ T.run[j].caller = Now.run[j].caller
             /\ T.run[j].aborted = Now.run[j].aborted /\ T.run[j].gate = Now.run[j].gate
             /\ j # k => T.run[j].linked = Now.run[j].linked
             /\ T.run[j].linked => Now.run[j].linked
  <2>1. Now.run[j] \in RunType /\ Now.run \in [Runs -> RunType]
    BY <1>1 DEF Fine, Typed
  <2>2. \/ j # k /\ T.run[j] = Now.run[j]
        \/ T.run[j] = [Now.run[j] EXCEPT !.linked = FALSE]
    BY <1>2, <2>1
  <2>3. CASE j # k /\ T.run[j] = Now.run[j]
    BY <2>3
  <2>4. CASE T.run[j] = [Now.run[j] EXCEPT !.linked = FALSE]
    <3>. DEFINE r == Now.run[j]
                e == T.run[j]
    <3>1. r \in RunType /\ e = [r EXCEPT !.linked = FALSE] /\ (j # k => T.run[j] = Now.run[j])
      BY <1>2, <2>1, <2>4
    <3>. HIDE DEF r, e
    <3>2. /\ e.task = r.task /\ e.how = r.how /\ e.pc = r.pc /\ e.caller = r.caller
          /\ e.aborted = r.aborted /\ e.gate = r.gate /\ e.linked = FALSE
      BY <3>1 DEF RunType
    <3>. QED
      BY <3>1, <3>2 DEF r, e
  <2>. QED
    BY <2>2, <2>3, <2>4
<1>6. \A u \in Tasks : /\ Running(T, u) <=> Running(Now, u)
                       /\ Present(T, u) <=> Present(Now, u)
                       /\ Agent(T, u) <=> Agent(Now, u)
  BY <1>4 DEF Running, Present, Agent
<1>7. \A j \in Runs : /\ Born(T, j) <=> Born(Now, j)
                      /\ Nested(T, j) <=> Nested(Now, j)
                      /\ Born(Now, j) => Now.run[j].task \in Tasks
  BY <1>1, <1>5 DEF Born, Nested, Grounded, RunsHaveRows
<1>. HIDE DEF t
<1>8. RunsHaveRows(T)
  <2>. SUFFICES ASSUME NEW j \in Runs, Born(T, j)
                PROVE  LET u == T.run[j].task IN
                       /\ u \in Tasks /\ T.store[u].token = j /\ Present(T, u)
                       /\ T.run[j].how \in {"main", "nested", "directive", "shell"}
                       /\ T.run[j].how = "shell" <=> ~Agent(T, u)
                       /\ T.run[j].how = "shell" => T.run[j].pc \in {"proc", "done"} /\ T.store[u].bg
                       /\ T.run[j].pc # "prep"
    BY DEF RunsHaveRows
  <2>1. LET u == Now.run[j].task IN
        /\ u \in Tasks /\ Now.store[u].token = j /\ Present(Now, u)
        /\ Now.run[j].how \in {"main", "nested", "directive", "shell"}
        /\ Now.run[j].how = "shell" <=> ~Agent(Now, u)
        /\ Now.run[j].how = "shell" => Now.run[j].pc \in {"proc", "done"} /\ Now.store[u].bg
        /\ Now.run[j].pc # "prep"
    BY <1>1, <1>7 DEF Grounded, RunsHaveRows
  <2>. QED
    BY <1>4, <1>5, <1>6, <2>1
<1>9. CallsHaveCallers(T)
  <2>. SUFFICES ASSUME NEW j \in Runs
                PROVE  LET row == T.store[T.run[j].task]  p == T.run[j].caller IN
                       /\ T.run[j].linked => Nested(T, j)
                       /\ p \in Runs => Nested(T, j)
                       /\ Nested(T, j) =>
                            /\ p \in Runs /\ Born(T, p)
                            /\ row.parent = T.run[p].task /\ row.owner \in {row.parent, Main}
                            /\ row.mode = "linked" => row.owner = row.parent
                       /\ Born(T, j) /\ ~Nested(T, j) =>
                            row.parent = Main /\ (row.kind = "agent" => row.owner = Main)
                       /\ Born(T, j) /\ row.mode = "detached" => row.bg
    BY DEF CallsHaveCallers
  <2>. DEFINE u == Now.run[j].task
              p == Now.run[j].caller
  <2>1. /\ Now.run[j].linked => Nested(Now, j)
        /\ p \in Runs => Nested(Now, j)
        /\ Nested(Now, j) =>
             /\ p \in Runs /\ Born(Now, p)
             /\ Now.store[u].parent = Now.run[p].task
             /\ Now.store[u].owner \in {Now.store[u].parent, Main}
             /\ Now.store[u].mode = "linked" => Now.store[u].owner = Now.store[u].parent
        /\ Born(Now, j) /\ ~Nested(Now, j) =>
             Now.store[u].parent = Main /\ (Now.store[u].kind = "agent" => Now.store[u].owner = Main)
        /\ Born(Now, j) /\ Now.store[u].mode = "detached" => Now.store[u].bg
    BY <1>1 DEF Grounded, CallsHaveCallers
  <2>2. T.run[j].task = u /\ T.run[j].caller = p /\ (T.run[j].linked => Now.run[j].linked)
    BY <1>5
  <2>3. p \in Runs => T.run[p].task = Now.run[p].task
    BY <1>5
  <2>4. Nested(Now, j) => Born(Now, j)
    BY DEF Nested
  <2>5. Born(Now, j) => u \in Tasks
    BY <1>7
  <2>. HIDE DEF u, p
  <2>6. u \in Tasks =>
          /\ T.store[u].parent = Now.store[u].parent /\ T.store[u].owner = Now.store[u].owner
          /\ T.store[u].kind = Now.store[u].kind
          /\ T.store[u].mode = "linked" => Now.store[u].mode = "linked"
          /\ T.store[u].mode = "detached" => T.store[u].bg \/ Now.store[u].mode = "detached"
          /\ Now.store[u].bg => T.store[u].bg
    BY <1>4
  <2>. QED
    BY <1>7, <2>1, <2>2, <2>3, <2>4, <2>5, <2>6
<1>10. StopsAimRight(T)
  BY <1>1, <1>2, <1>4 DEF Grounded, StopsAimRight
<1>11. ASSUME NEW u \in Tasks, Waits(T, u)
       PROVE  /\ Waits(Now, u) /\ CallerOf(T, u) = CallerOf(Now, u)
              /\ CallerOf(Now, u) \in Runs /\ Now.store[u].token \in Runs \ {k}
  <2>1. Running(Now, u)
    BY <1>6, <1>11 DEF Waits
  <2>2. /\ Now.store[u].token \in Runs /\ Now.run[Now.store[u].token].task = u
        /\ Now.run[Now.store[u].token].how = "nested" => CallerOf(Now, u) \in Runs
    BY <1>1, <2>1, WaitsIs
  <2>3. u # t
    BY <1>4, <1>11 DEF Waits
  <2>4. Now.store[u].token # k
    BY <2>2, <2>3 DEF t
  <2>5. Waits(Now, u)
    BY <1>4, <1>5, <1>11, <2>1, <2>2, <2>3 DEF Waits
  <2>6. CallerOf(T, u) = CallerOf(Now, u)
    BY <1>4, <1>5, <2>2 DEF CallerOf
  <2>. QED
    BY <2>2, <2>4, <2>5, <2>6 DEF Waits
<1>12. CallersWait(T) /\ CallsAreOpen(T, {})
  <2>1. CallersWait(T)
    BY <1>1, <1>5, <1>11 DEF Moving, CallersWait
  <2>2. CallsAreOpen(T, {})
    <3>. SUFFICES ASSUME NEW u \in Tasks, Waits(T, u)
                  PROVE  LET j == T.store[u].token IN
                         T.run[j].gate = "open" /\ (T.run[j].pc # "done" => T.run[j].linked)
      BY DEF CallsAreOpen
    <3>1. LET j == Now.store[u].token IN
          Now.run[j].gate = "open" /\ (Now.run[j].pc # "done" => Now.run[j].linked)
      BY <1>1, <1>11 DEF Moving, CallsAreOpen
    <3>. QED
      BY <1>4, <1>5, <1>11, <3>1, ZenonT(40)
  <2>. QED
    BY <2>1, <2>2
<1>13. AliveOrTold(T) /\ StoppedWithAll(T) /\ LostHaveEnded(T)
  <2>1. \A j \in Runs : T.run[j].pc \in Live => Now.run[j].task \in Tasks
    BY <1>5, <1>7 DEF Live, Born
  <2>2. AliveOrTold(T)
    BY <1>1, <1>5, <1>6, <2>1 DEF Moving, AliveOrTold
  <2>3. StoppedWithAll(T)
    BY <1>1, <1>4, <1>5, <1>6, <1>7 DEF Moving, StoppedWithAll
  <2>4. LostHaveEnded(T)
    BY <1>1, <1>5, <1>6, <1>7 DEF Moving, LostHaveEnded
  <2>. QED
    BY <2>2, <2>3, <2>4
<1>14. ParkedWait(T)
  <2>1. ASSUME NEW j \in Runs, T.run[j].pc = "parked", ~T.run[j].aborted
        PROVE  LET o == Now.run[j].task IN
               /\ Now.run[j].pc = "parked" /\ ~Now.run[j].aborted /\ T.run[j].task = o
               /\ Inventory(Now, o) = {} => Inventory(T, o) = {}
               /\ \A c \in Tasks : Running(Now, c) /\ Now.store[c].owner = o =>
                    Running(T, c) /\ T.store[c].owner = o
    <3>1. \A o : Inventory(T, o) = Inventory(Now, o)
      BY <1>2 DEF Inventory
    <3>. QED
      BY <1>4, <1>5, <1>6, <2>1, <3>1
  <2>. QED
    BY <1>1, <2>1, ParkedStay
<1>15. Fine(T)
  BY DEF T
<1>. QED
  BY <1>8, <1>9, <1>10, <1>12, <1>13, <1>14, <1>15 DEF Rooted, Grounded, Moving, T

LEMMA EndShellRooted ==
  ASSUME Rooted(Now, {}), Fine(Now'), NEW t \in Tasks, NEW status \in Endings, EndShell(t, status)
  PROVE  Rooted(Now', {})
<1>. DEFINE k == Now.store[t].token
            T == [Now EXCEPT !.run[k].pc = "done"]
            ks == {k}
<1>1. Become(Finish(T, ks, status)) /\ Running(Now, t) /\ ~Agent(Now, t)
  BY NowIs DEF EndShell
<1>2. Fine(Now) /\ Grounded(Now)
  BY DEF Rooted
<1>3. k \in Runs /\ Born(Now, k) /\ Now.run[k].task = t
  BY <1>1, <1>2, WaitsIs
<1>4. Now.run[k].pc \in {"proc", "done"}
  BY <1>1, <1>2, <1>3 DEF Grounded, RunsHaveRows
<1>5. Reaches(Now, k, "done")
  BY <1>4 DEF Reaches, Live
<1>6. Rooted(T, {})
  BY <1>3, <1>5, PcRooted
<1>7. Steps(Now, T, k, At(Now.run[k], "done"))
  BY <1>2, <1>3, RecordIs
<1>8. At(Now.run[k], "done").pc = "done"
  BY <1>2, <1>3 DEF Fine, Typed, At, RunType
<1>9. \A j \in Runs : j \in ks => T.run[j].pc = "done"
  <2>. HIDE DEF T
  <2>. QED
    BY <1>2, <1>7, <1>8 DEF Steps, Fine, Typed
<1>10. \A A : {} \ A = {}
  OBVIOUS
<1>. HIDE DEF T, ks, k
<1>11. Rooted(Finish(T, ks, status), {} \ Current(T, ks))
  BY <1>6, <1>9, FinishRooted
<1>12. Rooted(Finish(T, ks, status), {})
  BY <1>10, <1>11
<1>. QED
  BY <1>1, <1>12, BecomeRooted

LEMMA TaskStepRooted ==
  ASSUME Plain, Rooted(Now, {}), Sound(Now, {}), Fine(Now'), NEW t \in Tasks, TaskStep(t)
  PROVE  Rooted(Now', {})
<1>1. CASE UserStop(t)
  <2>. DEFINE k == store[t].token
              force == TRUE
              byUser == TRUE
              quiet == FALSE
              T == CancelTaskTree(Now, k, force, byUser, quiet)
  <2>1. Become(T) /\ Present(Now, t) /\ Agent(Now, t)
    BY <1>1 DEF UserStop
  <2>2. k = Now.store[t].token /\ Placed(Now) /\ StopsHeard(Now)
    BY NowIs DEF Sound
  <2>3. force \in BOOLEAN /\ force /\ quiet \in BOOLEAN /\ ~quiet
    OBVIOUS
  <2>. HIDE DEF force, byUser, quiet, k
  <2>4. \A X : Rooted(Now, X) => Rooted(T, X)
    BY ONLY <2>1, <2>2, <2>3, t \in Tasks, CancelForced
  <2>. QED
    BY <2>1, <2>4, BecomeRooted
<1>2. CASE TaskStop(t) \/ Evict(t) \/ CloseRow(t)
  BY <1>2 DEF Plain, TaskStop, Evict, CloseRow
<1>3. CASE ShellExits(t) \/ KillShell(t)
  <2>1. "completed" \in Endings /\ "killed" \in Endings
    BY DEF Endings
  <2>. QED
    BY <1>3, <2>1, EndShellRooted DEF ShellExits, KillShell
<1>. QED
  BY <1>1, <1>2, <1>3 DEF TaskStep

\* What a run that begins owes: it has a row of its own, and the call of a child is open.
BeginsPlainly(t, row, e) ==
  /\ row.status = "running" /\ e.task = t /\ ~e.aborted
  /\ e.how \in {"main", "nested", "directive", "shell"}
  /\ e.how = "shell" <=> row.kind # "agent"
  /\ e.pc = IF e.how = "shell" THEN "proc" ELSE "launch"
  /\ e.how = "shell" \/ row.mode = "detached" => row.bg
  /\ e.gate # "lost"
  /\ IF e.how = "nested"
     THEN /\ e.caller \in Runs /\ Working(e.caller) /\ e.gate = "open" /\ e.linked
          /\ row.parent = run[e.caller].task /\ row.owner = row.parent
     ELSE /\ e.caller = NoRun /\ ~e.linked
          /\ row.parent = Main /\ (row.kind = "agent" => row.owner = Main)

LEMMA BeginsRooted ==
  ASSUME Rooted(Now, {}), Fine(Now'), NEW t \in Tasks, NEW k \in Runs, NEW row, NEW e,
         row.token = k, Launch(t, k, row, e), BeginsPlainly(t, row, e)
  PROVE  Rooted(Now', {})
<1>. DEFINE T == Now'
<1>1. Fine(Now) /\ Grounded(Now) /\ Moving(Now, {}) /\ ParkedWait(Now)
  BY DEF Rooted
<1>2. /\ Now.store \in [Tasks -> RowShape] /\ Now.run \in [Runs -> RunType]
      /\ Now.ctl \in [Tasks -> Runs \cup {NoRun}]
  BY <1>1 DEF Fine, Typed
<1>3. /\ T.store[t] = row /\ \A u \in Tasks : u # t => T.store[u] = Now.store[u]
      /\ T.run[k] = e /\ \A j \in Runs : j # k => T.run[j] = Now.run[j]
      /\ T.queue = Now.queue
      /\ T.ctl[t] \in {NoRun, k} /\ \A u \in Tasks : u # t => T.ctl[u] = Now.ctl[u]
      /\ ~Born(Now, k) /\ ~Present(Now, t) /\ ~Running(Now, t)
  BY <1>2, NowIs DEF Launch, Fresh, Born, Present, Running
<1>4. Fine(T)
  OBVIOUS
<1>5. NoRun \notin Runs /\ Main \notin Tasks
  BY NoRunIsNone, TasksAssumption
<1>6. /\ row.status = "running" /\ e.task = t /\ ~e.aborted
      /\ e.how \in {"main", "nested", "directive", "shell"}
      /\ e.how = "shell" <=> row.kind # "agent"
      /\ e.pc = IF e.how = "shell" THEN "proc" ELSE "launch"
      /\ e.how = "shell" \/ row.mode = "detached" => row.bg
      /\ e.gate # "lost"
  BY DEF BeginsPlainly
<1>7. e.how = "nested" =>
        /\ e.caller \in Runs /\ e.caller # k /\ Born(Now, e.caller)
        /\ Now.run[e.caller].pc = "loop" /\ ~Now.run[e.caller].aborted
        /\ e.gate = "open" /\ e.linked
        /\ row.parent = Now.run[e.caller].task /\ row.owner = row.parent
  BY <1>3, NowIs DEF BeginsPlainly, Working, Born
<1>8. e.how # "nested" =>
        /\ e.caller \notin Runs /\ ~e.linked
        /\ row.parent = Main /\ (row.kind = "agent" => row.owner = Main)
  BY <1>5 DEF BeginsPlainly
<1>. HIDE DEF T
<1>9. ASSUME NEW j \in Runs, Born(T, j), j # k
      PROVE  Born(Now, j) /\ T.run[j] = Now.run[j] /\ Now.run[j].task \in Tasks \ {t}
  <2>1. Born(Now, j) /\ T.run[j] = Now.run[j]
    BY <1>3, <1>9 DEF Born
  <2>. QED
    BY <1>1, <1>3, <2>1 DEF Grounded, RunsHaveRows
<1>10. \A u \in Tasks \ {t} : /\ T.store[u] = Now.store[u]
                              /\ Running(T, u) <=> Running(Now, u)
                              /\ Present(T, u) <=> Present(Now, u)
                              /\ Agent(T, u) <=> Agent(Now, u)
  BY <1>3 DEF Running, Present, Agent
<1>11. Running(T, t) /\ Present(T, t) /\ (Agent(T, t) <=> row.kind = "agent")
  BY <1>3, <1>6 DEF Running, Present, Agent
<1>12. Born(T, k) /\ \A j \in Runs : Born(Now, j) => Born(T, j) /\ j # k
  BY <1>3, <1>6 DEF Born
<1>13. RunsHaveRows(T)
  <2>. SUFFICES ASSUME NEW j \in Runs, Born(T, j)
                PROVE  LET u == T.run[j].task IN
                       /\ u \in Tasks /\ T.store[u].token = j /\ Present(T, u)
                       /\ T.run[j].how \in {"main", "nested", "directive", "shell"}
                       /\ T.run[j].how = "shell" <=> ~Agent(T, u)
                       /\ T.run[j].how = "shell" => T.run[j].pc \in {"proc", "done"} /\ T.store[u].bg
                       /\ T.run[j].pc # "prep"
    BY DEF RunsHaveRows
  <2>1. CASE j = k
    BY <1>3, <1>6, <1>11, <2>1
  <2>2. CASE j # k
    <3>1. LET u == Now.run[j].task IN
          /\ u \in Tasks /\ Now.store[u].token = j /\ Present(Now, u)
          /\ Now.run[j].how \in {"main", "nested", "directive", "shell"}
          /\ Now.run[j].how = "shell" <=> ~Agent(Now, u)
          /\ Now.run[j].how = "shell" => Now.run[j].pc \in {"proc", "done"} /\ Now.store[u].bg
          /\ Now.run[j].pc # "prep"
      BY <1>1, <1>9, <2>2 DEF Grounded, RunsHaveRows
    <3>. QED
      BY <1>9, <1>10, <2>2, <3>1
  <2>. QED
    BY <2>1, <2>2
<1>14. CallsHaveCallers(T)
  <2>. SUFFICES ASSUME NEW j \in Runs
                PROVE  LET r == T.store[T.run[j].task]  p == T.run[j].caller IN
                       /\ T.run[j].linked => Nested(T, j)
                       /\ p \in Runs => Nested(T, j)
                       /\ Nested(T, j) =>
                            /\ p \in Runs /\ Born(T, p)
                            /\ r.parent = T.run[p].task /\ r.owner \in {r.parent, Main}
                            /\ r.mode = "linked" => r.owner = r.parent
                       /\ Born(T, j) /\ ~Nested(T, j) =>
                            r.parent = Main /\ (r.kind = "agent" => r.owner = Main)
                       /\ Born(T, j) /\ r.mode = "detached" => r.bg
    BY DEF CallsHaveCallers
  <2>1. CASE j = k
    <3>1. T.run[j] = e /\ T.store[T.run[j].task] = row
      BY <1>3, <1>6, <2>1
    <3>2. Nested(T, j) <=> e.how = "nested"
      BY <1>12, <2>1, <3>1 DEF Nested
    <3>3. e.how = "nested" => Born(T, e.caller) /\ T.run[e.caller] = Now.run[e.caller]
      BY <1>3, <1>7, <1>12
    <3>. QED
      BY <1>6, <1>7, <1>8, <3>1, <3>2, <3>3
  <2>2. CASE j # k
    <3>. DEFINE u == Now.run[j].task
                p == Now.run[j].caller
    <3>1. /\ Now.run[j].linked => Nested(Now, j)
          /\ p \in Runs => Nested(Now, j)
          /\ Nested(Now, j) =>
               /\ p \in Runs /\ Born(Now, p)
               /\ Now.store[u].parent = Now.run[p].task
               /\ Now.store[u].owner \in {Now.store[u].parent, Main}
               /\ Now.store[u].mode = "linked" => Now.store[u].owner = Now.store[u].parent
          /\ Born(Now, j) /\ ~Nested(Now, j) =>
               Now.store[u].parent = Main /\ (Now.store[u].kind = "agent" => Now.store[u].owner = Main)
          /\ Born(Now, j) /\ Now.store[u].mode = "detached" => Now.store[u].bg
      BY <1>1 DEF Grounded, CallsHaveCallers
    <3>2. T.run[j] = Now.run[j] /\ T.run[j].task = u /\ T.run[j].caller = p
      BY <1>3, <2>2
    <3>3. /\ Born(T, j) <=> Born(Now, j)
          /\ Nested(T, j) <=> Nested(Now, j)
          /\ Nested(Now, j) => Born(Now, j)
      BY <3>2 DEF Born, Nested
    <3>4. Born(Now, j) => T.store[u] = Now.store[u]
      BY <1>9, <1>10, <2>2, <3>3
    <3>5. p \in Runs /\ Born(Now, p) => Born(T, p) /\ T.run[p] = Now.run[p]
      BY <1>3, <1>12
    <3>. HIDE DEF u, p
    <3>. QED
      BY <3>1, <3>2, <3>3, <3>4, <3>5
  <2>. QED
    BY <2>1, <2>2
<1>15. StopsAimRight(T)
  BY <1>1, <1>3 DEF Grounded, StopsAimRight
<1>16. ASSUME NEW u \in Tasks, u # t, Waits(T, u)
       PROVE  /\ Waits(Now, u) /\ Now.store[u].token \in Runs \ {k}
              /\ T.store[u] = Now.store[u] /\ CallerOf(T, u) = CallerOf(Now, u)
              /\ CallerOf(Now, u) \in Runs \ {k}
  <2>1. Running(Now, u) /\ T.store[u] = Now.store[u]
    BY <1>10, <1>16 DEF Waits
  <2>2. /\ Now.store[u].token \in Runs /\ Born(Now, Now.store[u].token)
        /\ Now.run[Now.store[u].token].how = "nested" =>
             CallerOf(Now, u) \in Runs /\ Born(Now, CallerOf(Now, u))
    BY <1>1, <2>1, WaitsIs
  <2>3. T.run[Now.store[u].token] = Now.run[Now.store[u].token]
    BY <1>3, <2>2
  <2>4. Waits(Now, u)
    BY <1>16, <2>1, <2>3 DEF Waits
  <2>. QED
    BY <1>3, <2>1, <2>2, <2>3, <2>4 DEF Waits, CallerOf
<1>17. Waits(T, t) => e.how = "nested" /\ CallerOf(T, t) = e.caller
  BY <1>3 DEF Waits, CallerOf
<1>18. CallersWait(T) /\ CallsAreOpen(T, {})
  <2>1. ASSUME NEW u \in Tasks, Waits(T, u)
        PROVE  T.run[CallerOf(T, u)].pc = "loop"
    <3>1. CASE u = t
      BY <1>3, <1>7, <1>17, <2>1, <3>1
    <3>2. CASE u # t
      BY <1>1, <1>3, <1>16, <2>1, <3>2 DEF Moving, CallersWait
    <3>. QED
      BY <3>1, <3>2
  <2>2. ASSUME NEW u \in Tasks, Waits(T, u)
        PROVE  LET j == T.store[u].token IN
               T.run[j].gate = "open" /\ (T.run[j].pc # "done" => T.run[j].linked)
    <3>1. CASE u = t
      BY <1>3, <1>7, <1>17, <2>2, <3>1
    <3>2. CASE u # t
      <4>1. LET j == Now.store[u].token IN
            Now.run[j].gate = "open" /\ (Now.run[j].pc # "done" => Now.run[j].linked)
        BY <1>1, <1>16, <2>2, <3>2 DEF Moving, CallsAreOpen
      <4>. QED
        BY <1>3, <1>16, <2>2, <3>2, <4>1
    <3>. QED
      BY <3>1, <3>2
  <2>. QED
    BY <2>1, <2>2 DEF CallersWait, CallsAreOpen
<1>19. AliveOrTold(T)
  <2>. SUFFICES ASSUME NEW j \in Runs, T.run[j].pc \in Live
                PROVE  Running(T, T.run[j].task) \/ T.run[j].aborted
    BY DEF AliveOrTold
  <2>1. CASE j = k
    BY <1>3, <1>6, <1>11, <2>1
  <2>2. CASE j # k
    <3>1. Born(T, j)
      BY DEF Live, Born
    <3>. QED
      BY <1>1, <1>9, <1>10, <2>2, <3>1 DEF Moving, AliveOrTold
  <2>. QED
    BY <2>1, <2>2
<1>20. StoppedWithAll(T)
  <2>. SUFFICES ASSUME NEW j \in Runs, NEW d \in Tasks, Born(T, j), T.run[j].aborted, Running(T, d)
                PROVE  d # T.run[j].task /\ T.store[d].parent # T.run[j].task
    BY DEF StoppedWithAll
  <2>1. j # k
    BY <1>3, <1>6
  <2>2. Born(Now, j) /\ T.run[j] = Now.run[j] /\ Now.run[j].task \in Tasks \ {t}
    BY <1>9, <2>1
  <2>3. CASE d # t
    BY <1>1, <1>10, <2>2, <2>3 DEF Moving, StoppedWithAll
  <2>4. CASE d = t /\ e.how = "nested"
    <3>1. T.store[d].parent = Now.run[e.caller].task
      BY <1>3, <1>7, <2>4
    <3>2. j # e.caller
      BY <1>7, <2>2, <2>4
    <3>3. Now.run[e.caller].task # Now.run[j].task
      BY <1>1, <1>7, <2>2, <2>4, <3>2, OneRun
    <3>. QED
      BY <2>2, <2>4, <3>1, <3>3
  <2>5. CASE d = t /\ e.how # "nested"
    BY <1>3, <1>5, <1>8, <2>2, <2>5
  <2>. QED
    BY <2>3, <2>4, <2>5
<1>21. LostHaveEnded(T)
  <2>. SUFFICES ASSUME NEW j \in Runs, Born(T, j), T.run[j].gate = "lost"
                PROVE  ~Running(T, T.run[j].task)
    BY DEF LostHaveEnded
  <2>1. j # k
    BY <1>3, <1>6
  <2>. QED
    BY <1>1, <1>9, <1>10, <2>1 DEF Moving, LostHaveEnded
<1>22. ParkedWait(T)
  <2>1. ASSUME NEW j \in Runs, T.run[j].pc = "parked", ~T.run[j].aborted
        PROVE  LET o == Now.run[j].task IN
               /\ Now.run[j].pc = "parked" /\ ~Now.run[j].aborted /\ T.run[j].task = o
               /\ Inventory(Now, o) = {} => Inventory(T, o) = {}
               /\ \A c \in Tasks : Running(Now, c) /\ Now.store[c].owner = o =>
                    Running(T, c) /\ T.store[c].owner = o
    <3>1. \A o : Inventory(T, o) = Inventory(Now, o)
      BY <1>3 DEF Inventory
    <3>2. T.run[j] = Now.run[j]
      BY <1>3, <1>6, <2>1
    <3>3. \A c \in Tasks : Running(Now, c) => c # t
      BY <1>3
    <3>. QED
      BY <1>10, <2>1, <3>1, <3>2, <3>3
  <2>. QED
    BY <1>1, <2>1, ParkedStay
<1>. QED
  BY <1>4, <1>13, <1>14, <1>15, <1>18, <1>19, <1>20, <1>21, <1>22 DEF Rooted, Grounded, Moving, T

LEMMA StartRooted ==
  ASSUME Plain, Rooted(Now, {}), Fine(Now'), NEW t \in Tasks, NEW k \in Runs, Start(t, k)
  PROVE  Rooted(Now', {})
<1>1. CASE StartMain(t, k)
  <2>. DEFINE row == Row("agent", k, "linked", FALSE, Main, Main)
              e == Execution(t, "main", "launch", NoRun, "open")
  <2>1. Launch(t, k, row, e)
    BY <1>1 DEF StartMain
  <2>2. row.token = k /\ BeginsPlainly(t, row, e)
    BY DEF BeginsPlainly, Row, Execution
  <2>. HIDE DEF row, e
  <2>. QED
    BY <2>1, <2>2, BeginsRooted
<1>2. CASE StartDirective(t, k)
  <2>. DEFINE row == Row("agent", k, "detached", TRUE, Main, Main)
              e == Execution(t, "directive", "launch", NoRun, "none")
  <2>1. Launch(t, k, row, e)
    BY <1>2 DEF StartDirective
  <2>2. row.token = k /\ BeginsPlainly(t, row, e)
    BY DEF BeginsPlainly, Row, Execution
  <2>. HIDE DEF row, e
  <2>. QED
    BY <2>1, <2>2, BeginsRooted
<1>3. ASSUME NEW p \in Runs, StartNested(p, t, k)
      PROVE  Rooted(Now', {})
  <2>. DEFINE o == run[p].task
              row == Row("agent", k, "linked", TRUE, o, o)
              e == Execution(t, "nested", "launch", p, "open")
  <2>1. Working(p) /\ p # NoRun
    BY <1>3, NoRunIsNone DEF StartNested
  <2>2. run[p].how # "view"
    BY <2>1, NowIs DEF Rooted, Grounded, RunsHaveRows, Born, Working
  <2>3. Launch(t, k, row, e)
    BY <1>3, <2>2 DEF StartNested
  <2>4. row.token = k /\ BeginsPlainly(t, row, e)
    BY <2>1 DEF BeginsPlainly, Row, Execution
  <2>. HIDE DEF row, e
  <2>. QED
    BY <2>3, <2>4, BeginsRooted
<1>4. ASSUME NEW p \in Runs \cup {NoRun}, StartShell(p, t, k)
      PROVE  Rooted(Now', {})
  <2>. DEFINE o == IF p = NoRun THEN Main ELSE run[p].task
              row == Row("shell", k, "detached", TRUE, o, Main)
              e == Execution(t, "shell", "proc", NoRun, "none")
  <2>1. Launch(t, k, row, e)
    BY <1>4 DEF StartShell
  <2>. HIDE DEF o
  <2>2. row.token = k /\ BeginsPlainly(t, row, e)
    BY DEF BeginsPlainly, Row, Execution
  <2>. HIDE DEF row, e
  <2>. QED
    BY <2>1, <2>2, BeginsRooted
<1>5. ~SendMessage(t, k) /\ ~ViewResume(t, k)
  BY DEF Plain, SendMessage, ViewResume
<1>. QED
  BY <1>1, <1>2, <1>3, <1>4, <1>5 DEF Start

LEMMA RunStepRooted ==
  ASSUME Plain, Rooted(Now, {}), Sound(Now, {}), Fine(Now'), NEW k \in Runs, RunStep(k)
  PROVE  Rooted(Now', {})
<1>1. ~StartSent(k) /\ ~StartViewed(k) /\ ~ResumeFails(k)
  <2>1. run[k].pc # "prep"
    BY NowIs DEF Rooted, Grounded, RunsHaveRows, Born
  <2>. QED
    BY <2>1 DEF StartSent, StartViewed, ResumeFails
<1>2. CASE Register(k) \/ Park(k) \/ WakeAborted(k) \/ Steer(k)
  BY <1>2, AwaitRooted
<1>3. CASE FinishLoop(k) \/ BreakLoop(k) \/ AbortLoop(k) \/ AbandonBatch(k)
  BY <1>3, LoopEndRooted
<1>4. CASE TakeForOwner(k)
  BY <1>4, ReadsRooted
<1>5. CASE CommitMain(k)
  BY <1>5, CommitMainRooted DEF Sound
<1>. QED
  BY <1>1, <1>2, <1>3, <1>4, <1>5, LaunchFailsRooted, CommitBatchRooted,
     UnwindRooted, SettleRooted, DetachRooted DEF RunStep

LEMMA StepKeepsRooted ==
  ASSUME Plain, Rooted(Now, {}), Sound(Now, {}), Fine(Now'), [Next]_vars
  PROVE  Rooted(Now', {})
<1>1. ~CancelTurn
  BY DEF Plain, CancelTurn
<1>2. CASE UNCHANGED vars
  <2>1. Become(Now)
    BY <1>2, NowIs DEF Become, vars
  <2>. QED
    BY <2>1, BecomeRooted
<1>3. CASE DrainMain
  BY <1>3, ReadsRooted
<1>. QED
  BY <1>1, <1>2, <1>3, StartRooted, RunStepRooted, TaskStepRooted DEF Next

LEMMA InitRooted ==
  ASSUME Init, Fine(Now)
  PROVE  Rooted(Now, {})
<1>1. ASSUME NEW t \in Tasks
      PROVE  /\ ~Running(Now, t) /\ Now.ctl[t] = NoRun
  BY NowIs DEF Init, Row, Running
<1>2. ASSUME NEW k \in Runs
      PROVE  /\ ~Born(Now, k) /\ ~Now.run[k].linked /\ Now.run[k].caller = NoRun
             /\ Now.run[k].pc = "unborn"
  <2>1. Now.run[k] = Execution(Main, "none", "unborn", NoRun, "none")
    BY NowIs DEF Init
  <2>2. Now.run[k].caller = NoRun /\ Now.run[k].pc = "unborn"
    BY <2>1 DEF Execution
  <2>3. Now.run[k].linked = (NoRun # NoRun)
    BY <2>1 DEF Execution
  <2>4. ~Now.run[k].linked
    BY <2>3
  <2>. QED
    BY <2>2, <2>4 DEF Born
<1>3. Grounded(Now)
  BY <1>1, <1>2, NoRunIsNone DEF Grounded, RunsHaveRows, CallsHaveCallers, StopsAimRight, Nested
<1>4. Moving(Now, {})
  BY <1>1, <1>2 DEF Moving, CallersWait, CallsAreOpen, AliveOrTold, StoppedWithAll,
     LostHaveEnded, Waits, Live
<1>5. ParkedWait(Now)
  BY <1>2 DEF ParkedWait
<1>. QED
  BY <1>3, <1>4, <1>5 DEF Rooted

LEMMA RootedInvariant == ASSUME Plain PROVE Spec => []Rooted(Now, {})
<1>1. Init => Sound(Now, {}) /\ Rooted(Now, {})
  <2>1. Init => Sound(Now, {})
    BY InitSound
  <2>. QED
    BY <2>1, InitRooted DEF Sound
<1>2. Sound(Now, {}) /\ Rooted(Now, {}) /\ [Next]_vars => (Sound(Now, {}) /\ Rooted(Now, {}))'
  <2>1. Sound(Now, {}) /\ [Next]_vars => Sound(Now', {})
    BY StepKeepsSound
  <2>2. Sound(Now, {}) /\ Rooted(Now, {}) /\ [Next]_vars /\ Fine(Now') => Rooted(Now', {})
    BY StepKeepsRooted
  <2>. QED
    BY <2>1, <2>2 DEF Sound
<1>. QED
  BY <1>1, <1>2, PTL DEF Spec

\* A fork that waits in waitForOwner has nothing to read and owns work that still runs:
\* whatever ends, kills, hushes or hands over the last task it owns wakes it.  Agents
\* are started, sent to the background and stopped by the user in any tree; a row stays
\* what it is once its run began.
THEOREM ParkedForksHaveWork ==
  ASSUME Surfaces \subseteq {"main", "nested", "directive", "shell", "stop", "late"}
  PROVE  Spec => []ParkedHasWork
<1>1. Plain
  BY DEF Plain
<1>2. Rooted(Now, {}) => ParkedHasWork
  BY NowIs DEF Rooted, ParkedWait, ParkedHasWork
<1>. QED
  BY <1>1, <1>2, RootedInvariant, PTL

\* The row of a detached child whose run is over has ended, but while its call is still
\* open: a caller that abandons its batch leaves no row behind that nobody reports.
THEOREM DetachedChildrenReport ==
  ASSUME Surfaces \subseteq {"main", "nested", "directive", "shell", "stop", "late"}
  PROVE  Spec => []DetachedChildReports
<1>1. Plain
  BY DEF Plain
<1>2. Rooted(Now, {}) /\ Sound(Now, {}) => DetachedChildReports
  <2>. SUFFICES ASSUME Rooted(Now, {}), Sound(Now, {}), NEW t \in Tasks, Running(Now, t),
                       run[store[t].token].pc = "done"
                PROVE  run[store[t].token].gate = "open"
    BY DEF DetachedChildReports
  <2>. DEFINE k == Now.store[t].token
  <2>1. k \in Runs /\ Born(Now, k) /\ Now.run[k].task = t
    BY WaitsIs DEF Rooted
  <2>2. Now.run[k].gate # "lost"
    BY <2>1 DEF Rooted, Moving, LostHaveEnded
  <2>3. ~Reported(Now, k)
    BY DEF Sound, ReportsEnd
  <2>. QED
    BY <2>2, <2>3, NowIs DEF Reported
<1>. QED
  BY <1>1, <1>2, RootedInvariant, SoundInvariant, PTL

-----------------------------------------------------------------------------
(* A run that leaves, and the runs its task had since: where agents are     *)
(* resumed by a message or from their view, their rows come and go, and     *)
(* turns are cancelled, but no row is stopped while its run still works.    *)

\* A run that its row runs for.
Busy == {"prep", "launch", "loop", "parked", "exit", "proc"}

\* X are the runs that a step takes out of their place.
Seated(S, X) ==
  \A k \in Runs : k \notin X /\ S.run[k].pc \in Busy => LET t == S.run[k].task IN
    t \in Tasks /\ S.store[t].token = k /\ Running(S, t)

\* The row of a call that a fork made and waits for.
Asked(S, t) == Running(S, t) /\ S.store[t].mode = "linked" /\ S.store[t].parent # Main

Attends(S, p, t) == p \in Runs /\ S.run[p].pc = "loop" /\ S.run[p].task = S.store[t].parent

Attended(S) ==
  \A t \in Tasks : Asked(S, t) => LET r == S.run[S.store[t].token] IN
    /\ r.how = "nested"
    /\ r.pc # "done" => r.gate = "open" /\ r.linked /\ Attends(S, r.caller, t)

ShellsRun(S) == \A t \in Tasks : Running(S, t) /\ ~Agent(S, t) => Process(S, S.store[t].token)

\* A directive is reported in the step that unwinds it.
DirectivesEnd(S, X) ==
  \A k \in Runs : k \notin X /\ S.run[k].how = "directive" => S.run[k].pc # "settle"

\* R are runs that have not settled yet.
Rest(S, R) == \A k \in Runs : k \in R => S.run[k].pc = "settle"

Held(S, X, R) ==
  Fine(S) /\ Seated(S, X) /\ Attended(S) /\ ShellsRun(S) /\ DirectivesEnd(S, X) /\ Rest(S, R)

\* No run but those of X works in the row.
Vacant(S, t, X) == \A j \in Runs : S.run[j].task = t /\ S.run[j].pc \in Busy => j \in X

\* No row waits in a batch of this fork.
Free(S, p) ==
  \A t \in Tasks : Asked(S, t) /\ S.run[S.store[t].token].pc # "done" =>
    S.run[S.store[t].token].caller # p

\* The row of the run waits in a batch.
Owed(S, k) == \E t \in Tasks : Asked(S, t) /\ S.store[t].token = k

\* What stays of a row: it may be sent to the background.
KeptRow(S, T, t) ==
  /\ T.store[t].kind = S.store[t].kind /\ T.store[t].token = S.store[t].token
  /\ T.store[t].parent = S.store[t].parent
  /\ T.store[t].mode = "linked" => S.store[t].mode = "linked"

\* The steps of a run that the rows and the other runs can bear.
Places(S, T, X, Y, k) ==
  /\ T.run[k].task = S.run[k].task /\ T.run[k].how = S.run[k].how
  /\ T.run[k].caller = S.run[k].caller
  /\ T.run[k].pc \in Busy /\ k \notin Y => S.run[k].pc \in Busy /\ k \notin X
  /\ T.run[k].how = "directive" /\ T.run[k].pc = "settle" /\ k \notin Y =>
       S.run[k].pc = "settle" /\ k \notin X
  /\ Process(S, k) => Process(T, k)
  /\ S.run[k].pc = "done" => T.run[k].pc = "done"
  /\ S.run[k].pc = "loop" /\ T.run[k].pc # "loop" => Free(S, k)
  /\ Owed(T, k) /\ T.run[k].how = "nested" /\ T.run[k].pc # "done" /\ S.run[k].gate = "open" /\ S.run[k].linked =>
       T.run[k].gate = "open" /\ T.run[k].linked

Gently(S, T, X, Y, R) ==
  /\ \A t \in Tasks : /\ Running(T, t) => Running(S, t) /\ KeptRow(S, T, t)
                      /\ Running(S, t) /\ ~Running(T, t) => Vacant(T, t, Y)
  /\ \A k \in Runs : /\ Places(S, T, X, Y, k)
                     /\ k \in R => (S.run[k].pc = "settle" => T.run[k].pc = "settle")

LEMMA RunningRow ==
  ASSUME NEW S, Fine(S), NEW t \in Tasks, Running(S, t)
  PROVE  LET k == S.store[t].token IN
         k \in Runs /\ S.run[k].task = t /\ S.run[k].pc # "unborn"
BY DEF Fine, Good, RunsAreFresh, TokensAreOwned, Running

LEMMA HeldGently ==
  ASSUME NEW S, NEW X, NEW R, Held(S, X, R), NEW T, Fine(T), NEW Y, Gently(S, T, X, Y, R)
  PROVE  Held(T, Y, R)
<1>1. /\ Fine(S) /\ Seated(S, X) /\ Attended(S) /\ ShellsRun(S) /\ DirectivesEnd(S, X)
      /\ Rest(S, R)
  BY DEF Held
<1>2. ASSUME NEW t \in Tasks
      PROVE  /\ Running(T, t) => Running(S, t) /\ KeptRow(S, T, t)
             /\ Running(S, t) /\ ~Running(T, t) => Vacant(T, t, Y)
  BY DEF Gently
<1>3. ASSUME NEW k \in Runs
      PROVE  Places(S, T, X, Y, k) /\ (k \in R => (S.run[k].pc = "settle" => T.run[k].pc = "settle"))
  BY DEF Gently
<1>4. Seated(T, Y)
  <2>. SUFFICES ASSUME NEW k \in Runs, k \notin Y, T.run[k].pc \in Busy
                PROVE  LET t == T.run[k].task IN
                       t \in Tasks /\ T.store[t].token = k /\ Running(T, t)
    BY DEF Seated
  <2>. DEFINE t == S.run[k].task
  <2>1. T.run[k].task = t /\ S.run[k].pc \in Busy /\ k \notin X
    BY <1>3 DEF Places
  <2>2. t \in Tasks /\ S.store[t].token = k /\ Running(S, t)
    BY <1>1, <2>1 DEF Seated
  <2>3. Running(T, t)
    BY <1>2, <2>1, <2>2 DEF Vacant
  <2>. QED
    BY <1>2, <2>1, <2>2, <2>3 DEF KeptRow
<1>5. Attended(T)
  <2>. SUFFICES ASSUME NEW t \in Tasks, Asked(T, t)
                PROVE  LET r == T.run[T.store[t].token] IN
                       /\ r.how = "nested"
                       /\ r.pc # "done" => r.gate = "open" /\ r.linked /\ Attends(T, r.caller, t)
    BY DEF Attended
  <2>. DEFINE k == S.store[t].token
              p == S.run[k].caller
  <2>1. Running(S, t) /\ KeptRow(S, T, t)
    BY <1>2 DEF Asked
  <2>2. Asked(S, t) /\ T.store[t].token = k
    BY <2>1 DEF Asked, KeptRow
  <2>3. k \in Runs
    BY <1>1, <2>1, RunningRow
  <2>4. T.run[k].how = "nested" /\ S.run[k].how = "nested"
    BY <1>1, <1>3, <2>2, <2>3 DEF Attended, Places
  <2>5. ASSUME T.run[k].pc # "done"
        PROVE  T.run[k].gate = "open" /\ T.run[k].linked /\ Attends(T, T.run[k].caller, t)
    <3>1. S.run[k].pc # "done"
      BY <1>3, <2>3, <2>5 DEF Places
    <3>2. S.run[k].gate = "open" /\ S.run[k].linked /\ Attends(S, p, t)
      BY <1>1, <2>2, <3>1 DEF Attended
    <3>3. T.run[k].gate = "open" /\ T.run[k].linked /\ T.run[k].caller = p
      BY <1>3, <2>2, <2>3, <2>4, <2>5, <3>2 DEF Places, Owed
    <3>4. T.run[p].pc = "loop" /\ T.run[p].task = S.run[p].task
      BY <1>3, <2>2, <3>1, <3>2 DEF Attends, Places, Free
    <3>. QED
      BY <2>1, <3>2, <3>3, <3>4 DEF Attends, KeptRow
  <2>. QED
    BY <2>2, <2>4, <2>5
<1>6. ShellsRun(T)
  <2>. SUFFICES ASSUME NEW t \in Tasks, Running(T, t), ~Agent(T, t)
                PROVE  Process(T, T.store[t].token)
    BY DEF ShellsRun
  <2>1. Running(S, t) /\ ~Agent(S, t) /\ T.store[t].token = S.store[t].token
    BY <1>2 DEF KeptRow, Agent
  <2>2. S.store[t].token \in Runs /\ Process(S, S.store[t].token)
    BY <1>1, <2>1, RunningRow DEF ShellsRun
  <2>. QED
    BY <1>3, <2>1, <2>2 DEF Places
<1>7. DirectivesEnd(T, Y)
  BY <1>1, <1>3 DEF DirectivesEnd, Places
<1>8. Rest(T, R)
  BY <1>1, <1>3 DEF Rest
<1>. QED
  BY <1>4, <1>5, <1>6, <1>7, <1>8 DEF Held

\* Nothing but what a call does to rows that run and to the places of runs matters.
LEMMA RowsHeld ==
  ASSUME NEW S, NEW X, NEW R, Held(S, X, R), NEW T, Fine(T),
         \A t \in Tasks : /\ Running(T, t) => Running(S, t) /\ SameRow(S, T, t)
                          /\ Running(S, t) /\ ~Running(T, t) => Vacant(S, t, X),
         \A k \in Runs : SameRun(S, T, k) /\ Woken(S, T, k) /\ T.run[k].linked = S.run[k].linked
  PROVE  Held(T, X, R)
<1>1. ASSUME NEW k \in Runs
      PROVE  Places(S, T, X, X, k) /\ (k \in R => (S.run[k].pc = "settle" => T.run[k].pc = "settle"))
  <2>1. SameRun(S, T, k) /\ Woken(S, T, k) /\ T.run[k].linked = S.run[k].linked
    OBVIOUS
  <2>. QED
    BY <2>1 DEF SameRun, Woken, Places, Process, Busy
<1>2. ASSUME NEW t \in Tasks, Vacant(S, t, X)
      PROVE  Vacant(T, t, X)
  BY <1>1, <1>2 DEF Vacant, Places
<1>3. Gently(S, T, X, X, R)
  BY <1>1, <1>2 DEF Gently, KeptRow, SameRow
<1>. QED
  BY <1>3, HeldGently

LEMMA ConcludeHeld ==
  ASSUME NEW S, NEW X, NEW R, Held(S, X, R), NEW ts \in SUBSET Tasks, NEW status,
         \A t \in ts : status[t] \in Endings /\ S.store[t].token \in Runs,
         \A t \in ts : Vacant(S, t, X)
  PROVE  Held(Conclude(S, ts, status), X, R)
<1>. DEFINE T == Conclude(S, ts, status)
<1>1. Fine(T) /\ Concluded(S, T, ts, status)
  BY ConcludeIs DEF Held
<1>. HIDE DEF T
<1>2. ASSUME NEW t \in Tasks
      PROVE  /\ Running(T, t) => Running(S, t) /\ SameRow(S, T, t)
             /\ Running(S, t) /\ ~Running(T, t) => Vacant(S, t, X)
  <2>1. CASE t \in ts
    <3>1. ~Running(T, t)
      BY <1>1, <2>1 DEF Concluded, Running, Endings
    <3>. QED
      BY <2>1, <3>1
  <2>2. CASE t \notin ts
    BY <1>1, <2>2 DEF Concluded, Running
  <2>. QED
    BY <2>1, <2>2
<1>3. Held(T, X, R)
  BY <1>1, <1>2, RowsHeld DEF Concluded
<1>. QED
  BY <1>3 DEF T

\* A run that is over has nobody working in the row it ends.
LEMMA CurrentVacant ==
  ASSUME NEW S, NEW X, NEW R, Held(S, X, R), NEW ks, \A k \in Runs : k \in ks => S.run[k].pc \notin Busy
  PROVE  \A t \in Current(S, ks) : t \in Tasks /\ S.store[t].token \in Runs /\ Vacant(S, t, X)
<1>. SUFFICES ASSUME NEW t \in Current(S, ks)
              PROVE  t \in Tasks /\ S.store[t].token \in Runs /\ Vacant(S, t, X)
  OBVIOUS
<1>1. t \in Tasks /\ Running(S, t) /\ S.store[t].token \in ks
  BY DEF Current
<1>2. S.store[t].token \in Runs
  BY <1>1, RunningRow DEF Held
<1>3. Vacant(S, t, X)
  BY <1>1, <1>2 DEF Held, Seated, Vacant
<1>. QED
  BY <1>1, <1>2, <1>3

LEMMA FinishHeld ==
  ASSUME NEW S, NEW X, NEW R, Held(S, X, R), NEW ks,
         \A k \in Runs : k \in ks => S.run[k].pc \notin Busy, NEW status \in Endings
  PROVE  Held(Finish(S, ks, status), X, R)
<1>. DEFINE all == [t \in Tasks |-> status]
            ts == Current(S, ks)
<1>1. \A t \in ts : t \in Tasks /\ S.store[t].token \in Runs /\ Vacant(S, t, X)
  BY CurrentVacant
<1>2. \A t \in ts : all[t] \in Endings
  BY <1>1
<1>. HIDE DEF all, ts
<1>3. Held(Conclude(S, ts, all), X, R)
  BY <1>1, <1>2, ConcludeHeld
<1>. QED
  BY <1>3 DEF Finish, all, ts

LEMMA AbortHeld ==
  ASSUME NEW S, NEW X, NEW R, Held(S, X, R), NEW ks
  PROVE  Held(Abort(S, ks), X, R)
<1>. DEFINE T == Abort(S, ks)
<1>1. Fine(T) /\ Aborts(S, T, ks)
  BY AbortIs DEF Held
<1>. HIDE DEF T
<1>2. ASSUME NEW t \in Tasks
      PROVE  (Running(T, t) <=> Running(S, t)) /\ SameRow(S, T, t)
  BY <1>1 DEF Aborts, RowsStay, Running, SameRow
<1>3. Held(T, X, R)
  BY <1>1, <1>2, RowsHeld DEF Aborts, Woken
<1>. QED
  BY <1>3 DEF T

\* A batch is closed once its calls have settled: none of them is waited for.
LEMMA GatedHeld ==
  ASSUME NEW S, NEW X, NEW R, Held(S, X, R), NEW cs,
         NEW gate \in {"none", "open", "committed", "lost"},
         \A c \in Runs : c \in cs => S.run[c].pc = "done" \/ ~S.run[c].linked
  PROVE  Held(Gated(S, cs, gate), X, R)
<1>. DEFINE T == Gated(S, cs, gate)
<1>1. Fine(T) /\ Gates(S, T, cs, gate)
  BY GatedIs DEF Held
<1>. HIDE DEF T
<1>2. ASSUME NEW t \in Tasks
      PROVE  (Running(T, t) <=> Running(S, t)) /\ SameRow(S, T, t)
  BY <1>1 DEF Gates, RowsStay, Running, SameRow
<1>3. ASSUME NEW k \in Runs
      PROVE  /\ Places(S, T, X, X, k)
             /\ k \in R => (S.run[k].pc = "settle" => T.run[k].pc = "settle")
  <2>1. /\ T.run[k].task = S.run[k].task /\ T.run[k].how = S.run[k].how
        /\ T.run[k].caller = S.run[k].caller /\ T.run[k].pc = S.run[k].pc
        /\ T.run[k].linked = S.run[k].linked
        /\ k \notin cs => T.run[k].gate = S.run[k].gate
    BY <1>1 DEF Gates
  <2>. QED
    BY <2>1 DEF Places, Process
<1>4. Gently(S, T, X, X, R)
  BY <1>2, <1>3 DEF Gently, KeptRow, SameRow
<1>5. Held(T, X, R)
  BY <1>1, <1>4, HeldGently
<1>. QED
  BY <1>5 DEF T

\* Only a row that has ended leaves the store.
LEMMA EvictHeld ==
  ASSUME NEW S, NEW X, NEW R, Held(S, X, R), NEW t \in Tasks, ~Running(S, t), Removes
  PROVE  Held(Evicted(S, {t}), X, R)
<1>. DEFINE T == Evicted(S, {t})
<1>1. Fine(T) /\ Evicts(S, T, {t})
  BY EvictedIs DEF Held
<1>. HIDE DEF T
<1>2. ASSUME NEW u \in Tasks
      PROVE  /\ Running(T, u) => Running(S, u) /\ SameRow(S, T, u)
             /\ Running(S, u) => Running(T, u)
  <2>1. CASE u = t
    <3>1. T.store[u].status = "evicted"
      BY <1>1, <2>1 DEF Evicts, Durable, Row
    <3>. QED
      BY <2>1, <3>1 DEF Running
  <2>2. CASE u # t
    BY <1>1, <2>2 DEF Evicts, Running, SameRow
  <2>. QED
    BY <2>1, <2>2
<1>3. Held(T, X, R)
  BY <1>1, <1>2, RowsHeld DEF Evicts, SameRun, Woken
<1>. QED
  BY <1>3 DEF T

LEMMA PromoteHeld ==
  ASSUME NEW S, NEW X, NEW R, Held(S, X, R), NEW o
  PROVE  Held(Promote(S, o), X, R) /\ Promote(S, o).run = S.run
         /\ \A t \in Tasks : SameRow(S, Promote(S, o), t)
<1>. DEFINE T == Promote(S, o)
<1>1. CASE IsOwnerRegistered(S, o)
  BY <1>1 DEF Promote, SameRow
<1>2. CASE ~IsOwnerRegistered(S, o)
  <2>1. Fine(T) /\ Promotes(S, T, o)
    BY <1>2, PromoteIs DEF Held
  <2>. HIDE DEF T
  <2>2. ASSUME NEW t \in Tasks
        PROVE  SameRow(S, T, t) /\ (Running(T, t) <=> Running(S, t))
    BY <2>1 DEF Promotes, Running
  <2>3. Held(T, X, R)
    BY <2>1, <2>2, RowsHeld DEF Promotes, SameRun, Woken
  <2>. QED
    BY <2>1, <2>2, <2>3 DEF Promotes, T
<1>. QED
  BY <1>1, <1>2

\* The shells that end with their fork are processes; theirs are the runs of their rows.
LEMMA KillShellsHeld ==
  ASSUME NEW S, NEW X, NEW R, Held(S, X, R), NEW o
  PROVE  Held(KillShellsForOwner(S, o), X, R)
<1>. DEFINE T == KillShellsForOwner(S, o)
            ks == {S.store[u].token : u \in ShellsOf(S, o)}
<1>1. Fine(S) /\ Fine(T) /\ KillsShells(S, T, o)
  BY KillShellsIs DEF Held
<1>2. ASSUME NEW t \in ShellsOf(S, o)
      PROVE  LET k == S.store[t].token IN
             /\ t \in Tasks /\ k \in Runs /\ Process(S, k) /\ T.run[k].pc = "done"
  <2>. DEFINE k == S.store[t].token
  <2>1. t \in Tasks /\ Running(S, t) /\ ~Agent(S, t)
    BY DEF ShellsOf
  <2>2. k \in Runs /\ Process(S, k)
    BY <1>1, <2>1, RunningRow DEF Held, ShellsRun
  <2>3. T.run = [j \in Runs |-> IF j \in ks THEN [S.run[j] EXCEPT !.pc = "done"] ELSE S.run[j]]
    BY <1>1 DEF KillShellsForOwner, Fine, Good, Shape
  <2>4. k \in ks
    OBVIOUS
  <2>. HIDE DEF ks, k, T
  <2>5. T.run[k] = [S.run[k] EXCEPT !.pc = "done"]
    BY <2>2, <2>3, <2>4
  <2>6. [S.run[k] EXCEPT !.pc = "done"].pc = "done"
    BY <1>1, <2>2 DEF Fine, Typed, RunType
  <2>. QED
    BY <2>1, <2>2, <2>5, <2>6 DEF k
<1>. HIDE DEF T
<1>3. ASSUME NEW k \in Runs
      PROVE  /\ Places(S, T, X, X, k)
             /\ k \in R => (S.run[k].pc = "settle" => T.run[k].pc = "settle")
             /\ T.run[k].pc # S.run[k].pc => T.run[k].pc = "done"
  <2>1. /\ SameRun(S, T, k) /\ T.run[k].linked = S.run[k].linked
        /\ T.run[k].pc = S.run[k].pc \/ (T.run[k].pc = "done" /\ Process(S, k))
    BY <1>1, <1>2 DEF KillsShells
  <2>. QED
    BY <2>1 DEF SameRun, Places, Process, Busy
<1>4. ASSUME NEW t \in Tasks
      PROVE  /\ Running(T, t) => Running(S, t) /\ SameRow(S, T, t)
             /\ Running(S, t) /\ ~Running(T, t) => Vacant(T, t, X)
  <2>1. Running(T, t) => Running(S, t) /\ SameRow(S, T, t)
    BY <1>1 DEF KillsShells, Running
  <2>2. ASSUME Running(S, t), ~Running(T, t), NEW j \in Runs, T.run[j].task = t,
               T.run[j].pc \in Busy, j \notin X
        PROVE  FALSE
    <3>1. t \in ShellsOf(S, o)
      BY <1>1, <2>2 DEF KillsShells, Running
    <3>2. S.run[j].task = t /\ S.run[j].pc \in Busy
      BY <1>3, <2>2 DEF Places
    <3>3. S.store[t].token = j
      BY <2>2, <3>2 DEF Held, Seated
    <3>. QED
      BY <1>2, <2>2, <3>1, <3>3 DEF Busy
  <2>. QED
    BY <2>1, <2>2 DEF Vacant
<1>5. Gently(S, T, X, X, R)
  BY <1>3, <1>4 DEF Gently, KeptRow, SameRow
<1>6. Held(T, X, R)
  BY <1>1, <1>5, HeldGently
<1>. QED
  BY <1>6 DEF T

\* A walk that enters no detached child reaches no fork that works: between a run that
\* leaves and the calls below it nobody is in a loop to wait for them.
LEMMA CancelHeld ==
  ASSUME NEW S, NEW X, NEW R, Held(S, X, R), NEW k \in Runs, S.run[k].task \in Tasks, Matches(S, k),
         S.run[k].pc \in {"exit", "settle", "done"}, S.run[k].pc = "exit" => k \in X, X \subseteq {k},
         NEW force \in BOOLEAN, ~force, NEW byUser, NEW quiet \in BOOLEAN
  PROVE  /\ Held(CancelTaskTree(S, k, force, byUser, quiet), X, R)
         /\ Cancelled(S, CancelTaskTree(S, k, force, byUser, quiet), k, force, quiet)
<1>. DEFINE T == CancelTaskTree(S, k, force, byUser, quiet)
            r == S.run[k].task
            U == {x \in Tasks : \A j \in Runs : S.run[j].task = x /\ S.run[j].pc \in Busy => j = k}
<1>1. Fine(S) /\ Seated(S, X) /\ Attended(S)
  BY DEF Held
<1>2. Fine(T) /\ Cancelled(S, T, k, force, quiet)
  BY <1>1, CancelIs
<1>. HIDE DEF T
<1>3. S.store[r].token = k
  BY DEF Matches
<1>4. r \in U
  BY <1>1, <1>3 DEF Seated
<1>5. ASSUME NEW x \in U, NEW c \in Children(S, x), force \/ S.store[c].mode = "linked"
      PROVE  c \in U
  <2>1. c \in Tasks /\ Present(S, c) /\ S.store[c].parent = x /\ S.store[c].mode = "linked"
    BY <1>5 DEF Children
  <2>2. ASSUME NEW j \in Runs, S.run[j].task = c, S.run[j].pc \in Busy, j # k
        PROVE  FALSE
    <3>1. S.store[c].token = j /\ Running(S, c)
      BY <1>1, <2>2 DEF Seated
    <3>2. Asked(S, c)
      BY <2>1, <3>1, TasksAssumption DEF Asked
    <3>3. Attends(S, S.run[j].caller, c)
      BY <1>1, <2>1, <2>2, <3>1, <3>2 DEF Attended, Busy
    <3>4. S.run[j].caller = k
      BY <2>1, <3>3 DEF Attends, Busy
    <3>. QED
      BY <3>3, <3>4 DEF Attends
  <2>. QED
    BY <2>1, <2>2
<1>6. Tree(S, r, force) \subseteq U
  <2>1. U \in SUBSET Tasks
    OBVIOUS
  <2>. HIDE DEF U, r
  <2>2. r \in Tasks
    BY DEF r
  <2>. QED
    BY <1>4, <1>5, <2>1, <2>2, TreeWithin
<1>7. \A t \in Kills(S, k, force) : t \in U /\ (Running(S, t) => Vacant(S, t, X))
  <2>1. Kills(S, k, force) \subseteq U
    BY <1>6 DEF Kills, Stops, Stoppable
  <2>2. ASSUME NEW t \in U
        PROVE  Vacant(S, t, X)
    BY <2>2 DEF Vacant, Busy
  <2>. QED
    BY <2>1, <2>2
<1>8. ASSUME NEW t \in Tasks
      PROVE  /\ Running(T, t) => Running(S, t) /\ SameRow(S, T, t)
             /\ Running(S, t) /\ ~Running(T, t) => Vacant(S, t, X)
  <2>1. CASE t \in Kills(S, k, force)
    <3>1. ~Running(T, t)
      BY <1>2, <2>1 DEF Cancelled, Running
    <3>. QED
      BY <1>7, <2>1, <3>1
  <2>2. CASE t \notin Kills(S, k, force)
    BY <1>2, <2>2 DEF Cancelled, Running
  <2>. QED
    BY <2>1, <2>2
<1>9. Held(T, X, R)
  BY <1>2, <1>8, RowsHeld DEF Cancelled
<1>. QED
  BY <1>2, <1>9 DEF T

\* A run steps on.
Bears(S, k, e, X, Y, R) ==
  /\ e.task = S.run[k].task /\ e.how = S.run[k].how /\ e.caller = S.run[k].caller
  /\ e.pc \in Busy /\ k \notin Y => S.run[k].pc \in Busy /\ k \notin X
  /\ e.how = "directive" /\ e.pc = "settle" => k \in Y
  /\ S.run[k].pc \in {"proc", "done"} => e.pc \in {S.run[k].pc, "done"}
  /\ S.run[k].pc = "loop" /\ e.pc # "loop" => Free(S, k)
  /\ S.run[k].pc = "settle" => e.pc = "settle" \/ k \notin R
  /\ e.pc # "done" => e.linked = S.run[k].linked /\ (e.how = "nested" => e.gate = S.run[k].gate)
  /\ X \subseteq Y \cup {k}

LEMMA RunHeld ==
  ASSUME NEW S, NEW X, NEW R, Held(S, X, R), NEW T, Fine(T), T.store = S.store,
         NEW k \in Runs, NEW e, T.run = [S.run EXCEPT ![k] = e], NEW Y, Bears(S, k, e, X, Y, R)
  PROVE  Held(T, Y, R)
<1>1. T.run[k] = e /\ \A j \in Runs : j # k => T.run[j] = S.run[j]
  BY DEF Held, Fine, Typed
<1>2. ASSUME NEW t \in Tasks
      PROVE  (Running(T, t) <=> Running(S, t)) /\ SameRow(S, T, t)
  BY DEF Running, SameRow
<1>3. ASSUME NEW j \in Runs
      PROVE  /\ Places(S, T, X, Y, j)
             /\ j \in R => (S.run[j].pc = "settle" => T.run[j].pc = "settle")
  <2>1. CASE j = k
    BY <1>1, <2>1 DEF Bears, Places, Process
  <2>2. CASE j # k
    BY <1>1, <2>2 DEF Bears, Places, Process
  <2>. QED
    BY <2>1, <2>2
<1>4. Gently(S, T, X, Y, R)
  BY <1>2, <1>3 DEF Gently, KeptRow, SameRow
<1>. QED
  BY <1>4, HeldGently

\* A run that reaches its next place.
Enters(S, k, pc, X, Y, R) ==
  /\ S.run[k].pc # "unborn"
  /\ pc \in Busy /\ k \notin Y => S.run[k].pc \in Busy /\ k \notin X
  /\ S.run[k].how = "directive" /\ pc = "settle" => k \in Y
  /\ S.run[k].pc \in {"proc", "done"} => pc = "done"
  /\ S.run[k].pc = "loop" /\ pc # "loop" => Free(S, k)
  /\ S.run[k].pc = "settle" => pc = "settle" \/ k \notin R
  /\ X \subseteq Y \cup {k}

\* What the step knows of its run is what the next call finds.
Entered(S, T, k, pc, Y, R) ==
  /\ Held(T, Y, R) /\ T.store = S.store
  /\ T.run[k].pc = pc /\ T.run[k].task = S.run[k].task /\ T.run[k].how = S.run[k].how
  /\ T.run[k].gate = S.run[k].gate /\ T.run[k].aborted = S.run[k].aborted

Moved(S, k, pc) == [S EXCEPT !.run[k].pc = pc]
Ended(S, k, pc, outcome) == [S EXCEPT !.run[k].pc = pc, !.run[k].outcome = outcome]

LEMMA PcHeld ==
  ASSUME NEW S, NEW X, NEW R, Held(S, X, R), NEW k \in Runs,
         NEW pc \in {"loop", "parked", "exit", "settle", "done"},
         NEW outcome \in {"none", "ok", "failed", "setup"}, NEW Y, Enters(S, k, pc, X, Y, R)
  PROVE  /\ Entered(S, Moved(S, k, pc), k, pc, Y, R)
         /\ Entered(S, Ended(S, k, pc, outcome), k, pc, Y, R)
<1>. DEFINE T == Moved(S, k, pc)
            U == Ended(S, k, pc, outcome)
            r == S.run[k]
            e == At(r, pc)
            f == Out(r, pc, outcome)
<1>1. Fine(S) /\ r \in RunType
  BY DEF Held, Fine, Typed
<1>2. Steps(S, T, k, e) /\ Steps(S, U, k, f)
  BY <1>1, RecordIs DEF Moved, Ended
<1>3. /\ pc \in {"launch", "loop", "parked", "exit", "settle", "done"}
      /\ outcome \in {"none", "ok", "failed", "setup"} /\ pc # "unborn"
  OBVIOUS
<1>4. r = S.run[k]
  OBVIOUS
<1>. HIDE DEF T, U, r
<1>5. /\ e \in RunType /\ SameCall(r, e) /\ e.pc = pc /\ e.gate = r.gate
      /\ f \in RunType /\ SameCall(r, f) /\ f.pc = pc /\ f.gate = r.gate
  BY <1>1, <1>3, StepIs
<1>6. e.caller = r.caller /\ e.linked = r.linked
  BY <1>1 DEF At, RunType
<1>7. f.caller = r.caller /\ f.linked = r.linked
  BY <1>1 DEF Out, RunType
<1>. HIDE DEF e, f
<1>8. ASSUME NEW V, NEW g \in RunType, Steps(S, V, k, g), SameCall(r, g), g.pc = pc,
             g.gate = r.gate, g.caller = r.caller, g.linked = r.linked
      PROVE  Entered(S, V, k, pc, Y, R)
  <2>1. g.task = S.run[k].task /\ g.how = S.run[k].how /\ g.aborted = S.run[k].aborted
    BY <1>4, <1>8 DEF SameCall
  <2>2. Fine(V)
    BY <1>1, <1>3, <1>8, <2>1, StepsFine DEF Enters, Born
  <2>3. Bears(S, k, g, X, Y, R)
    BY <1>4, <1>8, <2>1 DEF Bears, Enters
  <2>4. V.store = S.store /\ V.run = [S.run EXCEPT ![k] = g]
    BY <1>8 DEF Steps, RowsStay
  <2>5. Held(V, Y, R)
    BY <2>2, <2>3, <2>4, RunHeld
  <2>6. V.run[k] = g
    BY <1>1, <2>4 DEF Fine, Typed
  <2>. QED
    BY <1>4, <1>8, <2>1, <2>4, <2>5, <2>6 DEF Entered
<1>9. Entered(S, T, k, pc, Y, R) /\ Entered(S, U, k, pc, Y, R)
  BY <1>2, <1>5, <1>6, <1>7, <1>8
<1>. QED
  BY <1>9 DEF T, U

\* A fork leaves its loop with its shells, and with no call open.
LEMMA LeaveHeld ==
  ASSUME NEW S, NEW R, Held(S, {}, R), NEW k \in Runs, S.run[k].pc = "loop",
         NEW outcome \in {"ok", "failed"}, Free(S, k)
  PROVE  Held(Leave(S, k, outcome), {}, R)
<1>. DEFINE pc == "exit"
            T == Ended(S, k, pc, outcome)
            none == {}
<1>1. Enters(S, k, pc, none, none, R)
  BY DEF Enters, Busy
<1>2. Held(T, none, R)
  <2>1. /\ pc \in {"loop", "parked", "exit", "settle", "done"} /\ Held(S, none, R)
        /\ outcome \in {"none", "ok", "failed", "setup"}
    OBVIOUS
  <2>. HIDE DEF pc, none
  <2>2. Entered(S, T, k, pc, none, R)
    BY <1>1, <2>1, PcHeld
  <2>. QED
    BY <2>2 DEF Entered
<1>3. Leave(S, k, outcome) = KillShellsForOwner(T, S.run[k].task)
  BY DEF Leave, Ended
<1>. HIDE DEF T
<1>. QED
  BY <1>2, <1>3, KillShellsHeld

\* What the step knows of its run and its row is what the report finds.
Agrees(S, k) ==
  /\ S.run[k].task = run[k].task /\ S.run[k].how = run[k].how /\ run[k].task \in Tasks
  /\ run[k].how = "directive" => S.store[run[k].task].token = k

LEMMA PublishHeld ==
  ASSUME NEW S, NEW R, Held(S, {}, R), NEW k \in Runs, S.run[k].pc = "done", Agrees(S, k)
  PROVE  Held(Publish(S, k), {}, R)
<1>. DEFINE ks == {k}
            none == {}
            force == FALSE
            quiet == FALSE
            yes == TRUE
            no == FALSE
<1>1. Ending(k) \in Endings
  BY DEF Ending, Endings
<1>2. \/ Publish(S, k) = Finish(S, ks, Ending(k))
      \/ Publish(S, k) = CancelTaskTree(S, k, force, yes, quiet)
      \/ Publish(S, k) = CancelTaskTree(S, k, force, no, quiet)
  BY DEF Publish, Agrees
<1>3. /\ \A j \in Runs : j \in ks => S.run[j].pc \notin Busy
      /\ none \subseteq {k} /\ Held(S, none, R)
      /\ force \in BOOLEAN /\ ~force /\ quiet \in BOOLEAN
  BY DEF Busy
<1>4. S.run[k].task \in Tasks /\ S.run[k].pc \in {"exit", "settle", "done"} /\ S.run[k].pc # "exit"
  BY DEF Agrees
<1>. HIDE DEF ks, none, force, quiet, yes, no
<1>5. Held(Finish(S, ks, Ending(k)), none, R)
  BY <1>1, <1>3, FinishHeld
<1>6. ASSUME NEW byUser
      PROVE  Held(CancelTaskTree(S, k, force, byUser, quiet), none, R)
  <2>1. CASE Matches(S, k)
    BY ONLY <1>3, <1>4, <2>1, k \in Runs, CancelHeld
  <2>2. CASE ~Matches(S, k)
    <3>1. CancelTaskTree(S, k, force, byUser, quiet) = S
      BY <2>2 DEF CancelTaskTree
    <3>. QED
      BY <1>3, <3>1
  <2>. QED
    BY <2>1, <2>2
<1>7. Held(Publish(S, k), none, R)
  BY <1>2, <1>5, <1>6
<1>. QED
  BY <1>7 DEF none

LEMMA ReportHeld ==
  ASSUME NEW S, NEW X, NEW R, Held(S, X, R), NEW k \in Runs, X \subseteq {k}, k \notin R,
         S.run[k].pc = "settle", Agrees(S, k)
  PROVE  Held(Report(S, k), {}, R)
<1>. DEFINE t == run[k].task
            over == [S EXCEPT !.run[k].pc = "done",
                              !.run[k].linked = FALSE,
                              !.ctl[t] = IF @ = k THEN NoRun ELSE @]
            e == [S.run[k] EXCEPT !.pc = "done", !.linked = FALSE]
            c == IF S.ctl[t] = k THEN NoRun ELSE S.ctl[t]
            none == {}
<1>1. Report(S, k) = IF run[k].gate \in {"none", "committed"} THEN Publish(over, k) ELSE over
  BY DEF Report
<1>2. Fine(S)
  BY DEF Held
<1>3. /\ DOMAIN over = DOMAIN S /\ RowsStay(S, over)
      /\ over.run = [S.run EXCEPT ![k] = e]
      /\ over.ctl = [S.ctl EXCEPT ![t] = c]
  BY <1>2 DEF Fine, Good, Shape, RowsStay
<1>4. S.run[k] \in RunType /\ S.run \in [Runs -> RunType] /\ S.ctl \in [Tasks -> Runs \cup {NoRun}]
  BY <1>2 DEF Fine, Typed
<1>5. /\ e \in RunType /\ e.task = S.run[k].task /\ e.how = S.run[k].how
      /\ e.pc = "done" /\ e.caller = S.run[k].caller
  BY <1>4 DEF RunType
<1>6. over.ctl \in [Tasks -> Runs \cup {NoRun}]
  BY <1>3, <1>4
<1>. HIDE DEF over, e, c
<1>7. Fine(over)
  <2>1. {"task", "pc"} \subseteq DOMAIN e
    BY <1>5 DEF RunType
  <2>2. over.store = S.store /\ over.queue = S.queue /\ over.posted = S.posted
    BY <1>3 DEF RowsStay
  <2>3. e.pc # "unborn" /\ S.run[k].pc # "unborn"
    BY <1>5
  <2>4. Leads(S, over)
    BY <1>2, <1>3, <1>5, <2>1, <2>2, <2>3, RunMoves DEF Fine
  <2>5. Good(over)
    BY <1>2, <2>4, LeadsKeepsGood DEF Fine
  <2>6. over.run \in [Runs -> RunType]
    BY <1>3, <1>4, <1>5
  <2>. QED
    BY <1>2, <1>3, <1>6, <2>5, <2>6, RunsFine
<1>8. Bears(S, k, e, X, none, R)
  BY <1>5 DEF Bears, Busy
<1>9. over.store = S.store /\ over.run[k] = e
  BY <1>3, <1>4 DEF RowsStay
<1>. HIDE DEF none
<1>10. Held(over, none, R)
  BY <1>3, <1>7, <1>8, <1>9, RunHeld
<1>11. Agrees(over, k) /\ over.run[k].pc = "done"
  BY <1>5, <1>9 DEF Agrees
<1>. QED
  BY <1>1, <1>10, <1>11, PublishHeld DEF none

\* A directive is reported at once; what settles later is at rest.
LEMMA CloseHeld ==
  ASSUME NEW S, NEW R, NEW k \in Runs, Held(S, {k}, R), k \notin R, S.run[k].pc = "settle",
         Agrees(S, k)
  PROVE  Held(Close(S, k), {}, R)
<1>1. CASE run[k].how = "directive"
  <2>1. Held(Report(S, k), {}, R)
    BY ReportHeld
  <2>. QED
    BY <1>1, <2>1 DEF Close
<1>2. CASE run[k].how # "directive"
  <2>1. S.run[k].how # "directive"
    BY <1>2 DEF Agrees
  <2>2. Held(S, {}, R)
    BY <2>1 DEF Held, Seated, DirectivesEnd, Busy
  <2>. QED
    BY <1>2, <2>2 DEF Close
<1>. QED
  BY <1>1, <1>2

LEMMA BecomeHeld ==
  ASSUME NEW R, NEW T, Become(T), Held(T, {}, R), Fine(Now')
  PROVE  Held(Now', {}, R)
<1>. DEFINE U == Now'
<1>1. T.store = U.store /\ T.run = U.run
  BY NowIs DEF Become
<1>2. Fine(U)
  OBVIOUS
<1>. HIDE DEF U
<1>3. \A t \in Tasks : (Running(U, t) <=> Running(T, t)) /\ SameRow(T, U, t)
  BY <1>1 DEF Running, SameRow
<1>4. \A X : Held(T, X, R) => Held(U, X, R)
  BY <1>1, <1>2, <1>3, RowsHeld DEF SameRun, Woken
<1>. QED
  BY <1>4 DEF U

\* The awaits of a run that change its place.
LEMMA NowHeld ==
  ASSUME NEW R, Held(Now, {}, R), Fine(Now'), NEW k \in Runs,
         NEW pc \in {"launch", "loop", "parked", "done"},
         Enters(Now, k, pc, {}, {}, R), run' = [run EXCEPT ![k].pc = pc], UNCHANGED store
  PROVE  Held(Now', {}, R)
<1>. DEFINE r == run[k]
            e == At(r, pc)
            none == {}
<1>1. r \in RunType /\ r = Now.run[k] /\ e = At(r, pc)
  BY NowIs DEF Held, Fine, Typed
<1>2. run' = [run EXCEPT ![k] = e]
  BY DEF At
<1>. HIDE DEF e, r
<1>3. /\ e.pc = pc /\ e.task = r.task /\ e.how = r.how
      /\ e.caller = r.caller /\ e.linked = r.linked /\ e.gate = r.gate
  BY <1>1 DEF At, RunType
<1>4. Bears(Now, k, e, none, none, R)
  BY <1>1, <1>3 DEF Bears, Enters
<1>5. Now'.store = Now.store /\ Now'.run = [Now.run EXCEPT ![k] = e] /\ Held(Now, none, R)
  BY <1>2, NowIs
<1>. DEFINE T == Now'
<1>. HIDE DEF none, T
<1>6. Fine(T) /\ T.store = Now.store /\ T.run = [Now.run EXCEPT ![k] = e]
  BY <1>5 DEF T
<1>7. Held(T, none, R)
  BY <1>4, <1>5, <1>6, RunHeld
<1>. QED
  BY <1>7 DEF none, T

\* Nobody waits for a fork that has no call open.
LEMMA NoBatch ==
  ASSUME NEW R, Held(Now, {}, R), NEW k \in Runs, ~Dispatching(k)
  PROVE  Free(Now, k)
<1>. SUFFICES ASSUME NEW t \in Tasks, Asked(Now, t), Now.run[Now.store[t].token].pc # "done",
                     Now.run[Now.store[t].token].caller = k
              PROVE  FALSE
  BY DEF Free
<1>1. Now.store[t].token \in Runs
  BY RunningRow DEF Held, Asked
<1>2. Now.run[Now.store[t].token].gate = "open"
  BY DEF Held, Attended
<1>3. Now.store[t].token \in OpenBatch(k)
  BY <1>1, <1>2, NowIs DEF OpenBatch
<1>. QED
  BY <1>3 DEF Dispatching

LEMMA AwaitHeld ==
  ASSUME NEW R, Held(Now, {}, R), Fine(Now'), NEW k \in Runs,
         \/ Register(k) \/ Park(k) \/ WakeAborted(k) \/ Steer(k)
         \/ StartSent(k) \/ StartViewed(k)
  PROVE  Held(Now', {}, R)
<1>1. CASE Register(k)
  <2>1. Enters(Now, k, "loop", {}, {}, R)
    BY <1>1, NowIs DEF Register, Enters, Busy
  <2>. QED
    BY <1>1, <2>1, NowHeld DEF Register
<1>2. CASE Park(k)
  <2>1. Free(Now, k)
    BY <1>2, NoBatch DEF Park
  <2>2. Enters(Now, k, "parked", {}, {}, R)
    BY <1>2, <2>1, NowIs DEF Park, Working, Enters, Busy
  <2>. QED
    BY <1>2, <2>2, NowHeld DEF Park
<1>3. CASE WakeAborted(k) \/ Steer(k)
  <2>1. Enters(Now, k, "loop", {}, {}, R)
    BY <1>3, NowIs DEF WakeAborted, Steer, WakeUp, Enters, Busy
  <2>. QED
    BY <1>3, <2>1, NowHeld DEF WakeAborted, Steer, WakeUp
<1>4. CASE StartSent(k) \/ StartViewed(k)
  <2>1. run[k].pc = "prep" /\ UNCHANGED store
    BY <1>4 DEF StartSent, StartViewed
  <2>2. Enters(Now, k, "launch", {}, {}, R) /\ Enters(Now, k, "done", {}, {}, R)
    BY <2>1, NowIs DEF Enters, Busy
  <2>3. run' = [run EXCEPT ![k].pc = "launch"] \/ run' = [run EXCEPT ![k].pc = "done"]
    BY <1>4 DEF StartSent, StartViewed
  <2>. QED
    BY <2>1, <2>2, <2>3, NowHeld
<1>. QED
  BY <1>1, <1>2, <1>3, <1>4

\* Reading moves no run and ends no row.
LEMMA ReadsHeld ==
  ASSUME NEW R, Held(Now, {}, R), Fine(Now'), (\E k \in Runs : TakeForOwner(k)) \/ DrainMain
  PROVE  Held(Now', {}, R)
<1>1. run' = run
  BY DEF TakeForOwner, DrainMain
<1>2. ASSUME NEW t \in Tasks
      PROVE  store'[t] = store[t] \/ store'[t] = [store[t] EXCEPT !.term = "parent"]
  BY DEF TakeForOwner, DrainMain
<1>3. ASSUME NEW t \in Tasks
      PROVE  SameRow(Now, Now', t) /\ (Running(Now', t) <=> Running(Now, t))
  <2>1. store[t] \in RowShape
    BY NowIs DEF Held, Fine, Typed
  <2>2. /\ store'[t].kind = store[t].kind /\ store'[t].gen = store[t].gen
        /\ store'[t].token = store[t].token /\ store'[t].mode = store[t].mode
        /\ store'[t].bg = store[t].bg /\ store'[t].parent = store[t].parent
        /\ store'[t].status = store[t].status
    BY <1>2, <2>1 DEF RowShape
  <2>. QED
    BY <2>2, NowIs DEF SameRow, Running
<1>4. \A k \in Runs : Now'.run[k] = Now.run[k]
  BY <1>1, NowIs
<1>. DEFINE T == Now'
<1>. HIDE DEF T
<1>5. /\ Fine(T) /\ \A k \in Runs : T.run[k] = Now.run[k]
      /\ \A t \in Tasks : SameRow(Now, T, t) /\ (Running(T, t) <=> Running(Now, t))
  BY <1>3, <1>4 DEF T
<1>6. \A X : Held(Now, X, R) => Held(T, X, R)
  BY <1>5, RowsHeld DEF SameRun, Woken
<1>. QED
  BY <1>6 DEF T

LEMMA LaunchFailsHeld ==
  ASSUME NEW R, Held(Now, {}, R), Fine(Now'), NEW k \in Runs, LaunchFails(k)
  PROVE  Held(Now', {}, R)
<1>. DEFINE pc == "settle"
            outcome == "setup"
            T == Ended(Now, k, pc, outcome)
            none == {}
            ks == {k}
<1>1. Become(Close(T, k)) /\ Now.run[k].pc = "launch"
  BY NowIs DEF LaunchFails, Ended
<1>2. Now.store[run[k].task].token = k /\ run[k].task \in Tasks /\ k \notin R
  BY <1>1, NowIs DEF Held, Seated, Busy, Rest
<1>3. Enters(Now, k, pc, none, ks, R)
  BY <1>1 DEF Enters, Busy
<1>4. /\ pc \in {"loop", "parked", "exit", "settle", "done"} /\ pc = "settle"
      /\ outcome \in {"none", "ok", "failed", "setup"} /\ Held(Now, none, R)
  OBVIOUS
<1>. HIDE DEF pc, outcome, none, ks
<1>5. Entered(Now, T, k, pc, ks, R)
  BY <1>3, <1>4, PcHeld
<1>. HIDE DEF T
<1>6. Agrees(T, k) /\ T.run[k].pc = "settle" /\ Held(T, {k}, R)
  BY <1>2, <1>4, <1>5, NowIs DEF Entered, Agrees, ks
<1>7. Held(Close(T, k), {}, R)
  BY <1>2, <1>6, CloseHeld
<1>. QED
  BY <1>1, <1>7, BecomeHeld

\* A fork that was aborted cancels the tree of its task, and its task is still its own.
LEMMA UnwindHeld ==
  ASSUME NEW R, Held(Now, {}, R), Fine(Now'), NEW k \in Runs, Unwind(k)
  PROVE  Held(Now', {}, R)
<1>. DEFINE t == run[k].task
            tok == store[t].token
            force == FALSE
            quiet == TRUE
            byUser == FALSE
            swept == IF run[k].aborted /\ run[k].how # "view" /\ Present(Now, t)
                     THEN CancelTaskTree(Now, tok, force, byUser, quiet) ELSE Now
            pc == "settle"
            T == Moved(swept, k, pc)
            U == Promote(T, t)
            ks == {k}
<1>1. Now.run[k].pc = "exit" /\ Become(Close(U, k))
  BY NowIs DEF Unwind, Moved
<1>2. tok = k /\ t \in Tasks /\ k \notin R /\ Now.run[k].task = t /\ Now.store[t].token = k
  BY <1>1, NowIs DEF Held, Seated, Busy, Rest
<1>3. Held(Now, ks, R)
  BY DEF Held, Seated, DirectivesEnd
<1>4. \/ swept = Now
      \/ swept = CancelTaskTree(Now, k, force, byUser, quiet) /\ Present(Now, t)
  BY <1>2
<1>5. /\ force \in BOOLEAN /\ ~force /\ quiet \in BOOLEAN /\ k \in Runs
      /\ ks \subseteq {k} /\ k \in ks
      /\ pc \in {"loop", "parked", "exit", "settle", "done"} /\ pc = "settle"
      /\ "none" \in {"none", "ok", "failed", "setup"}
  OBVIOUS
<1>. HIDE DEF swept, force, quiet, byUser, tok, pc, ks
<1>6. /\ Held(swept, ks, R) /\ SameRun(Now, swept, k) /\ swept.run[k].pc = "exit"
      /\ swept.store[t].token = k
  <2>1. CASE swept = Now
    BY <1>1, <1>2, <1>3, <2>1 DEF SameRun
  <2>2. CASE swept = CancelTaskTree(Now, k, force, byUser, quiet) /\ Present(Now, t)
    <3>. DEFINE W == CancelTaskTree(Now, k, force, byUser, quiet)
    <3>1. Matches(Now, k) /\ Now.run[k].task \in Tasks /\ Now.run[k].pc \in {"exit", "settle", "done"}
      BY <1>1, <1>2, <2>2 DEF Matches
    <3>2. Held(W, ks, R) /\ Cancelled(Now, W, k, force, quiet)
      BY ONLY <1>3, <1>5, <3>1, CancelHeld DEF W
    <3>. HIDE DEF W
    <3>3. swept = W
      BY <2>2 DEF W
    <3>. QED
      BY <1>1, <1>2, <3>2, <3>3 DEF Cancelled, Woken, SameRow
  <2>. QED
    BY <1>4, <2>1, <2>2
<1>7. Enters(swept, k, pc, ks, ks, R)
  BY <1>5, <1>6 DEF Enters, Busy
<1>8. Entered(swept, T, k, pc, ks, R)
  BY ONLY <1>5, <1>6, <1>7, PcHeld DEF T
<1>9. /\ Held(T, ks, R) /\ T.run[k].pc = "settle" /\ T.store[t].token = k
      /\ T.run[k].task = run[k].task /\ T.run[k].how = run[k].how
  BY <1>5, <1>6, <1>8, NowIs DEF Entered, SameRun
<1>10. t = run[k].task
  OBVIOUS
<1>. HIDE DEF T, t
<1>11. Held(U, ks, R) /\ U.run = T.run /\ SameRow(T, U, t)
  BY <1>2, <1>9, PromoteHeld
<1>. HIDE DEF U
<1>12. Agrees(U, k) /\ U.run[k].pc = "settle" /\ Held(U, {k}, R)
  BY <1>2, <1>9, <1>10, <1>11 DEF Agrees, SameRow, ks
<1>13. Held(Close(U, k), {}, R)
  BY <1>2, <1>12, CloseHeld
<1>. QED
  BY <1>1, <1>13, BecomeHeld

LEMMA SettleHeld ==
  ASSUME NEW R, Held(Now, {}, R), Sound(Now, {}), Fine(Now'), NEW k \in Runs, k \notin R, Settle(k)
  PROVE  Held(Now', {}, R)
<1>1. Become(Report(Now, k)) /\ Now.run[k].pc = "settle"
  BY NowIs DEF Settle
<1>2. Agrees(Now, k)
  BY <1>1, NowIs DEF Agrees, Held, DirectivesEnd, Sound, Placed
<1>3. Held(Report(Now, k), {}, R)
  BY <1>1, <1>2, ReportHeld
<1>. QED
  BY <1>1, <1>3, BecomeHeld

LEMMA LoopEndHeld ==
  ASSUME NEW R, Held(Now, {}, R), Fine(Now'), NEW k \in Runs,
         FinishLoop(k) \/ BreakLoop(k) \/ AbortLoop(k) \/ AbandonBatch(k)
  PROVE  Held(Now', {}, R)
<1>1. Now.run[k].pc = "loop"
  BY NowIs DEF FinishLoop, BreakLoop, AbortLoop, AbandonBatch, Working
<1>2. CASE FinishLoop(k) \/ BreakLoop(k) \/ AbortLoop(k)
  <2>1. PICK outcome \in {"ok", "failed"} : Become(Leave(Now, k, outcome))
    BY <1>2 DEF FinishLoop, BreakLoop, AbortLoop
  <2>2. Free(Now, k)
    BY <1>2, NoBatch DEF FinishLoop, BreakLoop, AbortLoop
  <2>3. Held(Leave(Now, k, outcome), {}, R)
    BY <1>1, <2>2, LeaveHeld
  <2>. QED
    BY <2>1, <2>3, BecomeHeld
<1>3. CASE AbandonBatch(k)
  <2>. DEFINE cs == OpenBatch(k)
              lost == "lost"
              failed == "failed"
              none == {}
              closed == Gated(Now, cs, lost)
  <2>1. Become(Leave(closed, k, failed))
    BY <1>3 DEF AbandonBatch
  <2>2. \A c \in Runs : c \in cs => Now.run[c].pc = "done" \/ ~Now.run[c].linked
    BY <1>3, NowIs DEF AbandonBatch, Settled
  <2>3. \A c \in Runs : Now.run[c].caller = k /\ Now.run[c].gate = "open" => c \in cs
    BY NowIs DEF OpenBatch
  <2>4. /\ lost \in {"none", "open", "committed", "lost"} /\ lost # "open"
        /\ failed \in {"ok", "failed"} /\ Held(Now, none, R)
    OBVIOUS
  <2>. HIDE DEF cs, lost, failed, none
  <2>5. Gates(Now, closed, cs, lost)
    BY <2>4, GatedIs DEF Held
  <2>6. Held(closed, none, R)
    BY <2>2, <2>4, GatedHeld
  <2>. HIDE DEF closed
  <2>7. Free(closed, k)
    <3>. SUFFICES ASSUME NEW t \in Tasks, Asked(closed, t),
                         closed.run[closed.store[t].token].pc # "done",
                         closed.run[closed.store[t].token].caller = k
                  PROVE  FALSE
      BY DEF Free
    <3>. DEFINE j == closed.store[t].token
    <3>1. j \in Runs
      BY <2>6, RunningRow DEF Held, Asked
    <3>2. closed.run[j].gate = "open"
      BY <2>6 DEF Held, Attended
    <3>. QED
      BY <2>3, <2>4, <2>5, <3>1, <3>2 DEF Gates
  <2>8. closed.run[k].pc = "loop"
    BY <1>1, <2>5 DEF Gates
  <2>9. Held(Leave(closed, k, failed), none, R)
    BY <2>4, <2>6, <2>7, <2>8, LeaveHeld DEF none
  <2>. QED
    BY <2>1, <2>9, BecomeHeld DEF none
<1>. QED
  BY <1>2, <1>3

LEMMA CommitBatchHeld ==
  ASSUME NEW R, Held(Now, {}, R), Fine(Now'), NEW k \in Runs, CommitBatch(k)
  PROVE  Held(Now', {}, R)
<1>. DEFINE cs == OpenBatch(k)
            gate == "committed"
            none == {}
            closed == Gated(Now, cs, gate)
            over == {c \in cs : run[c].pc = "done"}
            status == [t \in Tasks |->
                         IF Running(closed, t) THEN Ending(store[t].token) ELSE "none"]
            ts == Current(closed, over)
<1>1. Become(Conclude(closed, ts, status))
  BY DEF CommitBatch
<1>2. \A c \in Runs : c \in cs => Now.run[c].pc = "done" \/ ~Now.run[c].linked
  BY NowIs DEF CommitBatch, Settled
<1>3. \A c \in Runs : c \in over => Now.run[c].pc = "done"
  BY NowIs
<1>4. \A t \in ts : status[t] \in Endings
  BY DEF Current, Ending, Endings
<1>5. gate \in {"none", "open", "committed", "lost"} /\ Held(Now, none, R)
  OBVIOUS
<1>. HIDE DEF cs, gate, none, over, status
<1>6. Gates(Now, closed, cs, gate)
  BY <1>5, GatedIs DEF Held
<1>7. Held(closed, none, R)
  BY <1>2, <1>5, GatedHeld
<1>. HIDE DEF closed
<1>8. \A c \in Runs : c \in over => closed.run[c].pc \notin Busy
  BY <1>3, <1>6 DEF Gates, Busy
<1>9. \A t \in ts : t \in Tasks /\ closed.store[t].token \in Runs /\ Vacant(closed, t, none)
  BY <1>7, <1>8, CurrentVacant
<1>. HIDE DEF ts
<1>10. Held(Conclude(closed, ts, status), none, R)
  BY <1>4, <1>7, <1>9, ConcludeHeld
<1>. QED
  BY <1>1, <1>10, BecomeHeld DEF none

LEMMA CommitMainHeld ==
  ASSUME NEW R, Held(Now, {}, R), Sound(Now, {}), Fine(Now'), NEW k \in Runs, CommitMain(k)
  PROVE  Held(Now', {}, R)
<1>. DEFINE T == [Now EXCEPT !.run[k].gate = "committed"]
            r == run[k]
            g == Shut(r)
            none == {}
<1>1. Become(IF run[k].pc = "done" THEN Publish(T, k) ELSE T) /\ r.how = "main"
  BY DEF CommitMain
<1>2. Fine(Now) /\ r \in RunType /\ k \in DOMAIN run /\ r = Now.run[k]
  BY NowIs DEF Held, Fine, Typed
<1>3. run[k].pc # "unborn" /\ run[k].task \in Tasks
  BY NowIs DEF CommitMain, Sound, Placed
<1>4. Steps(Now, T, k, g) /\ T.run[k] = g
  BY <1>2, NowIs DEF Steps, Shut, RowsStay
<1>5. r.pc = run[k].pc /\ r.task = run[k].task /\ r.how = run[k].how /\ Held(Now, none, R)
  OBVIOUS
<1>. HIDE DEF T, r, none
<1>6. /\ g \in RunType /\ g.pc = r.pc /\ g.task = r.task /\ g.how = r.how
      /\ g.caller = r.caller /\ g.linked = r.linked
  BY <1>2 DEF RunType, Shut
<1>. HIDE DEF g
<1>7. Bears(Now, k, g, none, none, R)
  BY <1>1, <1>2, <1>6 DEF Bears, none
<1>8. Fine(T)
  BY <1>2, <1>3, <1>4, <1>5, <1>6, StepsFine DEF Born
<1>9. T.store = Now.store /\ T.run = [Now.run EXCEPT ![k] = g]
  BY <1>4 DEF Steps, RowsStay
<1>10. Held(T, none, R)
  BY <1>5, <1>7, <1>8, <1>9, RunHeld
<1>11. CASE run[k].pc = "done"
  <2>1. Agrees(T, k) /\ T.run[k].pc = "done"
    BY <1>1, <1>3, <1>4, <1>5, <1>6, <1>11 DEF Agrees
  <2>2. Held(Publish(T, k), none, R)
    BY <1>10, <2>1, PublishHeld DEF none
  <2>. QED
    BY <1>1, <1>11, <2>2, BecomeHeld DEF none
<1>12. CASE run[k].pc # "done"
  BY <1>1, <1>10, <1>12, BecomeHeld DEF none
<1>. QED
  BY <1>11, <1>12

LEMMA ResumeFailsHeld ==
  ASSUME NEW R, Held(Now, {}, R), Fine(Now'), NEW k \in Runs, ResumeFails(k)
  PROVE  Held(Now', {}, R)
<1>. DEFINE pc == "done"
            outcome == "setup"
            T == Ended(Now, k, pc, outcome)
            none == {}
            ks == {k}
<1>1. Become(Finish(T, ks, "error")) /\ Now.run[k].pc = "prep"
  BY NowIs DEF ResumeFails, Ended
<1>2. Enters(Now, k, pc, none, none, R)
  BY <1>1 DEF Enters, Busy
<1>3. /\ pc \in {"loop", "parked", "exit", "settle", "done"} /\ pc = "done"
      /\ outcome \in {"none", "ok", "failed", "setup"} /\ Held(Now, none, R)
      /\ "error" \in Endings
  BY DEF Endings
<1>. HIDE DEF pc, outcome, none
<1>4. Entered(Now, T, k, pc, none, R)
  BY <1>2, <1>3, PcHeld
<1>. HIDE DEF T
<1>5. Held(T, none, R) /\ \A j \in Runs : j \in ks => T.run[j].pc \notin Busy
  BY <1>3, <1>4 DEF Entered, Busy
<1>. HIDE DEF ks
<1>6. Held(Finish(T, ks, "error"), none, R)
  BY <1>3, <1>5, FinishHeld
<1>. QED
  BY <1>1, <1>6, BecomeHeld DEF none

LEMMA EndShellHeld ==
  ASSUME NEW R, Held(Now, {}, R), Fine(Now'), NEW t \in Tasks, NEW status \in Endings,
         EndShell(t, status)
  PROVE  Held(Now', {}, R)
<1>. DEFINE k == store[t].token
            pc == "done"
            outcome == "none"
            T == Moved(Now, k, pc)
            none == {}
            ks == {k}
<1>1. Become(Finish(T, ks, status)) /\ Running(Now, t) /\ ~Agent(Now, t)
  BY DEF EndShell, Moved
<1>2. k \in Runs /\ Now.run[k].pc # "unborn" /\ Process(Now, k)
  BY <1>1, NowIs, RunningRow DEF Held, ShellsRun
<1>3. Enters(Now, k, pc, none, none, R)
  BY <1>2 DEF Enters, Busy, Process
<1>4. /\ pc \in {"loop", "parked", "exit", "settle", "done"} /\ pc = "done"
      /\ outcome \in {"none", "ok", "failed", "setup"} /\ Held(Now, none, R)
  OBVIOUS
<1>. HIDE DEF pc, outcome, none, k
<1>5. Entered(Now, T, k, pc, none, R)
  BY <1>2, <1>3, <1>4, PcHeld
<1>. HIDE DEF T
<1>6. Held(T, none, R) /\ \A j \in Runs : j \in ks => T.run[j].pc \notin Busy
  BY <1>4, <1>5 DEF Entered, Busy
<1>. HIDE DEF ks
<1>7. Held(Finish(T, ks, status), none, R)
  BY <1>6, FinishHeld
<1>. QED
  BY <1>1, <1>7, BecomeHeld DEF none

LEMMA TaskStepHeld ==
  ASSUME {"stop", "taskstop", "close"} \cap Surfaces = {},
         NEW R, Held(Now, {}, R), Fine(Now'), NEW t \in Tasks, TaskStep(t)
  PROVE  Held(Now', {}, R)
<1>1. ~UserStop(t) /\ ~TaskStop(t) /\ ~CloseRow(t)
  BY DEF UserStop, TaskStop, CloseRow
<1>2. CASE ShellExits(t) \/ KillShell(t)
  <2>1. "completed" \in Endings /\ "killed" \in Endings
    BY DEF Endings
  <2>. QED
    BY <1>2, <2>1, EndShellHeld DEF ShellExits, KillShell
<1>3. CASE Evict(t)
  <2>1. Removes /\ ~Running(Now, t) /\ Become(Evicted(Now, {t}))
    BY <1>3 DEF Evict, Removes
  <2>2. Held(Evicted(Now, {t}), {}, R)
    BY <2>1, EvictHeld
  <2>. QED
    BY <2>1, <2>2, BecomeHeld
<1>. QED
  BY <1>1, <1>2, <1>3 DEF TaskStep

LEMMA CancelTurnHeld ==
  ASSUME NEW R, Held(Now, {}, R), Fine(Now'), CancelTurn
  PROVE  Held(Now', {}, R)
<1>1. PICK hit : Become(Abort(Now, hit))
  BY Zenon DEF CancelTurn
<1>2. Held(Abort(Now, hit), {}, R)
  BY AbortHeld
<1>. QED
  BY <1>1, <1>2, BecomeHeld

\* A call that is sent to the background is not waited for any more.
LEMMA DetachHeld ==
  ASSUME NEW R, Held(Now, {}, R), Fine(Now'), NEW k \in Runs, Detach(k)
  PROVE  Held(Now', {}, R)
<1>. DEFINE t == run[k].task
            r == run[k]
            s == store[t]
            row == [s EXCEPT !.mode = "detached", !.bg = TRUE]
            e == [r EXCEPT !.linked = FALSE]
            T == Now'
            none == {}
<1>1. /\ store[t].mode = "linked" /\ Matches(Now, k)
      /\ store' = [store EXCEPT ![t] = row] /\ run' = [run EXCEPT ![k] = e]
  BY DEF Detach
<1>2. store \in [Tasks -> RowShape] /\ run \in [Runs -> RunType] /\ Fine(Now) /\ Held(Now, none, R)
  BY NowIs DEF Held, Fine, Typed
<1>3. r \in RunType /\ r = Now.run[k] /\ r.task = t /\ Now.store[t].token = k
  BY <1>1, <1>2, NowIs DEF Matches
<1>4. ASSUME NEW u \in Tasks, u # t
      PROVE  T.store[u] = Now.store[u] /\ Now.store[u].token # k
  <2>1. T.store[u] = Now.store[u]
    BY <1>1, <1>2, <1>4, NowIs
  <2>2. Now.store[u].token = k => Now.run[k].task = u
    BY <1>2 DEF Fine, Good, TokensAreOwned
  <2>. QED
    BY <1>3, <1>4, <2>1, <2>2
<1>5. t \in Tasks => s \in RowShape /\ s = Now.store[t] /\ T.store[t] = row
  BY <1>1, <1>2, NowIs
<1>6. T.run[k] = e /\ \A j \in Runs : j # k => T.run[j] = Now.run[j]
  BY <1>1, <1>2, NowIs
<1>7. Fine(T) /\ t = Now.run[k].task
  BY NowIs
<1>. HIDE DEF r, s, t, T, none
<1>8. /\ e.task = r.task /\ e.how = r.how /\ e.caller = r.caller /\ e.pc = r.pc
      /\ e.gate = r.gate
  BY <1>3 DEF RunType
<1>9. ASSUME NEW u \in Tasks
      PROVE  (Running(T, u) <=> Running(Now, u)) /\ KeptRow(Now, T, u)
  <2>1. CASE u = t
    <3>1. /\ row.kind = s.kind /\ row.token = s.token /\ row.parent = s.parent
          /\ row.status = s.status /\ row.mode = "detached"
      BY <1>5, <2>1 DEF RowShape
    <3>. HIDE DEF row
    <3>. QED
      BY <1>5, <2>1, <3>1 DEF KeptRow, Running
  <2>2. CASE u # t
    BY <1>4, <2>2 DEF KeptRow, Running
  <2>. QED
    BY <2>1, <2>2
<1>10. ~Owed(T, k)
  <2>. SUFFICES ASSUME NEW u \in Tasks, T.store[u].mode = "linked", T.store[u].token = k
                PROVE  FALSE
    BY DEF Owed, Asked
  <2>1. CASE u = t
    <3>1. row.mode = "detached"
      BY <1>5, <2>1 DEF RowShape
    <3>. QED
      BY <1>5, <2>1, <3>1
  <2>2. CASE u # t
    BY <1>4, <2>2
  <2>. QED
    BY <2>1, <2>2
<1>. HIDE DEF row, e
<1>11. ASSUME NEW j \in Runs
       PROVE  /\ Places(Now, T, none, none, j)
              /\ j \in R => (Now.run[j].pc = "settle" => T.run[j].pc = "settle")
  <2>1. CASE j = k
    BY <1>3, <1>6, <1>8, <1>10, <2>1 DEF Places, Process
  <2>2. CASE j # k
    BY <1>6, <2>2 DEF Places, Process
  <2>. QED
    BY <2>1, <2>2
<1>12. Gently(Now, T, none, none, R)
  BY <1>9, <1>11 DEF Gently
<1>13. Held(T, none, R)
  BY <1>2, <1>7, <1>12, HeldGently
<1>. QED
  BY <1>13 DEF T, none

\* A run begins in a row that nobody works in, and its caller is in its loop.
BeginsWell(t, k, row, e) ==
  /\ run[k].pc = "unborn" /\ ~Running(Now, t)
  /\ store' = [store EXCEPT ![t] = row] /\ run' = [run EXCEPT ![k] = e]
  /\ row.status = "running" /\ row.token = k
  /\ e.task = t /\ e.pc \in {"launch", "prep", "proc"}
  /\ row.kind # "agent" => e.pc = "proc"
  /\ row.mode = "linked" /\ row.parent # Main =>
       /\ e.how = "nested" /\ e.gate = "open" /\ e.linked /\ e.caller \in Runs
       /\ run[e.caller].pc = "loop" /\ run[e.caller].task = row.parent

LEMMA BeginsHeld ==
  ASSUME NEW R, Held(Now, {}, R), Fine(Now'), NEW t \in Tasks, NEW k \in Runs, NEW row, NEW e,
         BeginsWell(t, k, row, e)
  PROVE  Held(Now', {}, R)
<1>. DEFINE T == Now'
<1>1. /\ Fine(Now) /\ Seated(Now, {}) /\ Attended(Now) /\ ShellsRun(Now)
      /\ DirectivesEnd(Now, {}) /\ Rest(Now, R)
  BY DEF Held
<1>2. Now.store \in [Tasks -> RowShape] /\ Now.run \in [Runs -> RunType]
  BY <1>1 DEF Fine, Typed
<1>3. /\ T.store[t] = row /\ \A u \in Tasks : u # t => T.store[u] = Now.store[u]
      /\ T.run[k] = e /\ \A j \in Runs : j # k => T.run[j] = Now.run[j]
  BY <1>2, NowIs DEF BeginsWell
<1>4. /\ Now.run[k].pc = "unborn" /\ ~Running(Now, t)
      /\ row.status = "running" /\ row.token = k
      /\ e.task = t /\ e.pc \in {"launch", "prep", "proc"}
      /\ row.kind # "agent" => e.pc = "proc"
      /\ row.mode = "linked" /\ row.parent # Main =>
           /\ e.how = "nested" /\ e.gate = "open" /\ e.linked /\ e.caller \in Runs
           /\ Now.run[e.caller].pc = "loop" /\ Now.run[e.caller].task = row.parent
  BY NowIs DEF BeginsWell
<1>5. Fine(T)
  OBVIOUS
<1>. HIDE DEF T
<1>6. ASSUME NEW u \in Tasks, u # t, Running(T, u)
      PROVE  /\ Running(Now, u) /\ T.store[u] = Now.store[u]
             /\ Now.store[u].token \in Runs /\ Now.store[u].token # k
  <2>1. Running(Now, u) /\ T.store[u] = Now.store[u]
    BY <1>3, <1>6 DEF Running
  <2>. QED
    BY <1>1, <1>4, <2>1, RunningRow
<1>7. Seated(T, {})
  <2>. SUFFICES ASSUME NEW j \in Runs, T.run[j].pc \in Busy
                PROVE  LET u == T.run[j].task IN
                       u \in Tasks /\ T.store[u].token = j /\ Running(T, u)
    BY DEF Seated
  <2>1. CASE j = k
    BY <1>3, <1>4, <2>1 DEF Running
  <2>2. CASE j # k
    <3>. DEFINE u == Now.run[j].task
    <3>1. u \in Tasks /\ Now.store[u].token = j /\ Running(Now, u)
      BY <1>1, <1>3, <2>2 DEF Seated
    <3>2. u # t
      BY <1>4, <3>1
    <3>. QED
      BY <1>3, <2>2, <3>1, <3>2 DEF Running
  <2>. QED
    BY <2>1, <2>2
<1>8. Attended(T)
  <2>. SUFFICES ASSUME NEW u \in Tasks, Asked(T, u)
                PROVE  LET r == T.run[T.store[u].token] IN
                       /\ r.how = "nested"
                       /\ r.pc # "done" => r.gate = "open" /\ r.linked /\ Attends(T, r.caller, u)
    BY DEF Attended
  <2>1. CASE u = t
    BY <1>3, <1>4, <2>1 DEF Asked, Attends
  <2>2. CASE u # t
    <3>. DEFINE j == Now.store[u].token
    <3>1. T.run[j] = Now.run[j] /\ T.store[u] = Now.store[u] /\ Asked(Now, u)
      BY <1>3, <1>6, <2>2 DEF Asked
    <3>2. /\ Now.run[j].how = "nested"
          /\ Now.run[j].pc # "done" =>
               Now.run[j].gate = "open" /\ Now.run[j].linked /\ Attends(Now, Now.run[j].caller, u)
      BY <1>1, <3>1 DEF Attended
    <3>3. Attends(Now, Now.run[j].caller, u) => Attends(T, Now.run[j].caller, u)
      BY <1>3, <1>4, <3>1 DEF Attends
    <3>. QED
      BY <3>1, <3>2, <3>3
  <2>. QED
    BY <2>1, <2>2
<1>9. ShellsRun(T)
  <2>. SUFFICES ASSUME NEW u \in Tasks, Running(T, u), ~Agent(T, u)
                PROVE  Process(T, T.store[u].token)
    BY DEF ShellsRun
  <2>1. CASE u = t
    BY <1>3, <1>4, <2>1 DEF Agent, Process
  <2>2. CASE u # t
    BY <1>1, <1>3, <1>6, <2>2 DEF ShellsRun, Agent, Process
  <2>. QED
    BY <2>1, <2>2
<1>10. DirectivesEnd(T, {}) /\ Rest(T, R)
  BY <1>1, <1>3, <1>4 DEF DirectivesEnd, Rest
<1>11. Held(T, {}, R)
  BY <1>5, <1>7, <1>8, <1>9, <1>10 DEF Held
<1>. QED
  BY <1>11 DEF T

LEMMA LaunchHeld ==
  ASSUME NEW R, Held(Now, {}, R), Fine(Now'), NEW t \in Tasks, NEW k \in Runs, NEW kind, NEW mode,
         NEW bg, NEW owner, NEW parent, NEW how, NEW pc, NEW caller, NEW gate,
         Launch(t, k, Row(kind, k, mode, bg, owner, parent), Execution(t, how, pc, caller, gate)),
         pc \in {"launch", "proc"}, kind # "agent" => pc = "proc",
         mode = "linked" /\ parent # Main =>
           /\ how = "nested" /\ gate = "open" /\ caller \in Runs
           /\ run[caller].pc = "loop" /\ run[caller].task = parent
  PROVE  Held(Now', {}, R)
<1>. DEFINE row == Row(kind, k, mode, bg, owner, parent)
            e == Execution(t, how, pc, caller, gate)
<1>1. /\ row.token = k /\ row.mode = mode /\ row.kind = kind /\ row.status = "running"
      /\ row.parent = parent
  BY DEF Row
<1>2. /\ e.task = t /\ e.pc = pc /\ e.how = how /\ e.caller = caller /\ e.gate = gate
      /\ e.linked = (caller # NoRun)
  BY DEF Execution
<1>3. Launch(t, k, row, e)
  OBVIOUS
<1>. HIDE DEF row, e
<1>4. BeginsWell(t, k, row, e)
  BY <1>1, <1>2, <1>3, NoRunIsNone, NowIs DEF BeginsWell, Launch, Fresh, Running
<1>. QED
  BY <1>4, BeginsHeld

LEMMA StartHeld ==
  ASSUME NEW R, Held(Now, {}, R), Fine(Now'), NEW t \in Tasks, NEW k \in Runs, Start(t, k)
  PROVE  Held(Now', {}, R)
<1>0. store \in [Tasks -> RowShape]
  BY NowIs DEF Held, Fine, Typed
<1>1. CASE StartMain(t, k)
  BY <1>1, LaunchHeld DEF StartMain
<1>2. CASE StartDirective(t, k)
  BY <1>2, LaunchHeld DEF StartDirective
<1>3. ASSUME NEW p \in Runs, StartNested(p, t, k)
      PROVE  Held(Now', {}, R)
  <2>. DEFINE parent == IF run[p].how = "view" THEN Main ELSE run[p].task
  <2>1. /\ parent # Main => run[p].task = parent
        /\ run[p].pc = "loop"
        /\ Launch(t, k, Row("agent", k, "linked", TRUE, run[p].task, parent),
                  Execution(t, "nested", "launch", p, "open"))
    BY <1>3 DEF StartNested, Working
  <2>. HIDE DEF parent
  <2>. QED
    BY <2>1, LaunchHeld
<1>4. ASSUME NEW p \in Runs \cup {NoRun}, StartShell(p, t, k)
      PROVE  Held(Now', {}, R)
  <2>. DEFINE owner == IF p = NoRun THEN Main ELSE run[p].task
  <2>1. Launch(t, k, Row("shell", k, "detached", TRUE, owner, Main),
                  Execution(t, "shell", "proc", NoRun, "none"))
    BY <1>4 DEF StartShell
  <2>. HIDE DEF owner
  <2>. QED
    BY <2>1, LaunchHeld
<1>5. ASSUME NEW how, NEW row, run' = [run EXCEPT ![k] = Execution(t, how, "prep", NoRun, "none")],
             store' = [store EXCEPT ![t] = row], Fresh(k), ~Running(Now, t),
             row.status = "running", row.token = k, row.kind = "agent", row.mode = "detached"
      PROVE  Held(Now', {}, R)
  <2>. DEFINE e == Execution(t, how, "prep", NoRun, "none")
  <2>1. e.task = t /\ e.pc = "prep"
    BY DEF Execution
  <2>2. run' = [run EXCEPT ![k] = e]
    BY <1>5
  <2>. HIDE DEF e
  <2>3. BeginsWell(t, k, row, e)
    BY <1>5, <2>1, <2>2 DEF BeginsWell, Fresh
  <2>. QED
    BY <2>3, BeginsHeld
<1>6. ASSUME store[t].kind = "agent"
      PROVE  LET new == Reopened(store[t], k) IN
             /\ new.status = "running" /\ new.token = k /\ new.kind = "agent"
             /\ new.mode = "detached" /\ new \in RowShape
  <2>. DEFINE old == store[t]
  <2>1. old \in RowShape /\ old.kind = "agent"
    BY <1>0, <1>6
  <2>. HIDE DEF old
  <2>2. IsReopened(old, k, Reopened(old, k))
    BY <2>1, ReopenedIs
  <2>3. Reopened(old, k).mode = "detached"
    BY <2>1 DEF Reopened, RowShape
  <2>. QED
    BY <2>2, <2>3 DEF IsReopened, old
<1>7. CASE SendMessage(t, k)
  <2>. DEFINE new == Reopened(store[t], k)
              row == [new EXCEPT !.bg = TRUE, !.owner = OwnerAfterResume(t)]
  <2>1. /\ run' = [run EXCEPT ![k] = Execution(t, "send", "prep", NoRun, "none")]
        /\ store' = [store EXCEPT ![t] = row] /\ Fresh(k) /\ ~Running(Now, t)
        /\ store[t].kind = "agent"
    BY <1>7, NowIs DEF SendMessage, Running, Agent
  <2>2. /\ new.status = "running" /\ new.token = k /\ new.kind = "agent"
        /\ new.mode = "detached" /\ new \in RowShape
    BY <1>6, <2>1
  <2>. HIDE DEF new
  <2>3. row.status = "running" /\ row.token = k /\ row.kind = "agent" /\ row.mode = "detached"
    BY <2>2 DEF RowShape
  <2>. HIDE DEF row
  <2>. QED
    BY <1>5, <2>1, <2>3
<1>8. CASE ViewResume(t, k)
  <2>. DEFINE row == Reopened(store[t], k)
  <2>1. /\ run' = [run EXCEPT ![k] = Execution(t, "view", "prep", NoRun, "none")]
        /\ store' = [store EXCEPT ![t] = row] /\ Fresh(k) /\ ~Running(Now, t)
        /\ store[t].kind = "agent"
    BY <1>8, NowIs DEF ViewResume, Agent
  <2>2. row.status = "running" /\ row.token = k /\ row.kind = "agent" /\ row.mode = "detached"
    BY <1>6, <2>1
  <2>. HIDE DEF row
  <2>. QED
    BY <1>5, <2>1, <2>2
<1>. QED
  BY <1>1, <1>2, <1>3, <1>4, <1>7, <1>8 DEF Start

LEMMA RunStepHeld ==
  ASSUME NEW R, Held(Now, {}, R), Sound(Now, {}), Fine(Now'), NEW k \in Runs, RunStep(k),
         Settle(k) => k \notin R
  PROVE  Held(Now', {}, R)
<1>1. CASE \/ Register(k) \/ Park(k) \/ WakeAborted(k) \/ Steer(k)
           \/ StartSent(k) \/ StartViewed(k)
  BY <1>1, AwaitHeld
<1>2. CASE FinishLoop(k) \/ BreakLoop(k) \/ AbortLoop(k) \/ AbandonBatch(k)
  BY <1>2, LoopEndHeld
<1>3. CASE TakeForOwner(k)
  BY <1>3, ReadsHeld
<1>4. CASE CommitBatch(k) \/ CommitMain(k)
  BY <1>4, CommitBatchHeld, CommitMainHeld
<1>5. CASE Unwind(k) \/ LaunchFails(k) \/ ResumeFails(k)
  BY <1>5, UnwindHeld, LaunchFailsHeld, ResumeFailsHeld
<1>6. CASE Settle(k) \/ Detach(k)
  BY <1>6, SettleHeld, DetachHeld
<1>. QED
  BY <1>1, <1>2, <1>3, <1>4, <1>5, <1>6 DEF RunStep

LEMMA StepKeepsHeld ==
  ASSUME {"stop", "taskstop", "close"} \cap Surfaces = {},
         NEW R, Held(Now, {}, R), Sound(Now, {}), Fine(Now'), [Next]_vars,
         \A k \in Runs : k \in R => ~Settle(k)
  PROVE  Held(Now', {}, R)
<1>1. CASE UNCHANGED vars
  <2>1. Become(Now)
    BY <1>1, NowIs DEF Become, vars
  <2>. QED
    BY <2>1, BecomeHeld
<1>2. CASE DrainMain
  BY <1>2, ReadsHeld
<1>3. CASE CancelTurn
  BY <1>3, CancelTurnHeld
<1>4. CASE \E t \in Tasks, k \in Runs : Start(t, k)
  BY <1>4, StartHeld
<1>5. CASE \E k \in Runs : RunStep(k)
  BY <1>5, RunStepHeld
<1>6. CASE \E t \in Tasks : TaskStep(t)
  BY <1>6, TaskStepHeld
<1>. QED
  BY <1>1, <1>2, <1>3, <1>4, <1>5, <1>6 DEF Next

LEMMA InitHeld ==
  ASSUME Init, Fine(Now)
  PROVE  Held(Now, {}, {})
<1>1. ASSUME NEW t \in Tasks PROVE ~Running(Now, t)
  BY NowIs DEF Init, Row, Running
<1>2. ASSUME NEW k \in Runs PROVE Now.run[k].pc = "unborn"
  BY NowIs DEF Init, Execution
<1>. QED
  BY <1>1, <1>2 DEF Held, Seated, Attended, Asked, ShellsRun, DirectivesEnd, Rest, Busy

LEMMA HeldInvariant ==
  ASSUME {"stop", "taskstop", "close"} \cap Surfaces = {}
  PROVE  Spec => [](Sound(Now, {}) /\ Held(Now, {}, {}))
<1>1. Init => Sound(Now, {}) /\ Held(Now, {}, {})
  <2>1. Init => Sound(Now, {})
    BY InitSound
  <2>. QED
    BY <2>1, InitHeld DEF Sound
<1>2. Sound(Now, {}) /\ Held(Now, {}, {}) /\ [Next]_vars => (Sound(Now, {}) /\ Held(Now, {}, {}))'
  <2>1. Sound(Now, {}) /\ [Next]_vars => Sound(Now', {})
    BY StepKeepsSound
  <2>2. Sound(Now, {}) /\ Held(Now, {}, {}) /\ [Next]_vars /\ Fine(Now') => Held(Now', {}, {})
    BY StepKeepsHeld
  <2>. QED
    BY <2>1, <2>2 DEF Sound
<1>. QED
  BY <1>1, <1>2, PTL DEF Spec

\* The report of a run that its row has left behind finds no row to end.
LEMMA StaleReport ==
  ASSUME Held(Now, {}, {}), Sound(Now, {}), NEW k \in Runs, Settle(k),
         store[run[k].task].token # k
  PROVE  store'[run[k].task] = store[run[k].task]
<1>. DEFINE t == run[k].task
            over == [Now EXCEPT !.run[k].pc = "done",
                                !.run[k].linked = FALSE,
                                !.ctl[t] = IF @ = k THEN NoRun ELSE @]
            e == [run[k] EXCEPT !.pc = "done", !.linked = FALSE]
            ks == {k}
<1>1. Become(Report(Now, k)) /\ run[k].pc = "settle"
  BY DEF Settle
<1>2. Report(Now, k) = IF run[k].gate \in {"none", "committed"} THEN Publish(over, k) ELSE over
  BY DEF Report
<1>3. t \in Tasks /\ run[k].how # "directive" /\ run[k] \in RunType /\ run \in [Runs -> RunType]
  BY <1>1, NowIs DEF Sound, Placed, Held, DirectivesEnd, Fine, Typed
<1>4. over.store = store /\ over.run = [run EXCEPT ![k] = e] /\ "store" \in DOMAIN over
  BY NowIs
<1>5. e.task = t
  BY <1>3 DEF RunType
<1>. HIDE DEF over, e
<1>6. over.run[k].task = t
  BY <1>3, <1>4, <1>5
<1>7. ~Matches(over, k)
  BY <1>4, <1>6 DEF Matches
<1>8. t \notin Current(over, ks)
  BY <1>4 DEF Current
<1>9. Publish(over, k) = over \/ Publish(over, k) = Finish(over, ks, Ending(k))
  BY <1>3, <1>7 DEF Publish, CancelTaskTree
<1>10. Finish(over, ks, Ending(k)).store[t] = over.store[t]
  <2>. DEFINE ts == Current(over, ks)
  <2>1. t \notin ts
    BY <1>8
  <2>. HIDE DEF ts
  <2>2. ASSUME NEW status
        PROVE  Conclude(over, ts, status).store[t] = over.store[t]
    BY <1>3, <1>4, <2>1 DEF Conclude
  <2>. QED
    BY <2>2 DEF Finish, ts
<1>11. Report(Now, k).store[t] = store[t]
  BY <1>2, <1>4, <1>9, <1>10
<1>. QED
  BY <1>1, <1>11 DEF Become

\* A run that leaves its loop leaves for its own row, and one that settles after its task
\* was resumed, or its row has left the store, does nothing to the row of the later run:
\* a message or the view resumes a task only once nobody works in its row.  That holds
\* where no row is stopped or closed; a stop ends the row before its run has unwound, and
\* the cancel of the tree names the task, not the run.
THEOREM StaleRunsDoNothing ==
  ASSUME {"stop", "taskstop", "close"} \cap Surfaces = {}
  PROVE  Spec => StaleRunsArePowerless
<1>1. /\ Sound(Now, {}) /\ Held(Now, {}, {}) /\ (Sound(Now, {}) /\ Held(Now, {}, {}))' /\ [Next]_vars
      => [\A k \in Runs : run[k].pc \in {"exit", "settle"} /\ run'[k].pc # run[k].pc =>
            LET t == run[k].task IN store[t].token # k => store'[t] = store[t]]_vars
  <2>. SUFFICES ASSUME Sound(Now, {}), Held(Now, {}, {}), Fine(Now'), [Next]_vars,
                       NEW k \in Runs, run[k].pc \in {"exit", "settle"}, run'[k].pc # run[k].pc,
                       store[run[k].task].token # k
                PROVE  store'[run[k].task] = store[run[k].task]
    BY DEF Sound
  <2>1. run[k].pc = "settle"
    BY NowIs DEF Held, Seated, Busy
  <2>2. CASE Settle(k)
    BY <2>2, StaleReport
  <2>3. CASE ~Settle(k)
    <3>1. Held(Now, {}, {k})
      BY <2>1, NowIs DEF Held, Rest
    <3>2. Held(Now', {}, {k})
      BY <2>3, <3>1, StepKeepsHeld
    <3>3. Now'.run[k].pc = "settle"
      BY <3>2 DEF Held, Rest
    <3>. QED
      BY <2>1, <3>3, NowIs
  <2>. QED
    BY <2>2, <2>3
<1>. QED
  BY <1>1, HeldInvariant, PTL DEF Spec, StaleRunsArePowerless

==============================================================================
