------------------------ MODULE BackgroundTasks_proofs ------------------------
(***************************************************************************)
(* Each run tells once, for every number of tasks and runs, every tree of  *)
(* them, and every order in which they are stopped, detached, resumed and  *)
(* closed; and what it told goes forward only.                             *)
(***************************************************************************)
EXTENDS BackgroundTasks, TLAPS

Shape(S) ==
  /\ {"store", "run", "ctl", "queue", "posted"} \subseteq DOMAIN S
  /\ DOMAIN S.store = Tasks /\ DOMAIN S.run = Runs
  /\ \A t \in Tasks :
       /\ {"kind", "status", "term", "notified", "token", "gen"} \subseteq DOMAIN S.store[t]
       /\ S.store[t].notified \in BOOLEAN
       /\ S.store[t].token \in Runs \cup {NoRun}
  /\ \A k \in Runs : {"task", "pc"} \subseteq DOMAIN S.run[k]
  /\ \A e \in S.queue : {"token", "private", "key"} \subseteq DOMAIN e

\* A token belongs to the one row of its run, and to none before it is minted.
TokensAreOwned(S) ==
  \A t \in Tasks : S.store[t].token \in Runs =>
    /\ S.run[S.store[t].token].task = t
    /\ S.run[S.store[t].token].pc # "unborn"

PostedRan(S) == \A k \in Runs : k \in S.posted => S.run[k].pc # "unborn"

RunsAreFresh(S) ==
  \A t \in Tasks : S.store[t].status = "running" =>
    /\ S.store[t].token \in Runs
    /\ S.store[t].term = "pending"
    /\ ~S.store[t].notified

\* A row that was not told of its run has posted nothing for it.
UntoldIsUnposted(S) ==
  \A t \in Tasks : ~S.store[t].notified /\ S.store[t].token \in Runs =>
    S.store[t].token \notin S.posted

Good(S) ==
  Shape(S) /\ TokensAreOwned(S) /\ PostedRan(S) /\ RunsAreFresh(S) /\ UntoldIsUnposted(S)

\* Rows may leave the store in this instance.
Removes == {"evict", "close"} \cap Surfaces # {}

\* What the calls of the store may do to the runs, the rows, the history and the
\* queue, but for the start of a run.
KeepsRuns(S, T) ==
  \A k \in Runs : /\ T.run[k].task = S.run[k].task
                  /\ T.run[k].pc = "unborn" <=> S.run[k].pc = "unborn"

KeepsRows(S, T) ==
  \A t \in Tasks :
    /\ T.store[t].token \in {S.store[t].token, NoRun}
    /\ ~Removes => T.store[t].token = S.store[t].token /\ T.store[t].gen = S.store[t].gen
    /\ T.store[t].status = "unborn" => S.store[t].status = "unborn"
    /\ T.store[t].status = "running" =>
         /\ S.store[t].status = "running"
         /\ T.store[t].token = S.store[t].token
         /\ S.store[t].term = "pending" => T.store[t].term = "pending"
         /\ T.store[t].notified = S.store[t].notified
    /\ ~T.store[t].notified => T.store[t].token = NoRun \/ ~S.store[t].notified

PostsOnce(S, T) ==
  /\ S.posted \subseteq T.posted
  /\ \A k \in Runs : k \in T.posted /\ k \notin S.posted =>
       \E t \in Tasks : /\ S.store[t].token = k
                        /\ ~S.store[t].notified
                        /\ T.store[t].notified \/ T.store[t].token = NoRun

QueuesForward(S, T) ==
  \A e \in T.queue : e.token \in Runs =>
    \/ e.token \notin S.posted
    \/ \E f \in S.queue : f.token = e.token /\ f.key = e.key /\ (e.private => f.private)

Leads(S, T) ==
  Shape(T) /\ KeepsRuns(S, T) /\ KeepsRows(S, T) /\ PostsOnce(S, T) /\ QueuesForward(S, T)

-----------------------------------------------------------------------------
(* Calls compose, and keep what is good.                                    *)

LEMMA NoRunIsNone == NoRun \notin Runs
BY DEF NoRun, Runs

LEMMA LeadsKeepsGood ==
  ASSUME NEW S, NEW T, Good(S), Leads(S, T)
  PROVE  Good(T)
<1>. USE NoRunIsNone DEF Good, Leads
<1>1. Shape(T)
  OBVIOUS
<1>2. TokensAreOwned(T)
  BY DEF TokensAreOwned, KeepsRows, KeepsRuns
<1>3. PostedRan(T)
  BY DEF PostedRan, PostsOnce, KeepsRuns, TokensAreOwned
<1>4. RunsAreFresh(T)
  BY DEF RunsAreFresh, KeepsRows
<1>5. UntoldIsUnposted(T)
  <2>. SUFFICES ASSUME NEW t \in Tasks, ~T.store[t].notified, T.store[t].token \in Runs,
                       T.store[t].token \in T.posted
                PROVE  FALSE
    BY DEF UntoldIsUnposted
  <2>1. S.store[t].token = T.store[t].token /\ ~S.store[t].notified
    BY DEF KeepsRows
  <2>2. T.store[t].token \notin S.posted
    BY <2>1 DEF UntoldIsUnposted
  <2>3. PICK u \in Tasks : /\ S.store[u].token = T.store[t].token
                           /\ T.store[u].notified \/ T.store[u].token = NoRun
    BY <2>2 DEF PostsOnce
  <2>4. u = t
    BY <2>1, <2>3 DEF TokensAreOwned
  <2>. QED
    BY <2>3, <2>4
<1>. QED
  BY <1>1, <1>2, <1>3, <1>4, <1>5

LEMMA LeadsOn ==
  ASSUME NEW S, NEW T, NEW U, Leads(S, T), Leads(T, U)
  PROVE  Leads(S, U)
<1>. USE NoRunIsNone DEF Leads
<1>1. KeepsRuns(S, U)
  BY DEF KeepsRuns
<1>2. KeepsRows(S, U)
  BY DEF KeepsRows
<1>3. PostsOnce(S, U)
  <2>1. ASSUME NEW k \in Runs, k \in U.posted, k \notin S.posted
        PROVE  \E t \in Tasks : /\ S.store[t].token = k
                                /\ ~S.store[t].notified
                                /\ U.store[t].notified \/ U.store[t].token = NoRun
    <3>1. CASE k \in T.posted
      BY <2>1, <3>1 DEF PostsOnce, KeepsRows
    <3>2. CASE k \notin T.posted
      BY <2>1, <3>2 DEF PostsOnce, KeepsRows
    <3>. QED
      BY <3>1, <3>2
  <2>. QED
    BY <2>1 DEF PostsOnce
<1>4. QueuesForward(S, U)
  BY DEF QueuesForward, PostsOnce
<1>. QED
  BY <1>1, <1>2, <1>3, <1>4

LEMMA Composed ==
  ASSUME NEW S, NEW T, NEW U, Good(S), Leads(S, T), Good(T) => Leads(T, U)
  PROVE  Leads(S, U) /\ Good(U)
BY LeadsKeepsGood, LeadsOn

\* A call that only moves runs along.
LEMMA RunsOnly ==
  ASSUME NEW S, NEW T, Good(S), Shape(T), KeepsRuns(S, T),
         T.store = S.store, T.queue = S.queue, T.posted = S.posted
  PROVE  Leads(S, T)
BY DEF Leads, KeepsRows, PostsOnce, QueuesForward

LEMMA SameLeads ==
  ASSUME NEW S, Good(S)
  PROVE  Leads(S, S)
BY RunsOnly DEF Good, KeepsRuns

-----------------------------------------------------------------------------
(* The calls of the store.                                                  *)

LEMMA ConcludeLeads ==
  ASSUME NEW S, Good(S), NEW ts \in SUBSET Tasks, NEW status,
         \A t \in ts : status[t] \notin {"running", "unborn"}
  PROVE  Leads(S, Conclude(S, ts, status))
<1>. DEFINE told == {t \in ts : Notifies(S, t)}
            T == Conclude(S, ts, status)
<1>1. /\ DOMAIN T = DOMAIN S
      /\ T.store = [t \in Tasks |->
            IF t \notin ts THEN S.store[t]
            ELSE IF Answers(S, t)
                 THEN [S.store[t] EXCEPT !.status = status[t], !.term = "parent", !.notified = TRUE]
            ELSE IF t \in told
                 THEN [S.store[t] EXCEPT !.status = status[t], !.notified = TRUE,
                                   !.term = IF Private(S, t) THEN "owner" ELSE "main"]
            ELSE [S.store[t] EXCEPT !.status = status[t]]]
      /\ T.queue = {e \in S.queue : ~\E t \in told : e.key = KeyOf(S, t)}
                     \cup {Notice(S, t) : t \in told}
      /\ T.run = [k \in Runs |->
            IF S.run[k].pc = "parked"
               /\ \E t \in told : Private(S, t) /\ S.store[t].owner = S.run[k].task
            THEN [S.run[k] EXCEPT !.pc = "loop"] ELSE S.run[k]]
      /\ T.posted = S.posted \cup {S.store[t].token : t \in told}
  BY DEF Conclude, Good, Shape
<1>2. told \subseteq ts /\ \A t \in told : ~S.store[t].notified /\ ~Answers(S, t)
  BY DEF Notifies
<1>. HIDE DEF T, told
<1>3. ASSUME NEW t \in Tasks
      PROVE  /\ DOMAIN T.store[t] = DOMAIN S.store[t]
             /\ T.store[t].token = S.store[t].token /\ T.store[t].gen = S.store[t].gen
             /\ T.store[t].notified \in BOOLEAN
             /\ S.store[t].notified => T.store[t].notified
             /\ t \in told => T.store[t].notified
             /\ t \notin ts => T.store[t] = S.store[t]
             /\ t \in ts => T.store[t].status \notin {"running", "unborn"}
  <2>1. /\ {"status", "term", "notified", "token", "gen"} \subseteq DOMAIN S.store[t]
        /\ S.store[t].notified \in BOOLEAN
    BY DEF Good, Shape
  <2>2. CASE t \notin ts
    BY <1>1, <1>2, <2>1, <2>2
  <2>3. CASE t \in ts
    <3>1. CASE Answers(S, t)
      <4>1. T.store[t] = [S.store[t] EXCEPT !.status = status[t], !.term = "parent",
                                            !.notified = TRUE]
        BY <1>1, <2>3, <3>1
      <4>. QED
        BY <2>1, <2>3, <4>1
    <3>2. CASE t \in told
      <4>1. PICK term : T.store[t] = [S.store[t] EXCEPT !.status = status[t],
                                        !.notified = TRUE, !.term = term]
        BY <1>1, <1>2, <2>3, <3>2
      <4>. QED
        BY <2>1, <2>3, <4>1
    <3>3. CASE t \notin told /\ ~Answers(S, t)
      <4>1. T.store[t] = [S.store[t] EXCEPT !.status = status[t]]
        BY <1>1, <2>3, <3>3
      <4>. QED
        BY <2>1, <2>3, <3>3, <4>1
    <3>. QED
      BY <3>1, <3>2, <3>3
  <2>. QED
    BY <2>2, <2>3
<1>. DEFINE Noticed == \A e \in T.queue : e \in S.queue \/ \E t \in told : e = Notice(S, t)
<1>4. Noticed
  BY <1>1
<1>5. ASSUME NEW k \in Runs
      PROVE  /\ DOMAIN T.run[k] = DOMAIN S.run[k] /\ T.run[k].task = S.run[k].task
             /\ T.run[k].pc = "unborn" <=> S.run[k].pc = "unborn"
  <2>1. \/ T.run[k] = S.run[k]
        \/ S.run[k].pc = "parked" /\ T.run[k] = [S.run[k] EXCEPT !.pc = "loop"]
    BY <1>1, Zenon
  <2>. QED
    BY <2>1 DEF Good, Shape
<1>6. Shape(T)
  <2>1. \A e \in T.queue : {"token", "private", "key"} \subseteq DOMAIN e
    BY <1>4 DEF Notice, Good, Shape
  <2>2. DOMAIN T.store = Tasks /\ DOMAIN T.run = Runs
    BY <1>1
  <2>3. ASSUME NEW t \in Tasks
        PROVE  /\ {"kind", "status", "term", "notified", "token", "gen"} \subseteq DOMAIN T.store[t]
               /\ T.store[t].notified \in BOOLEAN
               /\ T.store[t].token \in Runs \cup {NoRun}
    BY <1>3 DEF Good, Shape
  <2>4. \A k \in Runs : {"task", "pc"} \subseteq DOMAIN T.run[k]
    BY <1>5 DEF Good, Shape
  <2>5. {"store", "run", "ctl", "queue", "posted"} \subseteq DOMAIN T
    BY <1>1 DEF Good, Shape
  <2>. QED
    BY <2>1, <2>2, <2>3, <2>4, <2>5 DEF Shape
<1>7. KeepsRuns(S, T)
  BY <1>5 DEF KeepsRuns
<1>8. KeepsRows(S, T)
  BY <1>3 DEF KeepsRows, Good, Shape
<1>9. PostsOnce(S, T)
  <2>1. ASSUME NEW k \in Runs, k \in T.posted, k \notin S.posted
        PROVE  \E t \in Tasks : /\ S.store[t].token = k
                                /\ ~S.store[t].notified
                                /\ T.store[t].notified
    <3>1. PICK t \in told : S.store[t].token = k
      BY <1>1, <2>1
    <3>. QED
      BY <1>2, <1>3, <3>1
  <2>. QED
    BY <1>1, <2>1 DEF PostsOnce
<1>10. QueuesForward(S, T)
  <2>1. ASSUME NEW t \in told, S.store[t].token \in Runs
        PROVE  S.store[t].token \notin S.posted
    BY <1>2, <2>1 DEF Good, UntoldIsUnposted
  <2>2. \A t \in told : Notice(S, t).token = S.store[t].token
    BY DEF Notice
  <2>3. ASSUME NEW e \in T.queue, e.token \in Runs
        PROVE  e.token \notin S.posted \/ e \in S.queue
    BY <1>4, <2>1, <2>2, <2>3
  <2>4. ASSUME NEW e \in S.queue
        PROVE  \E f \in S.queue : f.token = e.token /\ f.key = e.key /\ (e.private => f.private)
    BY <2>4, Zenon
  <2>. QED
    BY <2>3, <2>4 DEF QueuesForward
<1>. QED
  BY <1>6, <1>7, <1>8, <1>9, <1>10 DEF Leads, T

LEMMA FinishLeads ==
  ASSUME NEW S, Good(S), NEW ks, NEW status, status \notin {"running", "unborn"}
  PROVE  Leads(S, Finish(S, ks, status))
BY ConcludeLeads DEF Finish, Current

\* What a call does to the runs alone.
LEMMA RunsMoved ==
  ASSUME NEW S, Good(S), NEW T, DOMAIN T = DOMAIN S, DOMAIN T.run = Runs,
         T.store = S.store, T.queue = S.queue, T.posted = S.posted,
         \A k \in Runs : /\ {"task", "pc"} \subseteq DOMAIN T.run[k]
                         /\ T.run[k].task = S.run[k].task
                         /\ T.run[k].pc = "unborn" <=> S.run[k].pc = "unborn"
  PROVE  Leads(S, T)
<1>1. Shape(T)
  BY DEF Good, Shape
<1>. QED
  BY <1>1, RunsOnly DEF KeepsRuns

\* One run that has begun goes on.
LEMMA RunMoves ==
  ASSUME NEW S, Good(S), NEW T, DOMAIN T = DOMAIN S, NEW k \in Runs, NEW e,
         T.store = S.store, T.queue = S.queue, T.posted = S.posted,
         T.run = [S.run EXCEPT ![k] = e],
         {"task", "pc"} \subseteq DOMAIN e, e.task = S.run[k].task,
         e.pc # "unborn", S.run[k].pc # "unborn"
  PROVE  Leads(S, T)
<1>1. DOMAIN T.run = Runs /\ T.run[k] = e /\ \A j \in Runs \ {k} : T.run[j] = S.run[j]
  BY DEF Good, Shape
<1>. QED
  BY <1>1, RunsMoved DEF Good, Shape

LEMMA AbortLeads ==
  ASSUME NEW S, Good(S), NEW ks
  PROVE  Leads(S, Abort(S, ks))
<1>1. /\ DOMAIN Abort(S, ks) = DOMAIN S
      /\ Abort(S, ks).store = S.store /\ Abort(S, ks).queue = S.queue
      /\ Abort(S, ks).posted = S.posted
      /\ Abort(S, ks).run = [k \in Runs |->
           IF k \in AbortClosure(S, ks) THEN [S.run[k] EXCEPT !.aborted = TRUE] ELSE S.run[k]]
  BY DEF Abort, Good, Shape
<1>2. ASSUME NEW k \in Runs
      PROVE  Abort(S, ks).run[k] \in {S.run[k], [S.run[k] EXCEPT !.aborted = TRUE]}
  BY <1>1
<1>. QED
  BY <1>1, <1>2, RunsMoved DEF Good, Shape

LEMMA GatedLeads ==
  ASSUME NEW S, Good(S), NEW cs, NEW gate
  PROVE  Leads(S, Gated(S, cs, gate))
<1>1. /\ DOMAIN Gated(S, cs, gate) = DOMAIN S
      /\ Gated(S, cs, gate).store = S.store /\ Gated(S, cs, gate).queue = S.queue
      /\ Gated(S, cs, gate).posted = S.posted
      /\ Gated(S, cs, gate).run = [c \in Runs |->
           IF c \in cs THEN [S.run[c] EXCEPT !.gate = gate] ELSE S.run[c]]
  BY DEF Gated, Good, Shape
<1>2. ASSUME NEW k \in Runs
      PROVE  Gated(S, cs, gate).run[k] \in {S.run[k], [S.run[k] EXCEPT !.gate = gate]}
  BY <1>1
<1>. QED
  BY <1>1, <1>2, RunsMoved DEF Good, Shape

\* What a call does to the rows, and to nothing it has posted.
LEMMA RowsMoved ==
  ASSUME NEW S, Good(S), NEW T, DOMAIN T = DOMAIN S, DOMAIN T.store = Tasks,
         T.posted = S.posted, DOMAIN T.run = Runs,
         \A k \in Runs : /\ {"task", "pc"} \subseteq DOMAIN T.run[k]
                         /\ T.run[k].task = S.run[k].task
                         /\ T.run[k].pc = "unborn" <=> S.run[k].pc = "unborn",
         \A t \in Tasks : {"kind", "status", "term", "notified", "token", "gen"} \subseteq DOMAIN T.store[t],
         \A t \in Tasks : T.store[t].notified \in BOOLEAN,
         KeepsRows(S, T),
         \A e \in T.queue : /\ {"token", "private", "key"} \subseteq DOMAIN e
                            /\ \E f \in S.queue : f.token = e.token /\ f.key = e.key /\ (e.private => f.private)
  PROVE  Leads(S, T)
<1>1. Shape(T)
  BY DEF Good, Shape, KeepsRows
<1>2. KeepsRuns(S, T)
  BY DEF KeepsRuns
<1>3. PostsOnce(S, T)
  BY DEF PostsOnce
<1>4. QueuesForward(S, T)
  BY DEF QueuesForward
<1>. QED
  BY <1>1, <1>2, <1>3, <1>4 DEF Leads

LEMMA SameQueue ==
  ASSUME NEW S, Good(S)
  PROVE  \A e \in S.queue : /\ {"token", "private", "key"} \subseteq DOMAIN e
                            /\ \E f \in S.queue : f.token = e.token /\ f.key = e.key /\ (e.private => f.private)
BY Zenon DEF Good, Shape

LEMMA EvictedLeads ==
  ASSUME NEW S, Good(S), NEW ts, Removes
  PROVE  Leads(S, Evicted(S, ts))
<1>. DEFINE T == Evicted(S, ts)
<1>1. /\ DOMAIN T = DOMAIN S /\ T.posted = S.posted /\ T.run = S.run /\ T.queue = S.queue
      /\ T.store = [t \in Tasks |-> IF t \in ts THEN Durable(S.store[t]) ELSE S.store[t]]
  BY DEF Evicted, Good, Shape
<1>. HIDE DEF T
<1>2. ASSUME NEW row
      PROVE  /\ {"kind", "status", "term", "notified", "token", "gen"} \subseteq DOMAIN Durable(row)
             /\ Durable(row).status = "evicted" /\ Durable(row).token = NoRun
             /\ Durable(row).notified = FALSE
  BY DEF Durable, Row
<1>3. ASSUME NEW t \in Tasks
      PROVE  T.store[t] = S.store[t] \/ T.store[t] = Durable(S.store[t])
  BY <1>1
<1>4. KeepsRows(S, T)
  BY <1>2, <1>3 DEF KeepsRows, Removes
<1>5. \A e \in T.queue : /\ {"token", "private", "key"} \subseteq DOMAIN e
                          /\ \E f \in S.queue : f.token = e.token /\ f.key = e.key /\ (e.private => f.private)
  BY <1>1, SameQueue
<1>6. ASSUME NEW t \in Tasks
      PROVE  /\ {"kind", "status", "term", "notified", "token", "gen"} \subseteq DOMAIN T.store[t]
             /\ T.store[t].notified \in BOOLEAN
  BY <1>2, <1>3 DEF Good, Shape
<1>7. DOMAIN T.store = Tasks
  BY <1>1
<1>8. Leads(S, T)
  BY <1>1, <1>4, <1>5, <1>6, <1>7, RowsMoved DEF Good, Shape
<1>. QED
  BY <1>8 DEF T

LEMMA KillShellsLeads ==
  ASSUME NEW S, Good(S), NEW o
  PROVE  Leads(S, KillShellsForOwner(S, o))
<1>. DEFINE T == KillShellsForOwner(S, o)
            shells == ShellsOf(S, o)
<1>1. /\ DOMAIN T = DOMAIN S /\ T.posted = S.posted /\ T.queue = S.queue
      /\ T.store = [t \in Tasks |->
           IF t \in shells THEN [S.store[t] EXCEPT !.status = "killed", !.notified = TRUE]
           ELSE S.store[t]]
      /\ T.run = [k \in Runs |->
           IF k \in {S.store[t].token : t \in shells} THEN [S.run[k] EXCEPT !.pc = "done"]
           ELSE S.run[k]]
  BY DEF KillShellsForOwner, Good, Shape
<1>2. \A t \in shells : t \in Tasks /\ S.store[t].status = "running"
  BY DEF ShellsOf, Running
<1>. HIDE DEF T, shells
<1>3. ASSUME NEW t \in Tasks
      PROVE  \/ T.store[t] = S.store[t]
             \/ T.store[t] = [S.store[t] EXCEPT !.status = "killed", !.notified = TRUE]
  BY <1>1
<1>4. ASSUME NEW k \in Runs
      PROVE  \/ T.run[k] = S.run[k]
             \/ S.run[k].pc # "unborn" /\ T.run[k] = [S.run[k] EXCEPT !.pc = "done"]
  <2>1. k \in {S.store[t].token : t \in shells} => S.run[k].pc # "unborn"
    BY <1>2 DEF Good, RunsAreFresh, TokensAreOwned
  <2>. QED
    BY <1>1, <2>1
<1>5. ASSUME NEW t \in Tasks
      PROVE  /\ {"kind", "status", "term", "notified", "token", "gen"} \subseteq DOMAIN T.store[t]
             /\ T.store[t].notified \in BOOLEAN
             /\ T.store[t].token = S.store[t].token /\ T.store[t].gen = S.store[t].gen
             /\ \/ T.store[t] = S.store[t]
                \/ T.store[t].status = "killed" /\ T.store[t].notified = TRUE
  BY <1>3 DEF Good, Shape
<1>6. KeepsRows(S, T)
  BY <1>5 DEF KeepsRows
<1>7. ASSUME NEW k \in Runs
      PROVE  /\ {"task", "pc"} \subseteq DOMAIN T.run[k] /\ T.run[k].task = S.run[k].task
             /\ T.run[k].pc = "unborn" <=> S.run[k].pc = "unborn"
  BY <1>4 DEF Good, Shape
<1>8. \A e \in T.queue : /\ {"token", "private", "key"} \subseteq DOMAIN e
                          /\ \E f \in S.queue : f.token = e.token /\ f.key = e.key /\ (e.private => f.private)
  BY <1>1, SameQueue
<1>9. DOMAIN T.store = Tasks /\ DOMAIN T.run = Runs
  BY <1>1
<1>10. Leads(S, T)
  BY <1>1, <1>5, <1>6, <1>7, <1>8, <1>9, RowsMoved
<1>. QED
  BY <1>10 DEF T

LEMMA PromoteLeads ==
  ASSUME NEW S, Good(S), NEW o
  PROVE  Leads(S, Promote(S, o))
<1>1. CASE IsOwnerRegistered(S, o)
  BY <1>1, SameLeads DEF Promote
<1>2. CASE ~IsOwnerRegistered(S, o)
  <2>. DEFINE T == Promote(S, o)
  <2>1. /\ DOMAIN T = DOMAIN S /\ T.posted = S.posted /\ T.run = S.run
        /\ T.queue = {IF e \in Inventory(S, o) THEN [e EXCEPT !.private = FALSE] ELSE e : e \in S.queue}
        /\ T.store = [t \in Tasks |->
             IF /\ S.store[t].owner = o
                /\ S.store[t].term = "owner"
                /\ \E e \in Inventory(S, o) : e.key = KeyOf(S, t)
             THEN [S.store[t] EXCEPT !.term = "main"] ELSE S.store[t]]
    BY <1>2 DEF Promote, Good, Shape
  <2>. HIDE DEF T
  <2>2. ASSUME NEW t \in Tasks
        PROVE  \/ T.store[t] = S.store[t]
               \/ S.store[t].term = "owner" /\ T.store[t] = [S.store[t] EXCEPT !.term = "main"]
    BY <2>1
  <2>3. ASSUME NEW t \in Tasks
        PROVE  /\ {"kind", "status", "term", "notified", "token", "gen"} \subseteq DOMAIN T.store[t]
               /\ T.store[t].notified = S.store[t].notified
               /\ T.store[t].token = S.store[t].token /\ T.store[t].gen = S.store[t].gen
               /\ T.store[t].status = S.store[t].status
               /\ S.store[t].term = "pending" => T.store[t].term = "pending"
    BY <2>2 DEF Good, Shape
  <2>4. KeepsRows(S, T)
    BY <2>3 DEF KeepsRows
  <2>5. ASSUME NEW e \in T.queue
        PROVE  /\ {"token", "private", "key"} \subseteq DOMAIN e
               /\ \E f \in S.queue : f.token = e.token /\ f.key = e.key /\ (e.private => f.private)
    <3>1. PICK f \in S.queue : e = f \/ e = [f EXCEPT !.private = FALSE]
      BY <2>1
    <3>2. {"token", "private", "key"} \subseteq DOMAIN f
      BY DEF Good, Shape
    <3>3. CASE e = f
      BY <3>2, <3>3, Zenon
    <3>4. CASE e = [f EXCEPT !.private = FALSE]
      BY <3>2, <3>4
    <3>. QED
      BY <3>1, <3>3, <3>4
  <2>6. Leads(S, T)
    BY <2>1, <2>3, <2>4, <2>5, RowsMoved DEF Good, Shape
  <2>. QED
    BY <2>6 DEF T
<1>. QED
  BY <1>1, <1>2

\* The walk of cancelTaskTree: what it silences, moves and marks.
LEMMA WalkLeads ==
  ASSUME NEW S, Good(S), NEW killed, NEW silenced, NEW moves, NEW byUser
  PROVE  Leads(S, Walked(S, killed, silenced, moves, byUser))
<1>. DEFINE W == Walked(S, killed, silenced, moves, byUser)
            row(t, halted) == [S.store[t] EXCEPT !.halted = halted]
<1>1. /\ DOMAIN W = DOMAIN S /\ W.posted = S.posted /\ W.run = S.run
      /\ DOMAIN W.store = Tasks
      /\ W.queue = {IF \E t \in moves : f.key = KeyOf(S, t)
                    THEN [f EXCEPT !.owner = Main, !.private = FALSE] ELSE f
                      : f \in Withdraw(S, silenced)}
  BY DEF Walked, Good, Shape
<1>2. ASSUME NEW t \in Tasks
      PROVE  \E halted :
               \/ W.store[t] = row(t, halted)
               \/ W.store[t] = [row(t, halted) EXCEPT !.owner = Main, !.moved = TRUE]
               \/ W.store[t] = [row(t, halted) EXCEPT !.status = "killed",
                                  !.term = "discarded", !.notified = TRUE]
  BY DEF Walked, Good, Shape
<1>. HIDE DEF W
<1>3. ASSUME NEW t \in Tasks
      PROVE  /\ {"kind", "status", "term", "notified", "token", "gen"} \subseteq DOMAIN W.store[t]
             /\ W.store[t].notified \in BOOLEAN
             /\ W.store[t].token = S.store[t].token /\ W.store[t].gen = S.store[t].gen
             /\ \/ /\ W.store[t].status = S.store[t].status
                   /\ W.store[t].term = S.store[t].term
                   /\ W.store[t].notified = S.store[t].notified
                \/ W.store[t].status = "killed" /\ W.store[t].notified = TRUE
  <2>1. PICK halted :
               \/ W.store[t] = row(t, halted)
               \/ W.store[t] = [row(t, halted) EXCEPT !.owner = Main, !.moved = TRUE]
               \/ W.store[t] = [row(t, halted) EXCEPT !.status = "killed",
                                  !.term = "discarded", !.notified = TRUE]
    BY <1>2
  <2>2. /\ {"kind", "status", "term", "notified", "token", "gen"} \subseteq DOMAIN row(t, halted)
        /\ row(t, halted).status = S.store[t].status /\ row(t, halted).term = S.store[t].term
        /\ row(t, halted).notified = S.store[t].notified
        /\ row(t, halted).token = S.store[t].token /\ row(t, halted).gen = S.store[t].gen
        /\ S.store[t].notified \in BOOLEAN
    BY DEF Good, Shape
  <2>. HIDE DEF row
  <2>3. CASE W.store[t] = row(t, halted)
    BY <2>2, <2>3
  <2>4. CASE W.store[t] = [row(t, halted) EXCEPT !.owner = Main, !.moved = TRUE]
    BY <2>2, <2>4
  <2>5. CASE W.store[t] = [row(t, halted) EXCEPT !.status = "killed",
                             !.term = "discarded", !.notified = TRUE]
    BY <2>2, <2>5
  <2>. QED
    BY <2>1, <2>3, <2>4, <2>5
<1>4. KeepsRows(S, W)
  BY <1>3 DEF KeepsRows
<1>5. ASSUME NEW e \in W.queue
      PROVE  /\ {"token", "private", "key"} \subseteq DOMAIN e
             /\ \E f \in S.queue : f.token = e.token /\ f.key = e.key /\ (e.private => f.private)
  <2>2. Withdraw(S, silenced) \subseteq S.queue
    BY DEF Withdraw
  <2>3. PICK f \in S.queue : e = f \/ e = [f EXCEPT !.owner = Main, !.private = FALSE]
    BY <1>1, <2>2
  <2>4. {"token", "private", "key"} \subseteq DOMAIN f
    BY DEF Good, Shape
  <2>5. CASE e = f
    BY <2>4, <2>5, Zenon
  <2>6. CASE e = [f EXCEPT !.owner = Main, !.private = FALSE]
    BY <2>4, <2>6
  <2>. QED
    BY <2>3, <2>5, <2>6
<1>6. \A k \in Runs : /\ {"task", "pc"} \subseteq DOMAIN W.run[k]
                      /\ W.run[k].task = S.run[k].task
                      /\ W.run[k].pc = "unborn" <=> S.run[k].pc = "unborn"
  BY <1>1 DEF Good, Shape
<1>7. DOMAIN W.run = Runs
  BY <1>1 DEF Good, Shape
<1>8. Leads(S, W)
  BY <1>1, <1>3, <1>4, <1>5, <1>6, <1>7, RowsMoved
<1>. QED
  BY <1>8 DEF W

LEMMA FreedLeads ==
  ASSUME NEW S, Good(S), NEW c
  PROVE  Leads(S, [S EXCEPT !.ctl = c])
<1>. DEFINE T == [S EXCEPT !.ctl = c]
<1>1. /\ DOMAIN T = DOMAIN S /\ T.store = S.store /\ T.queue = S.queue
      /\ T.posted = S.posted /\ T.run = S.run
  OBVIOUS
<1>. HIDE DEF T
<1>2. Leads(S, T)
  BY <1>1, RunsMoved DEF Good, Shape
<1>. QED
  BY <1>2 DEF T

LEMMA CancelLeads ==
  ASSUME NEW S, Good(S), NEW k, NEW force, NEW byUser, NEW quiet
  PROVE  Leads(S, CancelTaskTree(S, k, force, byUser, quiet))
<1>. DEFINE r == S.run[k].task
            V == Tree(S, r, force)
            stops == Stoppable(S, V, r, force)
            moves == IF force THEN {} ELSE Orphaned(S, V)
            silenced == {t \in stops : t # r \/ quiet \/ S.store[t].mode = "linked"}
            killed == {t \in stops : S.store[t].status # "killed"}
            walked == Walked(S, killed, silenced, moves, byUser)
            told == Conclude(walked, killed \ silenced, [t \in Tasks |-> "killed"])
            freed == [told EXCEPT !.ctl = [t \in Tasks |-> IF t \in killed THEN NoRun ELSE @[t]]]
            hit == {S.ctl[t] : t \in killed} \ {NoRun}
<1>1. CancelTaskTree(S, k, force, byUser, quiet) = IF ~Matches(S, k) THEN S ELSE Abort(freed, hit)
  BY DEF CancelTaskTree
<1>2. killed \subseteq Tasks
  BY DEF Stoppable, Tree
<1>. HIDE DEF r, V, stops, moves, silenced, killed, hit
<1>3. Leads(S, walked)
  BY WalkLeads
<1>. HIDE DEF walked
<1>4. Leads(S, told) /\ Good(told)
  <2>1. Good(walked) => Leads(walked, told)
    <3>1. \A t \in killed \ silenced : [u \in Tasks |-> "killed"][t] \notin {"running", "unborn"}
      BY <1>2
    <3>2. killed \ silenced \in SUBSET Tasks
      BY <1>2
    <3>. QED
      BY <3>1, <3>2, ConcludeLeads
  <2>. HIDE DEF told
  <2>. QED
    BY <1>3, <2>1, Composed
<1>. HIDE DEF told
<1>5. \E c : freed = [told EXCEPT !.ctl = c]
  OBVIOUS
<1>. HIDE DEF freed
<1>6. Leads(S, freed) /\ Good(freed)
  BY <1>4, <1>5, FreedLeads, Composed
<1>7. Leads(S, Abort(freed, hit))
  BY <1>6, AbortLeads, Composed
<1>. QED
  BY <1>1, <1>7, SameLeads

LEMMA PublishLeads ==
  ASSUME NEW S, Good(S), NEW k
  PROVE  Leads(S, Publish(S, k))
<1>1. Ending(k) \notin {"running", "unborn"}
  BY DEF Ending
<1>2. \E ks, force, byUser, quiet :
        Publish(S, k) \in {Finish(S, ks, Ending(k)), CancelTaskTree(S, k, force, byUser, quiet)}
  BY DEF Publish
<1>. QED
  BY <1>1, <1>2, FinishLeads, CancelLeads

\* The steps of a run that ends.
LEMMA RunEnds ==
  ASSUME NEW S, Good(S), NEW k \in Runs, S.run[k].pc # "unborn", NEW pc, pc # "unborn",
         NEW outcome
  PROVE  /\ Leads(S, [S EXCEPT !.run[k].pc = pc, !.run[k].outcome = outcome])
         /\ Leads(S, [S EXCEPT !.run[k].pc = pc])
<1>. DEFINE e == [S.run[k] EXCEPT !.pc = pc, !.outcome = outcome]
            f == [S.run[k] EXCEPT !.pc = pc]
            T == [S EXCEPT !.run[k].pc = pc, !.run[k].outcome = outcome]
            U == [S EXCEPT !.run[k].pc = pc]
<1>1. /\ {"task", "pc"} \subseteq DOMAIN e /\ e.task = S.run[k].task /\ e.pc = pc
      /\ {"task", "pc"} \subseteq DOMAIN f /\ f.task = S.run[k].task /\ f.pc = pc
  BY DEF Good, Shape
<1>2. /\ DOMAIN T = DOMAIN S /\ T.store = S.store /\ T.queue = S.queue
      /\ T.posted = S.posted /\ T.run = [S.run EXCEPT ![k] = e]
  BY DEF Good, Shape
<1>3. /\ DOMAIN U = DOMAIN S /\ U.store = S.store /\ U.queue = S.queue
      /\ U.posted = S.posted /\ U.run = [S.run EXCEPT ![k] = f]
  BY DEF Good, Shape
<1>. HIDE DEF e, f, T, U
<1>4. Leads(S, T) /\ Leads(S, U)
  BY <1>1, <1>2, <1>3, RunMoves
<1>. QED
  BY <1>4 DEF T, U

LEMMA LeaveLeads ==
  ASSUME NEW S, Good(S), NEW k \in Runs, S.run[k].pc # "unborn", NEW outcome
  PROVE  Leads(S, Leave(S, k, outcome))
<1>. DEFINE T == [S EXCEPT !.run[k].pc = "exit", !.run[k].outcome = outcome]
<1>1. Leads(S, T) /\ Good(T)
  BY RunEnds, LeadsKeepsGood
<1>2. Leave(S, k, outcome) = KillShellsForOwner(T, S.run[k].task)
  BY DEF Leave
<1>. HIDE DEF T
<1>. QED
  BY <1>1, <1>2, KillShellsLeads, Composed

LEMMA ReportLeads ==
  ASSUME NEW S, Good(S), NEW k \in Runs, S.run[k].pc # "unborn"
  PROVE  Leads(S, Report(S, k))
<1>. DEFINE over == [S EXCEPT !.run[k].pc = "done",
                              !.run[k].linked = FALSE,
                              !.ctl[run[k].task] = IF @ = k THEN NoRun ELSE @]
<1>1. Report(S, k) = IF run[k].gate \in {"none", "committed"} THEN Publish(over, k) ELSE over
  BY DEF Report
<1>2. /\ DOMAIN over = DOMAIN S /\ over.store = S.store /\ over.queue = S.queue
      /\ over.posted = S.posted
      /\ over.run = [S.run EXCEPT ![k] = [S.run[k] EXCEPT !.pc = "done", !.linked = FALSE]]
  BY DEF Good, Shape
<1>. HIDE DEF over
<1>3. Leads(S, over)
  BY <1>2, RunMoves, ZenonT(40) DEF Good, Shape
<1>. QED
  BY <1>1, <1>3, PublishLeads, Composed

LEMMA CloseLeads ==
  ASSUME NEW S, Good(S), NEW k \in Runs, S.run[k].pc # "unborn"
  PROVE  Leads(S, Close(S, k))
BY ReportLeads, SameLeads DEF Close

-----------------------------------------------------------------------------
(* The steps.                                                               *)

LEMMA NowIs ==
  /\ Now.store = store /\ Now.run = run /\ Now.ctl = ctl /\ Now.queue = queue
  /\ Now.posted = posted /\ DOMAIN Now = {"store", "run", "ctl", "queue", "posted"}
  /\ Now'.store = store' /\ Now'.run = run' /\ Now'.ctl = ctl' /\ Now'.queue = queue'
  /\ Now'.posted = posted' /\ DOMAIN Now' = {"store", "run", "ctl", "queue", "posted"}
BY DEF Now

LEMMA BecomeLeads ==
  ASSUME NEW T, Become(T), Leads(Now, T)
  PROVE  Leads(Now, Now')
<1>1. T.store = store' /\ T.run = run' /\ T.queue = queue' /\ T.posted = posted'
  BY DEF Become
<1>2. Shape(Now')
  BY <1>1, NowIs DEF Leads, Shape
<1>3. KeepsRuns(Now, Now') /\ KeepsRows(Now, Now')
  BY <1>1, NowIs DEF Leads, KeepsRuns, KeepsRows
<1>4. PostsOnce(Now, Now') /\ QueuesForward(Now, Now')
  BY <1>1, NowIs DEF Leads, PostsOnce, QueuesForward
<1>. QED
  BY <1>2, <1>3, <1>4 DEF Leads

FreshRow(row, k) ==
  /\ {"kind", "status", "term", "notified", "token", "gen"} \subseteq DOMAIN row
  /\ row.token = k
  /\ row.term = "pending" /\ row.notified = FALSE

FreshExecution(e, t) ==
  /\ {"task", "pc"} \subseteq DOMAIN e
  /\ e.task = t /\ e.pc # "unborn"

\* A run begins with a token nobody has had, in a row of its own.
Begins ==
  \E t \in Tasks, k \in Runs :
    /\ run[k].pc = "unborn"
    /\ DOMAIN store' = Tasks /\ DOMAIN run' = Runs
    /\ \A u \in Tasks \ {t} : store'[u] = store[u]
    /\ \A j \in Runs \ {k} : run'[j] = run[j]
    /\ FreshRow(store'[t], k)
    /\ FreshExecution(run'[k], t)
    /\ UNCHANGED <<queue, posted>>

LEMMA BeginsKeeps ==
  ASSUME Good(Now), Begins
  PROVE  Good(Now')
<1>1. PICK t \in Tasks, k \in Runs :
    /\ run[k].pc = "unborn"
    /\ DOMAIN store' = Tasks /\ DOMAIN run' = Runs
    /\ \A u \in Tasks \ {t} : store'[u] = store[u]
    /\ \A j \in Runs \ {k} : run'[j] = run[j]
    /\ FreshRow(store'[t], k)
    /\ FreshExecution(run'[k], t)
    /\ UNCHANGED <<queue, posted>>
  BY DEF Begins
<1>. USE DEF FreshRow, FreshExecution
<1>2. /\ \A u \in Tasks : store[u].token # k
      /\ k \notin posted
  BY <1>1, NowIs DEF Good, TokensAreOwned, PostedRan
<1>3. Shape(Now')
  <2>1. ASSUME NEW u \in Tasks
        PROVE  /\ {"kind", "status", "term", "notified", "token", "gen"} \subseteq DOMAIN store'[u]
               /\ store'[u].notified \in BOOLEAN
               /\ store'[u].token \in Runs \cup {NoRun}
    BY <1>1, NowIs DEF Good, Shape
  <2>2. \A j \in Runs : {"task", "pc"} \subseteq DOMAIN run'[j]
    BY <1>1, NowIs DEF Good, Shape
  <2>3. \A e \in queue' : {"token", "private", "key"} \subseteq DOMAIN e
    BY <1>1, NowIs DEF Good, Shape
  <2>. QED
    BY <1>1, <2>1, <2>2, <2>3, NowIs DEF Shape
<1>4. TokensAreOwned(Now')
  BY <1>1, <1>2, NowIs DEF Good, TokensAreOwned
<1>5. PostedRan(Now')
  BY <1>1, NowIs DEF Good, PostedRan
<1>6. RunsAreFresh(Now')
  BY <1>1, NowIs DEF Good, RunsAreFresh
<1>7. UntoldIsUnposted(Now')
  BY <1>1, <1>2, NowIs DEF Good, UntoldIsUnposted
<1>. QED
  BY <1>3, <1>4, <1>5, <1>6, <1>7 DEF Good

LEMMA FreshBegins ==
  ASSUME Good(Now), NEW t \in Tasks, NEW k \in Runs, NEW row, NEW execution,
         run[k].pc = "unborn", UNCHANGED <<queue, posted>>,
         store' = [store EXCEPT ![t] = row], run' = [run EXCEPT ![k] = execution],
         FreshRow(row, k), FreshExecution(execution, t)
  PROVE  Begins
BY NowIs DEF Begins, Good, Shape

LEMMA LaunchBegins ==
  ASSUME Good(Now), NEW t \in Tasks, NEW k \in Runs, NEW row, NEW execution,
         Launch(t, k, row, execution), FreshRow(row, k), FreshExecution(execution, t)
  PROVE  Begins
BY FreshBegins DEF Launch, Fresh

LEMMA RowIsFresh ==
  ASSUME NEW kind, NEW k, NEW mode, NEW bg, NEW owner, NEW parent
  PROVE  FreshRow(Row(kind, k, mode, bg, owner, parent), k)
BY DEF Row, FreshRow

LEMMA ExecutionIsFresh ==
  ASSUME NEW t, NEW how, NEW pc, NEW caller, NEW gate, pc # "unborn"
  PROVE  FreshExecution(Execution(t, how, pc, caller, gate), t)
BY DEF Execution, FreshExecution

LEMMA ReopenedIsFresh ==
  ASSUME NEW row, NEW k, NEW owner, {"kind", "status", "term", "notified", "token", "gen"} \subseteq DOMAIN row
  PROVE  /\ FreshRow(Reopened(row, k), k)
         /\ FreshRow([Reopened(row, k) EXCEPT !.bg = TRUE, !.owner = owner], k)
BY DEF Reopened, FreshRow

LEMMA StartBegins ==
  ASSUME Good(Now), NEW t \in Tasks, NEW k \in Runs, Start(t, k)
  PROVE  Begins
<1>1. CASE StartMain(t, k)
  BY <1>1, LaunchBegins, RowIsFresh, ExecutionIsFresh DEF StartMain
<1>2. CASE StartDirective(t, k)
  BY <1>2, LaunchBegins, RowIsFresh, ExecutionIsFresh DEF StartDirective
<1>3. ASSUME NEW p, StartNested(p, t, k)
      PROVE  Begins
  BY <1>3, LaunchBegins, RowIsFresh, ExecutionIsFresh DEF StartNested
<1>4. ASSUME NEW p, StartShell(p, t, k)
      PROVE  Begins
  <2>1. \E owner : Launch(t, k, Row("shell", k, "detached", TRUE, owner, Main),
                          Execution(t, "shell", "proc", NoRun, "none"))
    BY <1>4, Zenon DEF StartShell
  <2>. QED
    BY <2>1, LaunchBegins, RowIsFresh, ExecutionIsFresh
<1>5. {"kind", "status", "term", "notified", "token", "gen"} \subseteq DOMAIN store[t]
  BY NowIs DEF Good, Shape
<1>6. CASE SendMessage(t, k)
  BY <1>5, <1>6, FreshBegins, ReopenedIsFresh, ExecutionIsFresh DEF SendMessage, Fresh
<1>7. CASE ViewResume(t, k)
  BY <1>5, <1>7, FreshBegins, ReopenedIsFresh, ExecutionIsFresh DEF ViewResume, Fresh
<1>. QED
  BY <1>1, <1>2, <1>3, <1>4, <1>6, <1>7 DEF Start

\* A run that has begun goes on; the rows and the queue stay.
LEMMA RunGoesOn ==
  ASSUME Good(Now), NEW k \in Runs, NEW e, run[k].pc # "unborn",
         run' = [run EXCEPT ![k] = e], UNCHANGED <<store, queue, posted>>,
         {"task", "pc"} \subseteq DOMAIN e, e.task = run[k].task, e.pc # "unborn"
  PROVE  Leads(Now, Now')
BY RunMoves, NowIs

LEMMA PcGoesOn ==
  ASSUME Good(Now), NEW k \in Runs, NEW pc, run[k].pc # "unborn", pc # "unborn",
         run' = [run EXCEPT ![k].pc = pc], UNCHANGED <<store, queue, posted>>
  PROVE  Leads(Now, Now')
<1>. DEFINE e == [run[k] EXCEPT !.pc = pc]
<1>1. {"task", "pc"} \subseteq DOMAIN e /\ e.task = run[k].task /\ e.pc = pc
  BY NowIs DEF Good, Shape
<1>2. run' = [run EXCEPT ![k] = e]
  OBVIOUS
<1>. HIDE DEF e
<1>. QED
  BY <1>1, <1>2, RunGoesOn

\* Now, with some of the runs moved along in one way.
LEMMA DetachLeads ==
  ASSUME Good(Now), NEW k \in Runs, Detach(k)
  PROVE  Leads(Now, Now')
<1>. DEFINE t == run[k].task
            row == [store[t] EXCEPT !.mode = "detached", !.bg = TRUE]
            e == [run[k] EXCEPT !.linked = FALSE]
<1>1. /\ store' = [store EXCEPT ![t] = row] /\ run' = [run EXCEPT ![k] = e]
      /\ UNCHANGED <<queue, posted>>
  BY DEF Detach
<1>2. ASSUME NEW u \in Tasks
      PROVE  /\ {"kind", "status", "term", "notified", "token", "gen"} \subseteq DOMAIN store'[u]
             /\ store'[u].notified = store[u].notified /\ store'[u].token = store[u].token
             /\ store'[u].gen = store[u].gen
             /\ store'[u].status = store[u].status /\ store'[u].term = store[u].term
  <2>1. {"kind", "status", "term", "notified", "token", "gen"} \subseteq DOMAIN store[u] /\ DOMAIN store = Tasks
    BY NowIs DEF Good, Shape
  <2>. QED
    BY <1>1, <2>1
<1>3. ASSUME NEW j \in Runs
      PROVE  /\ {"task", "pc"} \subseteq DOMAIN run'[j]
             /\ run'[j].task = run[j].task /\ run'[j].pc = run[j].pc
  BY <1>1, NowIs DEF Good, Shape
<1>4. KeepsRows(Now, Now')
  BY <1>2, NowIs DEF KeepsRows
<1>5. DOMAIN store' = Tasks /\ DOMAIN run' = Runs
  BY <1>1, NowIs DEF Good, Shape
<1>6. \A u \in Tasks : store'[u].notified \in BOOLEAN
  BY <1>2, NowIs DEF Good, Shape
<1>7. \A f \in queue' : /\ {"token", "private", "key"} \subseteq DOMAIN f
                        /\ \E g \in queue : g.token = f.token /\ (f.private => g.private)
  BY <1>1, SameQueue, NowIs
<1>. HIDE DEF t, row, e
<1>. QED
  BY <1>1, <1>2, <1>3, <1>4, <1>5, <1>6, <1>7, NowIs, RowsMoved

LEMMA TakeForOwnerLeads ==
  ASSUME Good(Now), NEW k \in Runs, TakeForOwner(k)
  PROVE  Leads(Now, Now')
<1>1. ASSUME NEW t \in Tasks
      PROVE  \/ store'[t] = store[t]
             \/ store[t].term = "owner" /\ store'[t] = [store[t] EXCEPT !.term = "parent"]
  BY DEF TakeForOwner
<1>2. queue' \subseteq queue /\ UNCHANGED <<run, posted>> /\ DOMAIN store' = Tasks
  BY DEF TakeForOwner
<1>3. ASSUME NEW t \in Tasks
      PROVE  /\ {"kind", "status", "term", "notified", "token", "gen"} \subseteq DOMAIN store'[t]
             /\ store'[t].notified = store[t].notified
             /\ store'[t].token = store[t].token /\ store'[t].gen = store[t].gen
             /\ store'[t].status = store[t].status
             /\ store[t].term = "pending" => store'[t].term = "pending"
  <2>1. {"kind", "status", "term", "notified", "token", "gen"} \subseteq DOMAIN store[t]
    BY NowIs DEF Good, Shape
  <2>2. CASE store'[t] = store[t]
    BY <2>1, <2>2
  <2>3. CASE store[t].term = "owner" /\ store'[t] = [store[t] EXCEPT !.term = "parent"]
    BY <2>1, <2>3
  <2>. QED
    BY <1>1, <2>2, <2>3
<1>4. KeepsRows(Now, Now')
  BY <1>3, NowIs DEF KeepsRows
<1>5. \A f \in queue' : /\ {"token", "private", "key"} \subseteq DOMAIN f
                        /\ \E g \in queue : g.token = f.token /\ (f.private => g.private)
  BY <1>2, SameQueue, NowIs
<1>6. /\ DOMAIN run' = Runs
      /\ \A j \in Runs : {"task", "pc"} \subseteq DOMAIN run'[j]
      /\ \A t \in Tasks : store'[t].notified \in BOOLEAN
  BY <1>2, <1>3, NowIs DEF Good, Shape
<1>. QED
  BY <1>2, <1>3, <1>4, <1>5, <1>6, NowIs, RowsMoved

LEMMA DrainMainLeads ==
  ASSUME Good(Now), DrainMain
  PROVE  Leads(Now, Now')
<1>1. queue' \subseteq queue /\ UNCHANGED <<store, run, posted>>
  BY DEF DrainMain
<1>2. \A f \in queue' : /\ {"token", "private", "key"} \subseteq DOMAIN f
                        /\ \E g \in queue : g.token = f.token /\ (f.private => g.private)
  BY <1>1, SameQueue, NowIs
<1>3. KeepsRows(Now, Now')
  BY <1>1, NowIs DEF KeepsRows
<1>4. /\ DOMAIN run' = Runs /\ DOMAIN store' = Tasks
      /\ \A j \in Runs : {"task", "pc"} \subseteq DOMAIN run'[j]
      /\ \A t \in Tasks : /\ {"kind", "status", "term", "notified", "token", "gen"} \subseteq DOMAIN store'[t]
                          /\ store'[t].notified \in BOOLEAN
  BY <1>1, NowIs DEF Good, Shape
<1>. QED
  BY <1>1, <1>2, <1>3, <1>4, NowIs, RowsMoved

\* The awaits of a run: it is set up, parks, wakes, or gives up before it starts.
LEMMA QuietRunLeads ==
  ASSUME Good(Now), NEW k \in Runs,
         \/ Register(k) \/ Park(k) \/ WakeAborted(k) \/ Steer(k)
         \/ StartSent(k) \/ StartViewed(k)
  PROVE  Leads(Now, Now')
<1>1. ASSUME NEW pc \in {"loop", "parked", "launch", "done"}, run[k].pc # "unborn",
             run' = [run EXCEPT ![k].pc = pc], UNCHANGED <<store, queue, posted>>
      PROVE  Leads(Now, Now')
  BY <1>1, PcGoesOn
<1>2. CASE Register(k)
  BY <1>1, <1>2 DEF Register
<1>3. CASE Park(k)
  BY <1>1, <1>3 DEF Park, Working
<1>4. CASE WakeAborted(k) \/ Steer(k)
  BY <1>1, <1>4 DEF WakeAborted, Steer, WakeUp
<1>5. CASE StartSent(k)
  BY <1>1, <1>5 DEF StartSent
<1>6. CASE StartViewed(k)
  BY <1>1, <1>6 DEF StartViewed
<1>. QED
  BY <1>2, <1>3, <1>4, <1>5, <1>6

LEMMA LaunchFailsLeads ==
  ASSUME Good(Now), NEW k \in Runs, LaunchFails(k)
  PROVE  Leads(Now, Now')
<1>. DEFINE T == [Now EXCEPT !.run[k].pc = "settle", !.run[k].outcome = "setup"]
<1>1. Now.run[k].pc # "unborn" /\ Become(Close(T, k))
  BY NowIs DEF LaunchFails
<1>2. Leads(Now, T) /\ Good(T)
  BY <1>1, RunEnds, LeadsKeepsGood
<1>. HIDE DEF T
<1>3. T.run[k].pc # "unborn"
  BY <1>1, <1>2 DEF Leads, KeepsRuns
<1>. QED
  BY <1>1, <1>2, <1>3, CloseLeads, Composed, BecomeLeads

LEMMA UnwindLeads ==
  ASSUME Good(Now), NEW k \in Runs, Unwind(k)
  PROVE  Leads(Now, Now')
<1>. DEFINE t == run[k].task
            swept == IF run[k].aborted /\ run[k].how # "view" /\ Present(Now, t)
                     THEN CancelTaskTree(Now, store[t].token, FALSE, FALSE, TRUE) ELSE Now
            T == [swept EXCEPT !.run[k].pc = "settle"]
            U == Promote(T, t)
<1>1. Now.run[k].pc # "unborn" /\ Become(Close(U, k))
  BY NowIs DEF Unwind
<1>2. Leads(Now, swept) /\ Good(swept)
  <2>1. swept \in {Now, CancelTaskTree(Now, store[t].token, FALSE, FALSE, TRUE)}
    OBVIOUS
  <2>2. CASE swept = Now
    BY <2>2, SameLeads, Zenon
  <2>3. CASE swept = CancelTaskTree(Now, store[t].token, FALSE, FALSE, TRUE)
    <3>. HIDE DEF swept, t, T, U
    <3>1. Leads(Now, swept)
      BY <2>3, CancelLeads, Zenon
    <3>. QED
      BY <3>1, LeadsKeepsGood, Zenon
  <2>. HIDE DEF swept
  <2>. QED
    BY <2>1, <2>2, <2>3
<1>. HIDE DEF swept, t
<1>3. swept.run[k].pc # "unborn"
  BY <1>1, <1>2 DEF Leads, KeepsRuns
<1>4. Leads(swept, T)
  BY <1>2, <1>3, RunEnds
<1>. HIDE DEF T
<1>5. Leads(Now, T) /\ Good(T)
  BY <1>2, <1>4, Composed
<1>6. Leads(Now, U) /\ Good(U)
  BY <1>5, PromoteLeads, Composed
<1>. HIDE DEF U
<1>7. U.run[k].pc # "unborn"
  BY <1>1, <1>6 DEF Leads, KeepsRuns
<1>. QED
  BY <1>1, <1>6, <1>7, CloseLeads, Composed, BecomeLeads

LEMMA CommitMainLeads ==
  ASSUME Good(Now), NEW k \in Runs, CommitMain(k)
  PROVE  Leads(Now, Now')
<1>. DEFINE closed == [Now EXCEPT !.run[k].gate = "committed"]
<1>1. Become(IF run[k].pc = "done" THEN Publish(closed, k) ELSE closed)
  BY DEF CommitMain
<1>2. /\ DOMAIN closed = DOMAIN Now /\ closed.store = Now.store /\ closed.queue = Now.queue
      /\ closed.posted = Now.posted
      /\ closed.run = [Now.run EXCEPT ![k] = [Now.run[k] EXCEPT !.gate = "committed"]]
  BY DEF Now
<1>. HIDE DEF closed
<1>3. ASSUME NEW j \in Runs
      PROVE  /\ {"task", "pc"} \subseteq DOMAIN closed.run[j]
             /\ closed.run[j].task = Now.run[j].task
             /\ closed.run[j].pc = Now.run[j].pc
  BY <1>2 DEF Good, Shape
<1>4. DOMAIN closed.run = Runs
  BY <1>2 DEF Good, Shape
<1>5. Leads(Now, closed)
  BY <1>2, <1>3, <1>4, RunsMoved
<1>. QED
  BY <1>1, <1>5, PublishLeads, Composed, BecomeLeads

LEMMA LoopEndLeads ==
  ASSUME Good(Now), NEW k \in Runs,
         FinishLoop(k) \/ BreakLoop(k) \/ AbortLoop(k) \/ AbandonBatch(k)
  PROVE  Leads(Now, Now')
<1>1. Now.run[k].pc # "unborn"
  BY NowIs DEF FinishLoop, BreakLoop, AbortLoop, AbandonBatch, Working
<1>2. CASE FinishLoop(k) \/ BreakLoop(k) \/ AbortLoop(k)
  <2>1. \E outcome : Become(Leave(Now, k, outcome))
    BY <1>2 DEF FinishLoop, BreakLoop, AbortLoop
  <2>. QED
    BY <1>1, <2>1, LeaveLeads, BecomeLeads
<1>3. CASE AbandonBatch(k)
  <2>. DEFINE closed == Gated(Now, OpenBatch(k), "lost")
  <2>1. Become(Leave(closed, k, "failed"))
    BY <1>3 DEF AbandonBatch
  <2>2. Leads(Now, closed) /\ Good(closed)
    BY GatedLeads, LeadsKeepsGood
  <2>. HIDE DEF closed
  <2>3. closed.run[k].pc # "unborn"
    BY <1>1, <2>2 DEF Leads, KeepsRuns
  <2>. QED
    BY <2>1, <2>2, <2>3, LeaveLeads, Composed, BecomeLeads
<1>. QED
  BY <1>2, <1>3

LEMMA CommitBatchLeads ==
  ASSUME Good(Now), NEW k \in Runs, CommitBatch(k)
  PROVE  Leads(Now, Now')
<1>. DEFINE closed == Gated(Now, OpenBatch(k), "committed")
            over == {c \in OpenBatch(k) : run[c].pc = "done"}
            status == [t \in Tasks |->
                         IF Running(closed, t) THEN Ending(store[t].token) ELSE "none"]
<1>1. Become(Conclude(closed, Current(closed, over), status))
  BY DEF CommitBatch
<1>2. Leads(Now, closed) /\ Good(closed)
  BY GatedLeads, LeadsKeepsGood
<1>3. \A t \in Current(closed, over) : status[t] \notin {"running", "unborn"}
  BY DEF Current, Ending
<1>4. Current(closed, over) \in SUBSET Tasks
  BY DEF Current
<1>. HIDE DEF closed, over, status
<1>. QED
  BY <1>1, <1>2, <1>3, <1>4, ConcludeLeads, Composed, BecomeLeads

LEMMA SettleLeads ==
  ASSUME Good(Now), NEW k \in Runs, Settle(k)
  PROVE  Leads(Now, Now')
BY ReportLeads, BecomeLeads, NowIs DEF Settle

LEMMA ResumeFailsLeads ==
  ASSUME Good(Now), NEW k \in Runs, ResumeFails(k)
  PROVE  Leads(Now, Now')
<1>. DEFINE T == [Now EXCEPT !.run[k].pc = "done", !.run[k].outcome = "setup"]
<1>1. Now.run[k].pc # "unborn" /\ Become(Finish(T, {k}, "error"))
  BY NowIs DEF ResumeFails
<1>2. Leads(Now, T) /\ Good(T)
  BY <1>1, RunEnds, LeadsKeepsGood
<1>. HIDE DEF T
<1>. QED
  BY <1>1, <1>2, FinishLeads, Composed, BecomeLeads

LEMMA RunStepLeads ==
  ASSUME Good(Now), NEW k \in Runs, RunStep(k)
  PROVE  Leads(Now, Now')
BY DetachLeads, TakeForOwnerLeads, QuietRunLeads, LaunchFailsLeads, UnwindLeads,
   CommitMainLeads, LoopEndLeads, CommitBatchLeads, SettleLeads, ResumeFailsLeads
   DEF RunStep

\* A shell that ends: its process is gone, then its row is finished.
LEMMA EndShellLeads ==
  ASSUME Good(Now), NEW t \in Tasks, NEW status, status \notin {"running", "unborn"},
         EndShell(t, status)
  PROVE  Leads(Now, Now')
<1>. DEFINE k == store[t].token
            T == [Now EXCEPT !.run[k].pc = "done"]
<1>1. Become(Finish(T, {k}, status)) /\ Running(Now, t)
  BY DEF EndShell
<1>2. k \in Runs /\ Now.run[k].pc # "unborn"
  BY <1>1, NowIs DEF Running, Good, RunsAreFresh, TokensAreOwned
<1>. HIDE DEF k
<1>3. Leads(Now, T) /\ Good(T)
  BY <1>2, RunEnds, LeadsKeepsGood
<1>. HIDE DEF T
<1>. QED
  BY <1>1, <1>3, FinishLeads, Composed, BecomeLeads

LEMMA CloseRowLeads ==
  ASSUME Good(Now), NEW t \in Tasks, CloseRow(t)
  PROVE  Leads(Now, Now')
<1>. DEFINE stopped == IF Running(Now, t)
                       THEN CancelTaskTree(Now, store[t].token, TRUE, TRUE, FALSE) ELSE Now
<1>1. Become(Evicted(stopped, Tree(stopped, t, TRUE))) /\ Removes
  BY DEF CloseRow, Removes
<1>2. stopped \in {Now, CancelTaskTree(Now, store[t].token, TRUE, TRUE, FALSE)}
  OBVIOUS
<1>. HIDE DEF stopped
<1>3. Leads(Now, stopped)
  BY <1>2, CancelLeads, SameLeads
<1>. QED
  BY <1>1, <1>3, EvictedLeads, Composed, BecomeLeads

LEMMA TaskStepLeads ==
  ASSUME Good(Now), NEW t \in Tasks, TaskStep(t)
  PROVE  Leads(Now, Now')
<1>1. CASE UserStop(t)
  BY <1>1, CancelLeads, BecomeLeads DEF UserStop
<1>2. CASE TaskStop(t)
  BY <1>2, CancelLeads, BecomeLeads DEF TaskStop
<1>3. CASE ShellExits(t)
  BY <1>3, EndShellLeads DEF ShellExits
<1>4. CASE KillShell(t)
  BY <1>4, EndShellLeads DEF KillShell
<1>5. CASE Evict(t)
  BY <1>5, EvictedLeads, BecomeLeads DEF Evict, Removes
<1>6. CASE CloseRow(t)
  BY <1>6, CloseRowLeads
<1>. QED
  BY <1>1, <1>2, <1>3, <1>4, <1>5, <1>6 DEF TaskStep

LEMMA CancelTurnLeads ==
  ASSUME Good(Now), CancelTurn
  PROVE  Leads(Now, Now')
<1>1. \E hit : Become(Abort(Now, hit))
  BY Zenon DEF CancelTurn
<1>. QED
  BY <1>1, AbortLeads, BecomeLeads

LEMMA StutterLeads ==
  ASSUME Good(Now), UNCHANGED vars
  PROVE  Leads(Now, Now')
<1>1. Become(Now)
  BY NowIs DEF Become, vars
<1>. QED
  BY <1>1, SameLeads, BecomeLeads

\* Every step begins a run or moves everything on.
LEMMA StepKinds ==
  ASSUME Good(Now), [Next]_vars
  PROVE  Begins \/ Leads(Now, Now')
BY StartBegins, RunStepLeads, TaskStepLeads, CancelTurnLeads, DrainMainLeads, StutterLeads
   DEF Next

LEMMA InitGood ==
  ASSUME Init
  PROVE  Good(Now)
<1>1. ASSUME NEW t \in Tasks
      PROVE  /\ {"kind", "status", "term", "notified", "token", "gen"} \subseteq DOMAIN store[t]
             /\ store[t].status = "unborn" /\ store[t].notified = FALSE
             /\ store[t].token = NoRun
  BY DEF Init, Row
<1>2. \A k \in Runs : {"task", "pc"} \subseteq DOMAIN run[k]
  BY DEF Init, Execution
<1>3. DOMAIN store = Tasks /\ DOMAIN run = Runs /\ queue = {} /\ posted = {}
  BY DEF Init
<1>4. Shape(Now)
  BY <1>1, <1>2, <1>3, NowIs DEF Shape
<1>5. TokensAreOwned(Now) /\ UntoldIsUnposted(Now) /\ PostedRan(Now) /\ RunsAreFresh(Now)
  BY <1>1, <1>3, NowIs, NoRunIsNone DEF TokensAreOwned, UntoldIsUnposted, PostedRan, RunsAreFresh
<1>. QED
  BY <1>4, <1>5 DEF Good

LEMMA StepKeepsGood ==
  ASSUME Good(Now), [Next]_vars
  PROVE  Good(Now')
BY StepKinds, BeginsKeeps, LeadsKeepsGood

LEMMA Invariant == Spec => []Good(Now)
<1>1. Init => Good(Now)
  BY InitGood
<1>2. Good(Now) /\ [Next]_vars => Good(Now)'
  BY StepKeepsGood
<1>. QED
  BY <1>1, <1>2, PTL DEF Spec

\* A row that runs has told nobody of this run, whatever happened to the runs before it:
\* resumed, stopped, moved to main, closed and restored.
THEOREM RunningTasksAreUntold == Spec => []RunningIsUntold
<1>1. Good(Now) => RunningIsUntold
  BY NowIs DEF Good, RunsAreFresh, UntoldIsUnposted, RunningIsUntold, Running
<1>. QED
  BY <1>1, Invariant, PTL

-----------------------------------------------------------------------------
(* The refinement: no step takes a notification back.                       *)

LEMMA PlaceForward ==
  ASSUME Good(Now), [Next]_vars, NEW k \in Runs
  PROVE  PlaceOf(k)' \in Abstract!Later(PlaceOf(k))
<1>1. /\ PlaceOf(k) \in {"unborn", "owner", "main", "gone"}
      /\ PlaceOf(k)' \in {"unborn", "owner", "main", "gone"}
  BY DEF PlaceOf
<1>2. CASE Begins
  <2>1. queue' = queue /\ posted' = posted
    BY <1>2 DEF Begins
  <2>2. PlaceOf(k)' = PlaceOf(k)
    BY <2>1 DEF PlaceOf
  <2>. QED
    BY <1>1, <2>2 DEF Abstract!Later, Abstract!Places
<1>3. CASE Leads(Now, Now')
  <2>1. /\ posted \subseteq posted'
        /\ k \in posted => \A e \in queue' : e.token = k =>
             \E f \in queue : f.token = k /\ (e.private => f.private)
    BY <1>3, NowIs DEF Leads, PostsOnce, QueuesForward
  <2>2. CASE k \notin posted
    BY <1>1, <2>2 DEF PlaceOf, Abstract!Later, Abstract!Places
  <2>3. CASE k \in posted /\ {e \in queue : e.token = k} = {}
    <3>1. k \in posted' /\ {e \in queue' : e.token = k} = {}
      BY <2>1, <2>3
    <3>. QED
      BY <2>3, <3>1 DEF PlaceOf, Abstract!Later
  <2>4. CASE k \in posted /\ \E e \in queue : e.token = k /\ e.private
    <3>1. PlaceOf(k) = "owner" /\ PlaceOf(k)' # "unborn"
      BY <2>1, <2>4 DEF PlaceOf
    <3>. QED
      BY <1>1, <3>1 DEF Abstract!Later
  <2>5. CASE /\ k \in posted /\ {e \in queue : e.token = k} # {}
             /\ ~\E e \in queue : e.token = k /\ e.private
    <3>1. PlaceOf(k) = "main"
      BY <2>5 DEF PlaceOf
    <3>2. k \in posted' /\ ~\E e \in queue' : e.token = k /\ e.private
      BY <2>1, <2>5
    <3>3. PlaceOf(k)' \in {"main", "gone"}
      BY <3>2 DEF PlaceOf
    <3>. QED
      BY <3>1, <3>3 DEF Abstract!Later
  <2>. QED
    BY <2>2, <2>3, <2>4, <2>5
<1>. QED
  BY <1>2, <1>3, StepKinds

\* The tasks implement the delivery promise for every tree of them: a run posts one
\* notification, which waits for its owner, then for main, and never comes back once it
\* was read or withdrawn.
THEOREM TasksImplementDelivery == Spec => ImplementsDelivery
<1>1. Init => Abstract!Init
  BY DEF Init, Abstract!Init, PlaceOf
<1>2. Good(Now) /\ [Next]_vars => [Abstract!Next]_([k \in Runs |-> PlaceOf(k)])
  <2>. SUFFICES ASSUME Good(Now), [Next]_vars PROVE Abstract!Next
    OBVIOUS
  <2>1. \A k \in Runs : PlaceOf(k)' \in Abstract!Later(PlaceOf(k))
    BY PlaceForward
  <2>2. \A k \in Runs : PlaceOf(k)' \in Abstract!Places
    BY DEF PlaceOf, Abstract!Places
  <2>. QED
    BY <2>1, <2>2 DEF Abstract!Next
<1>. QED
  BY <1>1, <1>2, Invariant, PTL DEF Spec, ImplementsDelivery, Abstract!Spec

-----------------------------------------------------------------------------
(* A private notice has a fork to read it.                                  *)

\* The run of a shell is a process, never a fork.
Process(S, k) == S.run[k].pc \in {"proc", "done"}

Homed(S) ==
  /\ \A e \in S.queue : e.private => IsOwnerRegistered(S, e.owner)
  /\ \A t \in Tasks : S.store[t].token \in Runs /\ ~Agent(S, t) => Process(S, S.store[t].token)

\* A call that ends no registration, and files privately for registered owners only.
LEMMA StaysHomed ==
  ASSUME NEW S, NEW T, Homed(S),
         \A k \in Runs : /\ T.run[k].task = S.run[k].task
                         /\ Registered(S, k) => Registered(T, k)
                         /\ Process(S, k) => Process(T, k),
         \A t \in Tasks : /\ T.store[t].token \in {S.store[t].token, NoRun}
                          /\ T.store[t].kind = S.store[t].kind,
         \A e \in T.queue : e.private => IsOwnerRegistered(S, e.owner)
  PROVE  Homed(T)
<1>1. ASSUME NEW o, IsOwnerRegistered(S, o)
      PROVE  IsOwnerRegistered(T, o)
  BY <1>1 DEF IsOwnerRegistered
<1>2. ASSUME NEW t \in Tasks, T.store[t].token \in Runs, ~Agent(T, t)
      PROVE  Process(T, T.store[t].token)
  BY <1>2, NoRunIsNone DEF Homed, Agent
<1>. QED
  BY <1>1, <1>2 DEF Homed

LEMMA RunsStayHomed ==
  ASSUME NEW S, NEW T, Homed(S), T.store = S.store, T.queue = S.queue,
         \A k \in Runs : /\ T.run[k].task = S.run[k].task
                         /\ Registered(S, k) => Registered(T, k)
                         /\ Process(S, k) => Process(T, k)
  PROVE  Homed(T)
BY StaysHomed DEF Homed

LEMMA ConcludeHomed ==
  ASSUME NEW S, Good(S), Homed(S), NEW ts \in SUBSET Tasks, NEW status
  PROVE  Homed(Conclude(S, ts, status))
<1>. DEFINE told == {t \in ts : Notifies(S, t)}
            T == Conclude(S, ts, status)
<1>1. /\ T.store = [t \in Tasks |->
            IF t \notin ts THEN S.store[t]
            ELSE IF Answers(S, t)
                 THEN [S.store[t] EXCEPT !.status = status[t], !.term = "parent", !.notified = TRUE]
            ELSE IF t \in told
                 THEN [S.store[t] EXCEPT !.status = status[t], !.notified = TRUE,
                                   !.term = IF Private(S, t) THEN "owner" ELSE "main"]
            ELSE [S.store[t] EXCEPT !.status = status[t]]]
      /\ T.queue = {e \in S.queue : ~\E t \in told : e.key = KeyOf(S, t)}
                     \cup {Notice(S, t) : t \in told}
      /\ T.run = [k \in Runs |->
            IF S.run[k].pc = "parked"
               /\ \E t \in told : Private(S, t) /\ S.store[t].owner = S.run[k].task
            THEN [S.run[k] EXCEPT !.pc = "loop"] ELSE S.run[k]]
  BY DEF Conclude, Good, Shape
<1>. HIDE DEF T, told
<1>2. ASSUME NEW t \in Tasks
      PROVE  T.store[t].token = S.store[t].token /\ T.store[t].kind = S.store[t].kind
  <2>1. {"kind", "status", "term", "notified", "token", "gen"} \subseteq DOMAIN S.store[t]
    BY DEF Good, Shape
  <2>2. CASE t \notin ts
    BY <1>1, <2>2
  <2>3. CASE t \in ts /\ Answers(S, t)
    <3>1. T.store[t] = [S.store[t] EXCEPT !.status = status[t], !.term = "parent",
                                          !.notified = TRUE]
      BY <1>1, <2>3
    <3>. QED
      BY <2>1, <3>1
  <2>4. CASE t \in ts /\ ~Answers(S, t) /\ t \in told
    <3>1. PICK term : T.store[t] = [S.store[t] EXCEPT !.status = status[t],
                                      !.notified = TRUE, !.term = term]
      BY <1>1, <2>4, ZenonT(40)
    <3>. QED
      BY <2>1, <3>1
  <2>5. CASE t \in ts /\ ~Answers(S, t) /\ t \notin told
    <3>1. T.store[t] = [S.store[t] EXCEPT !.status = status[t]]
      BY <1>1, <2>5
    <3>. QED
      BY <2>1, <3>1
  <2>. QED
    BY <2>2, <2>3, <2>4, <2>5
<1>3. ASSUME NEW k \in Runs
      PROVE  /\ T.run[k].task = S.run[k].task
             /\ Registered(S, k) => Registered(T, k)
             /\ Process(S, k) => Process(T, k)
  <2>1. \/ T.run[k] = S.run[k]
        \/ S.run[k].pc = "parked" /\ T.run[k] = [S.run[k] EXCEPT !.pc = "loop"]
    BY <1>1, Zenon
  <2>2. {"task", "pc"} \subseteq DOMAIN S.run[k]
    BY DEF Good, Shape
  <2>. QED
    BY <2>1, <2>2 DEF Registered, Process
<1>4. ASSUME NEW e \in T.queue, e.private
      PROVE  IsOwnerRegistered(S, e.owner)
  <2>1. CASE e \in S.queue
    BY <1>4, <2>1 DEF Homed
  <2>2. ASSUME NEW t \in told, e = Notice(S, t)
        PROVE  IsOwnerRegistered(S, e.owner)
    <3>1. e.owner = S.store[t].owner /\ e.private = Private(S, t)
      BY <2>2 DEF Notice
    <3>2. Private(S, t)
      BY <1>4, <3>1
    <3>. QED
      BY <3>1, <3>2 DEF Private
  <2>. QED
    BY <1>1, <2>1, <2>2
<1>5. Homed(T)
  BY <1>2, <1>3, <1>4, StaysHomed
<1>. QED
  BY <1>5 DEF T

LEMMA FinishHomed ==
  ASSUME NEW S, Good(S), Homed(S), NEW ks, NEW status
  PROVE  Homed(Finish(S, ks, status))
BY ConcludeHomed DEF Finish, Current

LEMMA AbortHomed ==
  ASSUME NEW S, Good(S), Homed(S), NEW ks
  PROVE  Homed(Abort(S, ks))
<1>1. /\ Abort(S, ks).store = S.store /\ Abort(S, ks).queue = S.queue
      /\ Abort(S, ks).run = [k \in Runs |->
           IF k \in AbortClosure(S, ks) THEN [S.run[k] EXCEPT !.aborted = TRUE] ELSE S.run[k]]
  BY DEF Abort, Good, Shape
<1>2. ASSUME NEW k \in Runs
      PROVE  Abort(S, ks).run[k].task = S.run[k].task /\ Abort(S, ks).run[k].pc = S.run[k].pc
  BY <1>1 DEF Good, Shape
<1>. QED
  BY <1>1, <1>2, RunsStayHomed DEF Registered, Process

LEMMA GatedHomed ==
  ASSUME NEW S, Good(S), Homed(S), NEW cs, NEW gate
  PROVE  Homed(Gated(S, cs, gate))
<1>1. /\ Gated(S, cs, gate).store = S.store /\ Gated(S, cs, gate).queue = S.queue
      /\ Gated(S, cs, gate).run = [c \in Runs |->
           IF c \in cs THEN [S.run[c] EXCEPT !.gate = gate] ELSE S.run[c]]
  BY DEF Gated, Good, Shape
<1>2. ASSUME NEW k \in Runs
      PROVE  /\ Gated(S, cs, gate).run[k].task = S.run[k].task
             /\ Gated(S, cs, gate).run[k].pc = S.run[k].pc
  BY <1>1 DEF Good, Shape
<1>. QED
  BY <1>1, <1>2, RunsStayHomed DEF Registered, Process

LEMMA EvictedHomed ==
  ASSUME NEW S, Good(S), Homed(S), NEW ts
  PROVE  Homed(Evicted(S, ts))
<1>. DEFINE T == Evicted(S, ts)
<1>1. /\ T.run = S.run /\ T.queue = S.queue
      /\ T.store = [t \in Tasks |-> IF t \in ts THEN Durable(S.store[t]) ELSE S.store[t]]
  BY DEF Evicted, Good, Shape
<1>2. ASSUME NEW row
      PROVE  Durable(row).token = NoRun /\ Durable(row).kind = row.kind
  BY DEF Durable, Row
<1>. HIDE DEF T
<1>3. ASSUME NEW t \in Tasks
      PROVE  T.store[t].token \in {S.store[t].token, NoRun} /\ T.store[t].kind = S.store[t].kind
  BY <1>1, <1>2
<1>4. \A e \in T.queue : e.private => IsOwnerRegistered(S, e.owner)
  BY <1>1 DEF Homed
<1>5. Homed(T)
  BY <1>1, <1>3, <1>4, StaysHomed DEF Registered, Process
<1>. QED
  BY <1>5 DEF T

LEMMA KillShellsHomed ==
  ASSUME NEW S, Good(S), Homed(S), NEW o
  PROVE  Homed(KillShellsForOwner(S, o))
<1>. DEFINE T == KillShellsForOwner(S, o)
            shells == ShellsOf(S, o)
<1>1. /\ T.queue = S.queue
      /\ T.store = [t \in Tasks |->
           IF t \in shells THEN [S.store[t] EXCEPT !.status = "killed", !.notified = TRUE]
           ELSE S.store[t]]
      /\ T.run = [k \in Runs |->
           IF k \in {S.store[t].token : t \in shells} THEN [S.run[k] EXCEPT !.pc = "done"]
           ELSE S.run[k]]
  BY DEF KillShellsForOwner, Good, Shape
<1>2. \A t \in shells : t \in Tasks /\ ~Agent(S, t)
  BY DEF ShellsOf
<1>. HIDE DEF T, shells
<1>3. ASSUME NEW t \in Tasks
      PROVE  T.store[t].token = S.store[t].token /\ T.store[t].kind = S.store[t].kind
  <2>1. \/ T.store[t] = S.store[t]
        \/ T.store[t] = [S.store[t] EXCEPT !.status = "killed", !.notified = TRUE]
    BY <1>1
  <2>. QED
    BY <2>1 DEF Good, Shape
<1>4. ASSUME NEW k \in Runs
      PROVE  /\ T.run[k].task = S.run[k].task
             /\ Registered(S, k) => Registered(T, k)
             /\ Process(S, k) => Process(T, k)
  <2>1. k \in {S.store[t].token : t \in shells} => Process(S, k)
    BY <1>2 DEF Homed
  <2>2. \/ T.run[k] = S.run[k]
        \/ Process(S, k) /\ T.run[k] = [S.run[k] EXCEPT !.pc = "done"]
    BY <1>1, <2>1
  <2>3. {"task", "pc"} \subseteq DOMAIN S.run[k]
    BY DEF Good, Shape
  <2>. QED
    BY <2>2, <2>3 DEF Registered, Process
<1>5. \A e \in T.queue : e.private => IsOwnerRegistered(S, e.owner)
  BY <1>1 DEF Homed
<1>6. Homed(T)
  BY <1>3, <1>4, <1>5, StaysHomed
<1>. QED
  BY <1>6 DEF T

\* What a walk keeps for a fork it keeps for one that is registered.
LEMMA WalkHomed ==
  ASSUME NEW S, Good(S), Homed(S), NEW killed, NEW silenced, NEW moves, NEW byUser
  PROVE  Homed(Walked(S, killed, silenced, moves, byUser))
<1>. DEFINE W == Walked(S, killed, silenced, moves, byUser)
            row(t, halted) == [S.store[t] EXCEPT !.halted = halted]
<1>1. /\ W.run = S.run
      /\ W.queue = {IF \E t \in moves : f.key = KeyOf(S, t)
                    THEN [f EXCEPT !.owner = Main, !.private = FALSE] ELSE f
                      : f \in Withdraw(S, silenced)}
  BY DEF Walked, Good, Shape
<1>2. ASSUME NEW t \in Tasks
      PROVE  \E halted :
               \/ W.store[t] = row(t, halted)
               \/ W.store[t] = [row(t, halted) EXCEPT !.owner = Main, !.moved = TRUE]
               \/ W.store[t] = [row(t, halted) EXCEPT !.status = "killed",
                                  !.term = "discarded", !.notified = TRUE]
  BY DEF Walked, Good, Shape
<1>. HIDE DEF W
<1>3. ASSUME NEW t \in Tasks
      PROVE  W.store[t].token = S.store[t].token /\ W.store[t].kind = S.store[t].kind
  <2>1. PICK halted :
               \/ W.store[t] = row(t, halted)
               \/ W.store[t] = [row(t, halted) EXCEPT !.owner = Main, !.moved = TRUE]
               \/ W.store[t] = [row(t, halted) EXCEPT !.status = "killed",
                                  !.term = "discarded", !.notified = TRUE]
    BY <1>2
  <2>2. /\ {"kind", "token"} \subseteq DOMAIN row(t, halted)
        /\ row(t, halted).kind = S.store[t].kind /\ row(t, halted).token = S.store[t].token
    BY DEF Good, Shape
  <2>. HIDE DEF row
  <2>. QED
    BY <2>1, <2>2
<1>4. ASSUME NEW e \in W.queue, e.private
      PROVE  IsOwnerRegistered(S, e.owner)
  <2>1. Withdraw(S, silenced) \subseteq S.queue
    BY DEF Withdraw
  <2>2. PICK f \in S.queue : e = f \/ e = [f EXCEPT !.owner = Main, !.private = FALSE]
    BY <1>1, <2>1
  <2>3. "private" \in DOMAIN f
    BY DEF Good, Shape
  <2>4. e = f
    BY <1>4, <2>2, <2>3
  <2>. QED
    BY <1>4, <2>4 DEF Homed
<1>5. Homed(W)
  BY <1>1, <1>3, <1>4, StaysHomed DEF Registered, Process
<1>. QED
  BY <1>5 DEF W

LEMMA CancelHomed ==
  ASSUME NEW S, Good(S), Homed(S), NEW k, NEW force, NEW byUser, NEW quiet
  PROVE  Homed(CancelTaskTree(S, k, force, byUser, quiet))
<1>. DEFINE r == S.run[k].task
            V == Tree(S, r, force)
            stops == Stoppable(S, V, r, force)
            moves == IF force THEN {} ELSE Orphaned(S, V)
            silenced == {t \in stops : t # r \/ quiet \/ S.store[t].mode = "linked"}
            killed == {t \in stops : S.store[t].status # "killed"}
            walked == Walked(S, killed, silenced, moves, byUser)
            told == Conclude(walked, killed \ silenced, [t \in Tasks |-> "killed"])
            freed == [told EXCEPT !.ctl = [t \in Tasks |-> IF t \in killed THEN NoRun ELSE @[t]]]
            hit == {S.ctl[t] : t \in killed} \ {NoRun}
<1>1. CancelTaskTree(S, k, force, byUser, quiet) = IF ~Matches(S, k) THEN S ELSE Abort(freed, hit)
  BY DEF CancelTaskTree
<1>2. killed \subseteq Tasks
  BY DEF Stoppable, Tree
<1>. HIDE DEF r, V, stops, moves, silenced, killed, hit
<1>3. Good(walked) /\ Homed(walked)
  BY WalkLeads, LeadsKeepsGood, WalkHomed
<1>. HIDE DEF walked
<1>4. Good(told) /\ Homed(told)
  <2>1. \A t \in killed \ silenced : [u \in Tasks |-> "killed"][t] \notin {"running", "unborn"}
    BY <1>2
  <2>2. killed \ silenced \in SUBSET Tasks
    BY <1>2
  <2>3. Leads(walked, told)
    BY <1>3, <2>1, <2>2, ConcludeLeads
  <2>4. Homed(told)
    BY <1>3, <2>2, ConcludeHomed
  <2>. HIDE DEF told
  <2>. QED
    BY <1>3, <2>3, <2>4, LeadsKeepsGood
<1>. HIDE DEF told
<1>5. freed.store = told.store /\ freed.queue = told.queue /\ freed.run = told.run
  OBVIOUS
<1>6. \E c : freed = [told EXCEPT !.ctl = c]
  OBVIOUS
<1>. HIDE DEF freed
<1>7. Good(freed)
  BY <1>4, <1>6, FreedLeads, LeadsKeepsGood
<1>8. Homed(freed)
  BY <1>4, <1>5, RunsStayHomed DEF Registered, Process
<1>. QED
  BY <1>1, <1>7, <1>8, AbortHomed

LEMMA PublishHomed ==
  ASSUME NEW S, Good(S), Homed(S), NEW k
  PROVE  Homed(Publish(S, k))
<1>1. \E ks, force, byUser, quiet :
        Publish(S, k) \in {Finish(S, ks, Ending(k)), CancelTaskTree(S, k, force, byUser, quiet)}
  BY DEF Publish
<1>. QED
  BY <1>1, FinishHomed, CancelHomed

\* A run that is not registered, or stays so, moves on.
LEMMA RunStaysHomed ==
  ASSUME NEW S, Good(S), Homed(S), NEW T, NEW k \in Runs, NEW e,
         T.store = S.store, T.queue = S.queue, T.run = [S.run EXCEPT ![k] = e],
         e.task = S.run[k].task,
         S.run[k].pc \in {"proc", "done"} => e.pc \in {"proc", "done"},
         S.run[k].pc \in {"loop", "parked", "exit"} => e.pc \in {"loop", "parked", "exit"}
  PROVE  Homed(T)
<1>1. T.run[k] = e /\ \A j \in Runs \ {k} : T.run[j] = S.run[j]
  BY DEF Good, Shape
<1>. QED
  BY <1>1, RunsStayHomed DEF Registered, Process

LEMMA PcStaysHomed ==
  ASSUME NEW S, Good(S), Homed(S), NEW k \in Runs, NEW pc, NEW outcome,
         S.run[k].pc \in {"proc", "done"} => pc \in {"proc", "done"},
         S.run[k].pc \in {"loop", "parked", "exit"} => pc \in {"loop", "parked", "exit"}
  PROVE  /\ Homed([S EXCEPT !.run[k].pc = pc, !.run[k].outcome = outcome])
         /\ Homed([S EXCEPT !.run[k].pc = pc])
<1>. DEFINE e == [S.run[k] EXCEPT !.pc = pc, !.outcome = outcome]
            f == [S.run[k] EXCEPT !.pc = pc]
            T == [S EXCEPT !.run[k].pc = pc, !.run[k].outcome = outcome]
            U == [S EXCEPT !.run[k].pc = pc]
<1>1. e.task = S.run[k].task /\ e.pc = pc /\ f.task = S.run[k].task /\ f.pc = pc
  BY DEF Good, Shape
<1>2. /\ T.store = S.store /\ T.queue = S.queue /\ T.run = [S.run EXCEPT ![k] = e]
      /\ U.store = S.store /\ U.queue = S.queue /\ U.run = [S.run EXCEPT ![k] = f]
  BY DEF Good, Shape
<1>. HIDE DEF e, f, T, U
<1>3. Homed(T) /\ Homed(U)
  BY <1>1, <1>2, RunStaysHomed
<1>. QED
  BY <1>3 DEF T, U

LEMMA LeaveHomed ==
  ASSUME NEW S, Good(S), Homed(S), NEW k \in Runs, S.run[k].pc = "loop", NEW outcome
  PROVE  Homed(Leave(S, k, outcome))
<1>. DEFINE T == [S EXCEPT !.run[k].pc = "exit", !.run[k].outcome = outcome]
<1>1. Homed(T) /\ Good(T)
  BY PcStaysHomed, RunEnds, LeadsKeepsGood
<1>2. Leave(S, k, outcome) = KillShellsForOwner(T, S.run[k].task)
  BY DEF Leave
<1>. HIDE DEF T
<1>. QED
  BY <1>1, <1>2, KillShellsHomed

LEMMA ReportHomed ==
  ASSUME NEW S, Good(S), Homed(S), NEW k \in Runs, S.run[k].pc = "settle"
  PROVE  Homed(Report(S, k))
<1>. DEFINE e == [S.run[k] EXCEPT !.pc = "done", !.linked = FALSE]
            over == [S EXCEPT !.run[k].pc = "done",
                              !.run[k].linked = FALSE,
                              !.ctl[run[k].task] = IF @ = k THEN NoRun ELSE @]
<1>1. Report(S, k) = IF run[k].gate \in {"none", "committed"} THEN Publish(over, k) ELSE over
  BY DEF Report
<1>2. /\ DOMAIN over = DOMAIN S /\ over.store = S.store /\ over.queue = S.queue
      /\ over.posted = S.posted /\ over.run = [S.run EXCEPT ![k] = e]
  BY DEF Good, Shape
<1>3. /\ {"task", "pc"} \subseteq DOMAIN e /\ e.task = S.run[k].task /\ e.pc = "done"
  BY DEF Good, Shape
<1>. HIDE DEF over, e
<1>4. Good(over) /\ Homed(over)
  BY <1>2, <1>3, RunMoves, LeadsKeepsGood, RunStaysHomed
<1>. QED
  BY <1>1, <1>4, PublishHomed

LEMMA CloseHomed ==
  ASSUME NEW S, Good(S), Homed(S), NEW k \in Runs, S.run[k].pc = "settle"
  PROVE  Homed(Close(S, k))
BY ReportHomed DEF Close

LEMMA BecomeHomed ==
  ASSUME NEW T, Become(T), Homed(T)
  PROVE  Homed(Now')
<1>1. T.store = store' /\ T.run = run' /\ T.queue = queue'
  BY DEF Become
<1>2. ASSUME NEW o
      PROVE  IsOwnerRegistered(T, o) <=> IsOwnerRegistered(Now', o)
  BY <1>1, NowIs DEF IsOwnerRegistered, Registered
<1>. QED
  BY <1>1, <1>2, NowIs DEF Homed, Agent, Process

LEMMA FreshHomed ==
  ASSUME Good(Now), Homed(Now), NEW t \in Tasks, NEW k \in Runs, NEW row, NEW execution,
         run[k].pc = "unborn", queue' = queue,
         store' = [store EXCEPT ![t] = row], run' = [run EXCEPT ![k] = execution],
         row.token = k, row.kind = "agent" \/ execution.pc = "proc"
  PROVE  Homed(Now')
<1>1. /\ store'[t] = row /\ \A u \in Tasks \ {t} : store'[u] = store[u] /\ store[u].token # k
      /\ run'[k] = execution /\ \A j \in Runs \ {k} : run'[j] = run[j]
  BY NowIs DEF Good, Shape, TokensAreOwned
<1>2. ASSUME NEW o, IsOwnerRegistered(Now, o)
      PROVE  IsOwnerRegistered(Now', o)
  <2>1. PICK j \in Runs : run[j].task = o /\ run[j].pc \in {"loop", "parked", "exit"}
    BY <1>2, NowIs DEF IsOwnerRegistered, Registered
  <2>2. run'[j] = run[j]
    BY <1>1, <2>1
  <2>. QED
    BY <2>1, <2>2, NowIs DEF IsOwnerRegistered, Registered
<1>3. ASSUME NEW u \in Tasks, store'[u].token \in Runs, store'[u].kind # "agent"
      PROVE  run'[store'[u].token].pc \in {"proc", "done"}
  BY <1>1, <1>3, NowIs DEF Homed, Agent, Process
<1>. QED
  BY <1>2, <1>3, NowIs DEF Homed, Agent, Process

LEMMA StartHomed ==
  ASSUME Good(Now), Homed(Now), NEW t \in Tasks, NEW k \in Runs, Start(t, k)
  PROVE  Homed(Now')
<1>. DEFINE Launched(kind, pc) ==
       \E mode, bg, owner, parent, how, caller, gate :
         Launch(t, k, Row(kind, k, mode, bg, owner, parent), Execution(t, how, pc, caller, gate))
<1>1. ASSUME NEW kind, NEW pc, kind = "agent" \/ pc = "proc", Launched(kind, pc)
      PROVE  Homed(Now')
  <2>1. PICK row, execution : /\ Launch(t, k, row, execution)
                              /\ row.token = k /\ row.kind = kind /\ execution.pc = pc
    BY <1>1 DEF Row, Execution
  <2>. HIDE DEF Launched
  <2>. QED
    BY <1>1, <2>1, FreshHomed DEF Launch, Fresh
<1>2. CASE StartMain(t, k)
  <2>1. Launched("agent", "launch")
    BY <1>2, Zenon DEF StartMain
  <2>. QED
    BY <1>1, <2>1
<1>3. CASE StartDirective(t, k)
  <2>1. Launched("agent", "launch")
    BY <1>3, Zenon DEF StartDirective
  <2>. QED
    BY <1>1, <2>1
<1>4. ASSUME NEW p, StartNested(p, t, k)
      PROVE  Homed(Now')
  <2>1. Launched("agent", "launch")
    BY <1>4, Zenon DEF StartNested
  <2>. QED
    BY <1>1, <2>1
<1>5. ASSUME NEW p, StartShell(p, t, k)
      PROVE  Homed(Now')
  <2>1. Launched("shell", "proc")
    BY <1>5, Zenon DEF StartShell
  <2>. QED
    BY <1>1, <2>1
<1>. HIDE DEF Launched
<1>6. {"kind", "status", "term", "notified", "token", "gen"} \subseteq DOMAIN store[t]
  BY NowIs DEF Good, Shape
<1>7. ASSUME NEW owner
      PROVE  /\ Reopened(store[t], k).token = k /\ Reopened(store[t], k).kind = store[t].kind
             /\ [Reopened(store[t], k) EXCEPT !.bg = TRUE, !.owner = owner].token = k
             /\ [Reopened(store[t], k) EXCEPT !.bg = TRUE, !.owner = owner].kind = store[t].kind
  BY <1>6 DEF Reopened
<1>8. CASE SendMessage(t, k)
  <2>. DEFINE row == [Reopened(store[t], k) EXCEPT !.bg = TRUE, !.owner = OwnerAfterResume(t)]
  <2>1. /\ store' = [store EXCEPT ![t] = row] /\ queue' = queue /\ run[k].pc = "unborn"
        /\ run' = [run EXCEPT ![k] = Execution(t, "send", "prep", NoRun, "none")]
        /\ store[t].kind = "agent"
    BY <1>8, NowIs DEF SendMessage, Fresh, Agent
  <2>2. row.token = k /\ row.kind = "agent"
    BY <1>7, <2>1
  <2>. HIDE DEF row
  <2>. QED
    BY <2>1, <2>2, FreshHomed
<1>9. CASE ViewResume(t, k)
  <2>1. /\ store' = [store EXCEPT ![t] = Reopened(store[t], k)] /\ queue' = queue
        /\ run' = [run EXCEPT ![k] = Execution(t, "view", "prep", NoRun, "none")]
        /\ run[k].pc = "unborn" /\ store[t].kind = "agent"
    BY <1>9, NowIs DEF ViewResume, Fresh, Agent
  <2>. QED
    BY <1>7, <2>1, FreshHomed
<1>. QED
  BY <1>2, <1>3, <1>4, <1>5, <1>8, <1>9 DEF Start

\* Steps that move one run and nothing else of what matters here.
LEMMA PcHomed ==
  ASSUME Good(Now), Homed(Now), NEW k \in Runs, NEW pc,
         run' = [run EXCEPT ![k].pc = pc], UNCHANGED <<store, queue>>,
         run[k].pc \in {"proc", "done"} => pc \in {"proc", "done"},
         run[k].pc \in {"loop", "parked", "exit"} => pc \in {"loop", "parked", "exit"}
  PROVE  Homed(Now')
<1>. DEFINE e == [run[k] EXCEPT !.pc = pc]
<1>1. e.task = run[k].task /\ e.pc = pc /\ run' = [run EXCEPT ![k] = e]
  BY NowIs DEF Good, Shape
<1>. HIDE DEF e
<1>. QED
  BY <1>1, RunStaysHomed, NowIs

LEMMA QuietRunHomed ==
  ASSUME Good(Now), Homed(Now), NEW k \in Runs,
         \/ Register(k) \/ Park(k) \/ WakeAborted(k) \/ Steer(k)
         \/ StartSent(k) \/ StartViewed(k)
  PROVE  Homed(Now')
<1>1. CASE Register(k)
  BY <1>1, PcHomed DEF Register
<1>2. CASE Park(k)
  BY <1>2, PcHomed DEF Park, Working
<1>3. CASE WakeAborted(k) \/ Steer(k)
  BY <1>3, PcHomed DEF WakeAborted, Steer, WakeUp
<1>4. CASE StartSent(k)
  BY <1>4, PcHomed DEF StartSent
<1>5. CASE StartViewed(k)
  BY <1>5, PcHomed DEF StartViewed
<1>. QED
  BY <1>1, <1>2, <1>3, <1>4, <1>5

\* A fork detaches, reads its inventory, or main drains: nothing private is filed.
LEMMA QuietRowsHomed ==
  ASSUME Good(Now), Homed(Now), queue' \subseteq queue,
         \A k \in Runs : run'[k].task = run[k].task /\ run'[k].pc = run[k].pc,
         \A t \in Tasks : store'[t].token = store[t].token /\ store'[t].kind = store[t].kind
  PROVE  Homed(Now')
<1>1. \A e \in Now'.queue : e.private => IsOwnerRegistered(Now, e.owner)
  BY NowIs DEF Homed
<1>. QED
  BY <1>1, StaysHomed, NowIs DEF Registered, Process

LEMMA DetachHomed ==
  ASSUME Good(Now), Homed(Now), NEW k \in Runs, Detach(k)
  PROVE  Homed(Now')
<1>. DEFINE t == run[k].task
            row == [store[t] EXCEPT !.mode = "detached", !.bg = TRUE]
            e == [run[k] EXCEPT !.linked = FALSE]
<1>1. /\ store' = [store EXCEPT ![t] = row] /\ run' = [run EXCEPT ![k] = e] /\ queue' = queue
  BY DEF Detach
<1>2. ASSUME NEW u \in Tasks
      PROVE  store'[u].token = store[u].token /\ store'[u].kind = store[u].kind
  <2>1. {"kind", "token"} \subseteq DOMAIN store[u] /\ DOMAIN store = Tasks
    BY NowIs DEF Good, Shape
  <2>. QED
    BY <1>1, <2>1
<1>3. \A j \in Runs : run'[j].task = run[j].task /\ run'[j].pc = run[j].pc
  BY <1>1, NowIs DEF Good, Shape
<1>. QED
  BY <1>1, <1>2, <1>3, QuietRowsHomed

LEMMA TakeForOwnerHomed ==
  ASSUME Good(Now), Homed(Now), NEW k \in Runs, TakeForOwner(k)
  PROVE  Homed(Now')
<1>1. ASSUME NEW t \in Tasks
      PROVE  store'[t].token = store[t].token /\ store'[t].kind = store[t].kind
  <2>1. store'[t] = store[t] \/ store'[t] = [store[t] EXCEPT !.term = "parent"]
    BY DEF TakeForOwner
  <2>2. {"kind", "token"} \subseteq DOMAIN store[t]
    BY NowIs DEF Good, Shape
  <2>. QED
    BY <2>1, <2>2
<1>2. queue' \subseteq queue /\ run' = run
  BY DEF TakeForOwner
<1>. QED
  BY <1>1, <1>2, QuietRowsHomed

LEMMA DrainMainHomed ==
  ASSUME Good(Now), Homed(Now), DrainMain
  PROVE  Homed(Now')
BY QuietRowsHomed DEF DrainMain

LEMMA LaunchFailsHomed ==
  ASSUME Good(Now), Homed(Now), NEW k \in Runs, LaunchFails(k)
  PROVE  Homed(Now')
<1>. DEFINE T == [Now EXCEPT !.run[k].pc = "settle", !.run[k].outcome = "setup"]
<1>1. Now.run[k].pc = "launch" /\ Become(Close(T, k))
  BY NowIs DEF LaunchFails
<1>2. Good(T) /\ Homed(T)
  BY <1>1, RunEnds, LeadsKeepsGood, PcStaysHomed
<1>3. T.run[k].pc = "settle"
  BY NowIs DEF Good, Shape
<1>. HIDE DEF T
<1>. QED
  BY <1>1, <1>2, <1>3, CloseHomed, BecomeHomed

\* The owner that leaves hands its inventory on, unless another run of the task holds it.
LEMMA PromoteHomed ==
  ASSUME NEW S, Good(S), NEW o,
         \A e \in S.queue : e.private /\ e.owner # o => IsOwnerRegistered(S, e.owner),
         \A t \in Tasks : S.store[t].token \in Runs /\ ~Agent(S, t) => Process(S, S.store[t].token)
  PROVE  Homed(Promote(S, o))
<1>1. CASE IsOwnerRegistered(S, o)
  BY <1>1 DEF Promote, Homed
<1>2. CASE ~IsOwnerRegistered(S, o)
  <2>. DEFINE T == Promote(S, o)
  <2>1. /\ T.run = S.run
        /\ T.queue = {IF e \in Inventory(S, o) THEN [e EXCEPT !.private = FALSE] ELSE e : e \in S.queue}
        /\ T.store = [t \in Tasks |->
             IF /\ S.store[t].owner = o
                /\ S.store[t].term = "owner"
                /\ \E e \in Inventory(S, o) : e.key = KeyOf(S, t)
             THEN [S.store[t] EXCEPT !.term = "main"] ELSE S.store[t]]
    BY <1>2 DEF Promote, Good, Shape
  <2>. HIDE DEF T
  <2>2. ASSUME NEW t \in Tasks
        PROVE  T.store[t].token = S.store[t].token /\ T.store[t].kind = S.store[t].kind
    <3>1. T.store[t] = S.store[t] \/ T.store[t] = [S.store[t] EXCEPT !.term = "main"]
      BY <2>1
    <3>. QED
      BY <3>1 DEF Good, Shape
  <2>3. ASSUME NEW e \in T.queue, e.private
        PROVE  IsOwnerRegistered(T, e.owner)
    <3>1. PICK f \in S.queue : e = IF f \in Inventory(S, o) THEN [f EXCEPT !.private = FALSE] ELSE f
      BY <2>1
    <3>2. "private" \in DOMAIN f
      BY DEF Good, Shape
    <3>3. f \notin Inventory(S, o)
      BY <2>3, <3>1, <3>2
    <3>4. e = f /\ f.owner # o
      BY <2>3, <3>1, <3>3 DEF Inventory
    <3>. QED
      BY <2>1, <2>3, <3>4 DEF IsOwnerRegistered, Registered
  <2>4. Homed(T)
    BY <2>1, <2>2, <2>3 DEF Homed, Agent, Process
  <2>. QED
    BY <2>4 DEF T
<1>. QED
  BY <1>1, <1>2

\* A cancel wakes forks and aborts them; it moves no other run.
LEMMA CancelKeepsPc ==
  ASSUME NEW S, Good(S), NEW c, NEW force, NEW byUser, NEW quiet,
         NEW k \in Runs, S.run[k].pc # "parked"
  PROVE  CancelTaskTree(S, c, force, byUser, quiet).run[k].pc = S.run[k].pc
<1>1. ASSUME NEW T, {"run"} \subseteq DOMAIN T, "pc" \in DOMAIN T.run[k], NEW ks
      PROVE  Abort(T, ks).run[k].pc = T.run[k].pc
  BY <1>1 DEF Abort
<1>2. ASSUME NEW T, {"store", "run", "queue", "posted"} \subseteq DOMAIN T,
             "pc" \in DOMAIN T.run[k], T.run[k].pc # "parked", NEW ts, NEW status
      PROVE  Conclude(T, ts, status).run[k] = T.run[k]
  BY <1>2 DEF Conclude
<1>3. ASSUME NEW killed, NEW silenced, NEW moves
      PROVE  Walked(S, killed, silenced, moves, byUser).run = S.run
  BY DEF Walked, Good, Shape
<1>. DEFINE r == S.run[c].task
            V == Tree(S, r, force)
            stops == Stoppable(S, V, r, force)
            moves == IF force THEN {} ELSE Orphaned(S, V)
            silenced == {t \in stops : t # r \/ quiet \/ S.store[t].mode = "linked"}
            killed == {t \in stops : S.store[t].status # "killed"}
            walked == Walked(S, killed, silenced, moves, byUser)
            told == Conclude(walked, killed \ silenced, [t \in Tasks |-> "killed"])
            freed == [told EXCEPT !.ctl = [t \in Tasks |-> IF t \in killed THEN NoRun ELSE @[t]]]
            hit == {S.ctl[t] : t \in killed} \ {NoRun}
<1>4. CancelTaskTree(S, c, force, byUser, quiet) = IF ~Matches(S, c) THEN S ELSE Abort(freed, hit)
  BY DEF CancelTaskTree
<1>5. "pc" \in DOMAIN S.run[k]
  BY DEF Good, Shape
<1>. HIDE DEF r, V, stops, moves, silenced, killed, hit
<1>6. walked.run = S.run /\ {"store", "run", "queue", "posted"} \subseteq DOMAIN walked
  BY <1>3, WalkLeads DEF Leads, Shape
<1>. HIDE DEF walked
<1>7. told.run[k] = S.run[k] /\ "run" \in DOMAIN told
  <2>1. told.run[k] = S.run[k]
    BY <1>2, <1>5, <1>6
  <2>2. DOMAIN told = DOMAIN walked
    BY DEF Conclude
  <2>. QED
    BY <1>6, <2>1, <2>2
<1>. HIDE DEF told
<1>8. freed.run = told.run /\ "run" \in DOMAIN freed
  BY <1>7
<1>. HIDE DEF freed
<1>. QED
  BY <1>1, <1>4, <1>5, <1>7, <1>8

LEMMA UnwindHomed ==
  ASSUME Good(Now), Homed(Now), NEW k \in Runs, Unwind(k)
  PROVE  Homed(Now')
<1>. DEFINE t == run[k].task
            swept == IF run[k].aborted /\ run[k].how # "view" /\ Present(Now, t)
                     THEN CancelTaskTree(Now, store[t].token, FALSE, FALSE, TRUE) ELSE Now
            T == [swept EXCEPT !.run[k].pc = "settle"]
            U == Promote(T, t)
<1>1. Now.run[k].pc = "exit" /\ Become(Close(U, k))
  BY NowIs DEF Unwind
<1>2. Leads(Now, swept) /\ Good(swept) /\ Homed(swept)
  <2>1. swept \in {Now, CancelTaskTree(Now, store[t].token, FALSE, FALSE, TRUE)}
    OBVIOUS
  <2>2. CASE swept = Now
    BY <2>2, SameLeads, Zenon
  <2>3. CASE swept = CancelTaskTree(Now, store[t].token, FALSE, FALSE, TRUE)
    <3>. HIDE DEF swept, t, T, U
    <3>1. Leads(Now, swept) /\ Homed(swept)
      BY <2>3, CancelLeads, CancelHomed, Zenon
    <3>. QED
      BY <3>1, LeadsKeepsGood, Zenon
  <2>. HIDE DEF swept
  <2>. QED
    BY <2>1, <2>2, <2>3
<1>. HIDE DEF swept
<1>3. swept.run[k].pc = "exit" /\ swept.run[k].task = t
  <2>1. swept.run[k].task = t
    BY <1>2, NowIs DEF Leads, KeepsRuns
  <2>2. swept.run[k].pc = "exit"
    BY <1>1, CancelKeepsPc DEF swept
  <2>. QED
    BY <2>1, <2>2
<1>. HIDE DEF t
<1>4. /\ T.store = swept.store /\ T.queue = swept.queue /\ T.run[k].pc = "settle"
      /\ \A j \in Runs \ {k} : T.run[j] = swept.run[j]
  BY <1>2 DEF Good, Shape
<1>5. Good(T)
  BY <1>2, <1>3, RunEnds, LeadsKeepsGood
<1>. HIDE DEF T
<1>6. ASSUME NEW e \in T.queue, e.private, e.owner # t
      PROVE  IsOwnerRegistered(T, e.owner)
  <2>1. PICK j \in Runs : swept.run[j].task = e.owner /\ Registered(swept, j)
    BY <1>2, <1>4, <1>6 DEF Homed, IsOwnerRegistered
  <2>2. T.run[j] = swept.run[j]
    BY <1>3, <1>4, <1>6, <2>1
  <2>. QED
    BY <2>1, <2>2 DEF IsOwnerRegistered, Registered
<1>7. ASSUME NEW u \in Tasks, T.store[u].token \in Runs, ~Agent(T, u)
      PROVE  Process(T, T.store[u].token)
  <2>1. Process(swept, T.store[u].token)
    BY <1>2, <1>4, <1>7 DEF Homed, Agent
  <2>2. T.store[u].token # k
    BY <1>3, <2>1 DEF Process
  <2>. QED
    BY <1>4, <1>7, <2>1, <2>2 DEF Process
<1>8. Good(U) /\ Homed(U)
  BY <1>5, <1>6, <1>7, PromoteLeads, LeadsKeepsGood, PromoteHomed
<1>9. U.run = T.run
  BY <1>5 DEF Promote, Good, Shape
<1>. HIDE DEF U
<1>. QED
  BY <1>1, <1>4, <1>8, <1>9, CloseHomed, BecomeHomed

LEMMA CommitMainHomed ==
  ASSUME Good(Now), Homed(Now), NEW k \in Runs, CommitMain(k)
  PROVE  Homed(Now')
<1>. DEFINE e == [Now.run[k] EXCEPT !.gate = "committed"]
            closed == [Now EXCEPT !.run[k].gate = "committed"]
<1>1. Become(IF run[k].pc = "done" THEN Publish(closed, k) ELSE closed)
  BY DEF CommitMain
<1>2. /\ DOMAIN closed = DOMAIN Now /\ closed.store = Now.store /\ closed.queue = Now.queue
      /\ closed.posted = Now.posted /\ closed.run = [Now.run EXCEPT ![k] = e]
  BY DEF Now
<1>3. {"task", "pc"} \subseteq DOMAIN e /\ e.task = Now.run[k].task /\ e.pc = Now.run[k].pc
  BY DEF Good, Shape
<1>. HIDE DEF closed, e
<1>4. ASSUME NEW j \in Runs
      PROVE  /\ {"task", "pc"} \subseteq DOMAIN closed.run[j]
             /\ closed.run[j].task = Now.run[j].task
             /\ closed.run[j].pc = Now.run[j].pc
  BY <1>2, <1>3 DEF Good, Shape
<1>5. Good(closed)
  BY <1>2, <1>4, RunsMoved, LeadsKeepsGood DEF Good, Shape
<1>6. Homed(closed)
  BY <1>2, <1>4, RunsStayHomed DEF Registered, Process
<1>. QED
  BY <1>1, <1>5, <1>6, PublishHomed, BecomeHomed

LEMMA LoopEndHomed ==
  ASSUME Good(Now), Homed(Now), NEW k \in Runs,
         FinishLoop(k) \/ BreakLoop(k) \/ AbortLoop(k) \/ AbandonBatch(k)
  PROVE  Homed(Now')
<1>1. Now.run[k].pc = "loop"
  BY NowIs DEF FinishLoop, BreakLoop, AbortLoop, AbandonBatch, Working
<1>2. CASE FinishLoop(k) \/ BreakLoop(k) \/ AbortLoop(k)
  <2>1. \E outcome : Become(Leave(Now, k, outcome))
    BY <1>2 DEF FinishLoop, BreakLoop, AbortLoop
  <2>. QED
    BY <1>1, <2>1, LeaveHomed, BecomeHomed
<1>3. CASE AbandonBatch(k)
  <2>. DEFINE closed == Gated(Now, OpenBatch(k), "lost")
  <2>1. Become(Leave(closed, k, "failed"))
    BY <1>3 DEF AbandonBatch
  <2>2. Good(closed) /\ Homed(closed)
    BY GatedLeads, LeadsKeepsGood, GatedHomed
  <2>3. closed.run[k].pc = "loop"
    BY <1>1 DEF Gated, Good, Shape
  <2>. HIDE DEF closed
  <2>. QED
    BY <2>1, <2>2, <2>3, LeaveHomed, BecomeHomed
<1>. QED
  BY <1>2, <1>3

LEMMA CommitBatchHomed ==
  ASSUME Good(Now), Homed(Now), NEW k \in Runs, CommitBatch(k)
  PROVE  Homed(Now')
<1>. DEFINE closed == Gated(Now, OpenBatch(k), "committed")
            over == {c \in OpenBatch(k) : run[c].pc = "done"}
<1>1. \E status : Become(Conclude(closed, Current(closed, over), status))
  BY DEF CommitBatch
<1>2. Good(closed) /\ Homed(closed)
  BY GatedLeads, LeadsKeepsGood, GatedHomed
<1>3. Current(closed, over) \in SUBSET Tasks
  BY DEF Current
<1>. HIDE DEF closed, over
<1>. QED
  BY <1>1, <1>2, <1>3, ConcludeHomed, BecomeHomed

LEMMA ResumeFailsHomed ==
  ASSUME Good(Now), Homed(Now), NEW k \in Runs, ResumeFails(k)
  PROVE  Homed(Now')
<1>. DEFINE T == [Now EXCEPT !.run[k].pc = "done", !.run[k].outcome = "setup"]
<1>1. Now.run[k].pc = "prep" /\ Become(Finish(T, {k}, "error"))
  BY NowIs DEF ResumeFails
<1>2. Good(T) /\ Homed(T)
  BY <1>1, RunEnds, LeadsKeepsGood, PcStaysHomed
<1>. HIDE DEF T
<1>. QED
  BY <1>1, <1>2, FinishHomed, BecomeHomed

LEMMA RunStepHomed ==
  ASSUME Good(Now), Homed(Now), NEW k \in Runs, RunStep(k)
  PROVE  Homed(Now')
<1>1. CASE Settle(k)
  BY <1>1, ReportHomed, BecomeHomed, NowIs DEF Settle
<1>. QED
  BY <1>1, DetachHomed, TakeForOwnerHomed, QuietRunHomed, LaunchFailsHomed, UnwindHomed,
     CommitMainHomed, LoopEndHomed, CommitBatchHomed, ResumeFailsHomed DEF RunStep

LEMMA EndShellHomed ==
  ASSUME Good(Now), Homed(Now), NEW t \in Tasks, NEW status, EndShell(t, status)
  PROVE  Homed(Now')
<1>. DEFINE k == store[t].token
            T == [Now EXCEPT !.run[k].pc = "done"]
<1>1. Become(Finish(T, {k}, status)) /\ Running(Now, t) /\ ~Agent(Now, t)
  BY DEF EndShell
<1>2. k \in Runs /\ Now.run[k].pc \in {"proc", "done"}
  BY <1>1, NowIs DEF Running, Good, RunsAreFresh, Homed, Process
<1>. HIDE DEF k
<1>3. Good(T) /\ Homed(T)
  BY <1>2, RunEnds, LeadsKeepsGood, PcStaysHomed
<1>. HIDE DEF T
<1>. QED
  BY <1>1, <1>3, FinishHomed, BecomeHomed

LEMMA TaskStepHomed ==
  ASSUME Good(Now), Homed(Now), NEW t \in Tasks, TaskStep(t)
  PROVE  Homed(Now')
<1>1. CASE UserStop(t)
  BY <1>1, CancelHomed, BecomeHomed DEF UserStop
<1>2. CASE TaskStop(t)
  BY <1>2, CancelHomed, BecomeHomed DEF TaskStop
<1>3. CASE ShellExits(t) \/ KillShell(t)
  BY <1>3, EndShellHomed DEF ShellExits, KillShell
<1>4. CASE Evict(t)
  BY <1>4, EvictedHomed, BecomeHomed DEF Evict
<1>5. CASE CloseRow(t)
  <2>. DEFINE stopped == IF Running(Now, t)
                         THEN CancelTaskTree(Now, store[t].token, TRUE, TRUE, FALSE) ELSE Now
  <2>1. Become(Evicted(stopped, Tree(stopped, t, TRUE)))
    BY <1>5 DEF CloseRow
  <2>2. stopped \in {Now, CancelTaskTree(Now, store[t].token, TRUE, TRUE, FALSE)}
    OBVIOUS
  <2>. HIDE DEF stopped
  <2>3. Good(stopped) /\ Homed(stopped)
    BY <2>2, CancelLeads, LeadsKeepsGood, CancelHomed
  <2>. QED
    BY <2>1, <2>3, EvictedHomed, BecomeHomed
<1>. QED
  BY <1>1, <1>2, <1>3, <1>4, <1>5 DEF TaskStep

LEMMA CancelTurnHomed ==
  ASSUME Good(Now), Homed(Now), CancelTurn
  PROVE  Homed(Now')
<1>1. \E hit : Become(Abort(Now, hit))
  BY Zenon DEF CancelTurn
<1>. QED
  BY <1>1, AbortHomed, BecomeHomed

LEMMA StepKeepsHomed ==
  ASSUME Good(Now), Homed(Now), [Next]_vars
  PROVE  Homed(Now')
<1>1. CASE UNCHANGED vars
  BY <1>1, BecomeHomed, NowIs DEF Become, vars
<1>. QED
  BY <1>1, StartHomed, RunStepHomed, TaskStepHomed, CancelTurnHomed, DrainMainHomed DEF Next

\* A private notice always has a registered fork to read it, for every tree of tasks and
\* however its owner ends: the last run of the owner hands on what it did not read.
THEOREM PrivateNoticesHaveReaders == Spec => []InventoryHasOwner
<1>1. Init => Homed(Now)
  <2>. SUFFICES ASSUME Init PROVE Homed(Now)
    OBVIOUS
  <2>1. \A t \in Tasks : store[t].token = NoRun
    BY DEF Init, Row
  <2>. QED
    BY <2>1, NowIs, NoRunIsNone DEF Init, Homed
<1>2. Good(Now) /\ Homed(Now) /\ [Next]_vars => Homed(Now)'
  BY StepKeepsHomed
<1>3. Homed(Now) => InventoryHasOwner
  BY NowIs DEF Homed, InventoryHasOwner
<1>. QED
  BY <1>1, <1>2, <1>3, Invariant, PTL DEF Spec
==============================================================================
