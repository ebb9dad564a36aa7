--------------------------- MODULE EmitQueue_proofs ---------------------------
(***************************************************************************)
(* The safety of the delivery queue for every set of owners, keys and      *)
(* callers.  The properties support each other: a private envelope keeps   *)
(* its owner because a release promotes, a parked fork misses nothing      *)
(* because every change of the queue is published, and a sticky envelope   *)
(* is not repeated because its key has one envelope.                       *)
(***************************************************************************)
EXTENDS EmitQueue, FiniteSetTheorems, SequenceTheorems, TLAPS

\* Only orphaned tool calls are sticky, so one drain takes every sticky envelope
\* of a key.
StickyIsInterrupt == \A i \in queue : i.sticky => i.class = "interrupt_bash"

Inv ==
    /\ QueueTypeOK
    /\ InventoryHasOwner
    /\ NoLostWakeup
    /\ SnapshotCurrent
    /\ OneEnvelopePerKey
    /\ StickyOncePerTurn
    /\ StickyIsInterrupt

----------------------------------------------------------------------------
(* What the operators of the queue return *)

\* An envelope fit to be filed: fresh from a caller, and not a consumed sticky one.
Fileable(e) ==
    /\ e \in Envelope
    /\ e.target = "inventory" => e.owner \in Owners /\ IsOwnerRegistered(e.owner)
    /\ e.sticky => e.class = "interrupt_bash"

LEMMA SnapshotType ==
    ASSUME NEW q, NEW active \in BOOLEAN
    PROVE  SnapshotOf(q, active) \in [hasPendingAutoTurn : BOOLEAN, turnActive : BOOLEAN]
BY DEF SnapshotOf, PendingAutoTurn

\* With one envelope per key the envelope to replace is the only holder.
LEMMA OnlyHolder ==
    ASSUME NEW q \in SUBSET Envelope, NEW e \in Envelope,
           \A i, j \in q : i.key # NoKey /\ i.key = j.key /\ i.class = j.class => i = j,
           Holders(q, e) # {}
    PROVE  Holders(q, e) = {FirstHolder(q, e)}
<1>1. PICK h \in Holders(q, e) : TRUE
  OBVIOUS
<1>2. \A i \in Holders(q, e) : i = h
  BY <1>1 DEF Holders
<1>3. h.slot \in Nat
  BY <1>1 DEF Holders, Envelope
<1>4. \A j \in Holders(q, e) : h.slot <= j.slot
  BY <1>2, <1>3
<1>5. FirstHolder(q, e) \in Holders(q, e)
  BY <1>1, <1>4 DEF FirstHolder
<1> QED
  BY <1>2, <1>5

\* Filing keeps what was queued, but for the envelope of the same key, and adds
\* the new one at some place.
LEMMA FiledMembers ==
    ASSUME NEW q \in SUBSET Envelope, NEW e \in Envelope,
           \A i, j \in q : i.key # NoKey /\ i.key = j.key /\ i.class = j.class => i = j
    PROVE  \E n \in Nat :
             SpliceOrPush(q, e) = (q \ Holders(q, e)) \cup {[e EXCEPT !.slot = n]}
<1>1. CASE Holders(q, e) = {}
  <2>1. e = [e EXCEPT !.slot = e.slot]
    BY DEF Envelope
  <2>2. e.slot \in Nat
    BY DEF Envelope
  <2> QED
    BY <1>1, <2>1, <2>2 DEF SpliceOrPush
<1>2. CASE Holders(q, e) # {}
  <2>1. Holders(q, e) = {FirstHolder(q, e)}
    BY <1>2, OnlyHolder
  <2>2. FirstHolder(q, e).slot \in Nat
    BY <2>1 DEF Holders, Envelope
  <2> QED
    BY <1>2, <2>1, <2>2 DEF SpliceOrPush
<1> QED
  BY <1>1, <1>2

----------------------------------------------------------------------------
(* Publishing a change *)

\* Whatever a step does to the queue, publishing it restores what the subscribers
\* rely on, as long as the owners that wait stay registered.
LEMMA SyncPublishes ==
    ASSUME waiting \subseteq Owners,
           \A o \in waiting : IsOwnerRegistered(o)',
           turnActive' \in BOOLEAN,
           Sync(queue', turnActive')
    PROVE  /\ NoLostWakeup'
           /\ SnapshotCurrent'
           /\ snapshot' \in [hasPendingAutoTurn : BOOLEAN, turnActive : BOOLEAN]
           /\ waiting' \subseteq Owners
<1>1. snapshot' = SnapshotOf(queue', turnActive')
  BY DEF Sync
<1>2. waiting' = {o \in waiting : ~HasOwnerInventory(queue', o)}
  BY DEF Sync
<1>3. NoLostWakeup'
  BY <1>2 DEF NoLostWakeup
<1>4. SnapshotCurrent'
  BY <1>1 DEF SnapshotCurrent
<1> QED
  BY <1>1, <1>2, <1>3, <1>4, SnapshotType

\* Removing envelopes disturbs nothing but the sticky keys that go with them.
LEMMA RemovalKeepsInv ==
    ASSUME Inv, NEW gone \in SUBSET queue,
           queue' = queue \ gone,
           Sync(queue', turnActive'),
           turnActive' \in BOOLEAN,
           \/ consumedStickyKeys' = consumedStickyKeys \cup StickyKeysOf(gone)
           \/ consumedStickyKeys' = StickyKeysOf(gone)
           \/ consumedStickyKeys' = consumedStickyKeys,
           unwinding' \in 0..MaxUnwinding,
           UNCHANGED <<idCounter, leases>>
    PROVE  Inv'
<1> USE DEF Inv
<1>1. \A o \in waiting : IsOwnerRegistered(o)'
  BY DEF NoLostWakeup, IsOwnerRegistered
<1>2. waiting \subseteq Owners
  BY DEF QueueTypeOK
<1>3. /\ NoLostWakeup'
      /\ SnapshotCurrent'
      /\ snapshot' \in [hasPendingAutoTurn : BOOLEAN, turnActive : BOOLEAN]
      /\ waiting' \subseteq Owners
  BY <1>1, <1>2, SyncPublishes
<1>4. queue' \subseteq queue
  OBVIOUS
<1>5. StickyKeysOf(gone) \subseteq Keys
  BY DEF StickyKeysOf, QueueTypeOK, Envelope
<1>6. QueueTypeOK'
  BY <1>3, <1>4, <1>5 DEF QueueTypeOK
<1>7. InventoryHasOwner'
  BY <1>4 DEF InventoryHasOwner, IsOwnerRegistered
<1>8. OneEnvelopePerKey'
  BY <1>4 DEF OneEnvelopePerKey
<1>9. StickyIsInterrupt'
  BY <1>4 DEF StickyIsInterrupt
<1>10. StickyOncePerTurn'
  <2> SUFFICES ASSUME NEW i \in queue', i.sticky, i.key # NoKey
               PROVE  i.key \notin consumedStickyKeys'
    BY DEF StickyOncePerTurn
  <2>1. i.key \notin consumedStickyKeys
    BY <1>4 DEF StickyOncePerTurn
  <2>2. ASSUME NEW d \in gone, d.sticky, d.key = i.key
        PROVE  FALSE
    BY <2>2, <1>4 DEF StickyIsInterrupt, OneEnvelopePerKey
  <2>3. i.key \notin StickyKeysOf(gone)
    BY <2>2 DEF StickyKeysOf
  <2> QED
    BY <2>1, <2>3
<1> QED
  BY <1>3, <1>6, <1>7, <1>8, <1>9, <1>10

----------------------------------------------------------------------------
(* The actions *)

LEMMA EnqueueKeepsInv ==
    ASSUME Inv, NEW e, Fileable(e), Enqueue(e)
    PROVE  Inv'
<1> USE DEF Inv
<1>1. CASE BlockedBySticky(e)
  <2>1. UNCHANGED <<queue, snapshot, waiting, consumedStickyKeys, leases, turnActive, unwinding>>
    BY <1>1 DEF Enqueue, NoSync
  <2>2. idCounter' \in 0..MaxSeq
    BY BoundsAssumption DEF Enqueue, QueueTypeOK
  <2> QED
    BY <2>1, <2>2 DEF QueueTypeOK, InventoryHasOwner, NoLostWakeup, SnapshotCurrent,
      OneEnvelopePerKey, StickyOncePerTurn, StickyIsInterrupt, IsOwnerRegistered
<1>2. CASE ~BlockedBySticky(e)
  <2>1. /\ queue' = SpliceOrPush(queue, e)
        /\ Sync(queue', turnActive)
        /\ idCounter' = idCounter + 1
        /\ idCounter < MaxSeq
        /\ UNCHANGED <<consumedStickyKeys, leases, turnActive, unwinding>>
    BY <1>2 DEF Enqueue
  <2>2. PICK n \in Nat : queue' = (queue \ Holders(queue, e)) \cup {[e EXCEPT !.slot = n]}
    BY <2>1, FiledMembers DEF QueueTypeOK, OneEnvelopePerKey, Fileable
  <2> DEFINE f == [e EXCEPT !.slot = n]
  <2>3. /\ f \in Envelope
        /\ f.class = e.class /\ f.target = e.target /\ f.owner = e.owner
        /\ f.key = e.key /\ f.sticky = e.sticky
    BY DEF Fileable, Envelope
  <2>4. \A i \in queue' : i = f \/ i \in queue \ Holders(queue, e)
    BY <2>2
  <2> HIDE DEF f
  <2>5. /\ NoLostWakeup'
        /\ SnapshotCurrent'
        /\ snapshot' \in [hasPendingAutoTurn : BOOLEAN, turnActive : BOOLEAN]
        /\ waiting' \subseteq Owners
    BY <2>1, SyncPublishes DEF QueueTypeOK, NoLostWakeup, IsOwnerRegistered
  <2>6. QueueTypeOK'
    BY <2>1, <2>3, <2>4, <2>5, BoundsAssumption DEF QueueTypeOK
  <2>7. InventoryHasOwner'
    BY <2>1, <2>3, <2>4 DEF InventoryHasOwner, Fileable, IsOwnerRegistered
  <2>8. StickyIsInterrupt'
    BY <2>3, <2>4 DEF StickyIsInterrupt, Fileable
  <2>9. OneEnvelopePerKey'
    <3>1. \A i \in queue \ Holders(queue, e) :
             ~(i.key # NoKey /\ i.key = f.key /\ i.class = f.class)
      BY <2>3 DEF Holders
    <3> QED
      BY <2>4, <3>1 DEF OneEnvelopePerKey
  <2>10. StickyOncePerTurn'
    BY <1>2, <2>1, <2>3, <2>4 DEF StickyOncePerTurn, BlockedBySticky
  <2> QED
    BY <2>5, <2>6, <2>7, <2>8, <2>9, <2>10
<1> QED
  BY <1>1, <1>2

LEMMA EmitIsFileable ==
    ASSUME Inv, NEW in \in DirectInputs
    PROVE  Fileable(NextArrival(in.class, in.target, NoOwner, in.key, in.sticky))
BY InputsAssumption, BoundsAssumption
   DEF Fileable, NextArrival, Envelope, Inv, QueueTypeOK, Target

LEMMA CompletionIsFileable ==
    ASSUME Inv, NEW in \in CompletionInputs
    PROVE  Fileable(NextArrival(in.class, CompletionTarget(in.owner), in.owner, in.key, FALSE))
BY InputsAssumption, BoundsAssumption
   DEF Fileable, NextArrival, Envelope, Inv, QueueTypeOK, Target, Class, CompletionTarget,
       IsOwnerRegistered

LEMMA DrainKeepsInv ==
    ASSUME Inv, NEW boundary, DrainForBoundary(boundary)
    PROVE  Inv'
<1>1. PlanDrain(queue, boundary) \subseteq queue
  BY DEF PlanDrain
<1>2. QueueTypeOK
  BY DEF Inv
<1> QED
  BY <1>1, <1>2, RemovalKeepsInv DEF DrainForBoundary, CommitDrain, QueueTypeOK

LEMMA TakeKeepsInv ==
    ASSUME Inv, NEW o, TakeForOwner(o)
    PROVE  Inv'
<1>1. OwnerInventory(queue, o) \subseteq queue
  BY DEF OwnerInventory
<1>2. QueueTypeOK
  BY DEF Inv
<1> QED
  BY <1>1, <1>2, RemovalKeepsInv DEF TakeForOwner, CommitDrain, QueueTypeOK

LEMMA CancelKeepsInv ==
    ASSUME Inv, NEW k, Cancel(k)
    PROVE  Inv'
<1> DEFINE gone == {i \in queue : i.key = k}
<1>1. gone \subseteq queue /\ queue' = queue \ gone
  BY DEF Cancel
<1>2. QueueTypeOK
  BY DEF Inv
<1> HIDE DEF gone
<1> QED
  BY <1>1, <1>2, RemovalKeepsInv DEF Cancel, QueueTypeOK

\* Dropping consumed sticky keys, or nothing at all, cannot break a property.
LEMMA QuietKeepsInv ==
    ASSUME Inv,
           UNCHANGED <<queue, idCounter, leases, turnActive, snapshot, waiting>>,
           consumedStickyKeys' \subseteq consumedStickyKeys,
           unwinding' \in 0..MaxUnwinding
    PROVE  Inv'
BY DEF Inv, QueueTypeOK, InventoryHasOwner, NoLostWakeup, SnapshotCurrent,
       OneEnvelopePerKey, StickyOncePerTurn, StickyIsInterrupt, IsOwnerRegistered

LEMMA BeginTurnKeepsInv ==
    ASSUME Inv, BeginTurn
    PROVE  Inv'
<1> DEFINE gone == PlanDrain(queue, "turn_start")
<1>1. gone \subseteq queue
  BY DEF PlanDrain
<1>2. /\ queue' = queue \ gone
      /\ consumedStickyKeys' = StickyKeysOf(gone)
      /\ turnActive' = TRUE
      /\ Sync(queue', turnActive')
      /\ UNCHANGED <<idCounter, leases, unwinding>>
  BY DEF BeginTurn, SetTurnActive, CommitDrain
<1>3. QueueTypeOK
  BY DEF Inv
<1> HIDE DEF gone
<1> QED
  BY <1>1, <1>2, <1>3, RemovalKeepsInv DEF QueueTypeOK

LEMMA SupersedeTurnKeepsInv ==
    ASSUME Inv, SupersedeTurn
    PROVE  Inv'
<1>1. QueueTypeOK
  BY DEF Inv
<1>2. turnActive = TRUE /\ turnActive' = TRUE
  BY <1>1 DEF SupersedeTurn, SetTurnActive, QueueTypeOK
<1>3. /\ UNCHANGED <<queue, idCounter, leases, turnActive, snapshot, waiting>>
      /\ consumedStickyKeys' = {}
  BY <1>2 DEF SupersedeTurn, SetTurnActive, CommitDrain, NoSync, StickyKeysOf
<1>4. unwinding' \in 0..MaxUnwinding
  BY <1>1, BoundsAssumption DEF SupersedeTurn, QueueTypeOK
<1> QED
  BY <1>3, <1>4, QuietKeepsInv

LEMMA EndTurnKeepsInv ==
    ASSUME Inv, EndTurn
    PROVE  Inv'
<1>1. QueueTypeOK
  BY DEF Inv
<1>2. turnActive = TRUE /\ turnActive' = FALSE
  BY <1>1 DEF EndTurn, SetTurnActive, QueueTypeOK
<1>3. /\ queue' = queue \ {}
      /\ consumedStickyKeys' = consumedStickyKeys \cup StickyKeysOf({})
      /\ Sync(queue', turnActive')
      /\ UNCHANGED <<idCounter, leases, unwinding>>
  BY <1>2 DEF EndTurn, SetTurnActive, CommitDrain
<1>4. unwinding' \in 0..MaxUnwinding /\ turnActive' \in BOOLEAN
  BY <1>1, <1>2, <1>3 DEF QueueTypeOK
<1>5. {} \in SUBSET queue
  OBVIOUS
<1> QED
  BY <1>3, <1>4, <1>5, RemovalKeepsInv

LEMMA RegisterKeepsInv ==
    ASSUME Inv, NEW o \in Owners, RegisterOwner(o)
    PROVE  Inv'
<1> USE DEF Inv
<1>1. leases' \in [Owners -> 0..MaxLeases]
  BY BoundsAssumption DEF RegisterOwner, QueueTypeOK
<1>2. \A p \in Owners : IsOwnerRegistered(p) => IsOwnerRegistered(p)'
  BY DEF RegisterOwner, QueueTypeOK, IsOwnerRegistered
<1>3. UNCHANGED <<queue, idCounter, consumedStickyKeys, turnActive, unwinding, snapshot, waiting>>
  BY DEF RegisterOwner, NoSync
<1>4. InventoryHasOwner'
  BY <1>2, <1>3 DEF InventoryHasOwner
<1>5. NoLostWakeup'
  BY <1>2, <1>3 DEF NoLostWakeup, QueueTypeOK
<1> QED
  BY <1>1, <1>3, <1>4, <1>5 DEF QueueTypeOK, SnapshotCurrent, OneEnvelopePerKey,
     StickyOncePerTurn, StickyIsInterrupt

\* A step that rewrites owners and targets in place keeps every key, class and
\* sticky flag.
LEMMA RetargetKeepsKeys ==
    ASSUME Inv, NEW g,
           queue' = {g[i] : i \in queue},
           \A i \in queue : /\ g[i] \in Envelope
                            /\ g[i].key = i.key /\ g[i].class = i.class
                            /\ g[i].sticky = i.sticky,
           UNCHANGED consumedStickyKeys
    PROVE  /\ queue' \subseteq Envelope
           /\ OneEnvelopePerKey'
           /\ StickyOncePerTurn'
           /\ StickyIsInterrupt'
BY DEF Inv, OneEnvelopePerKey, StickyOncePerTurn, StickyIsInterrupt

LEMMA ReparentKeepsInv ==
    ASSUME Inv, NEW k, NEW o \in Owners \cup {NoOwner}, Reparent(k, o)
    PROVE  Inv'
<1> USE DEF Inv
<1> DEFINE g == [i \in queue |-> IF i.key = k
                   THEN [i EXCEPT !.owner = o, !.target = CompletionTarget(o)] ELSE i]
<1>1. queue' = {g[i] : i \in queue}
  BY DEF Reparent
<1>2. UNCHANGED <<idCounter, consumedStickyKeys, leases, turnActive, unwinding>>
  BY DEF Reparent
<1>3. \A i \in queue : /\ g[i] \in Envelope
                       /\ g[i].key = i.key /\ g[i].class = i.class
                       /\ g[i].sticky = i.sticky
  <2>1. CompletionTarget(o) \in Target
    BY DEF CompletionTarget, Target
  <2> QED
    BY <2>1, ZenonT(40) DEF QueueTypeOK, Envelope
<1>4. \A i \in queue : g[i].target = "inventory" =>
         g[i].owner \in Owners /\ IsOwnerRegistered(g[i].owner)
  BY DEF QueueTypeOK, Envelope, CompletionTarget, InventoryHasOwner
<1> HIDE DEF g
<1>5. /\ queue' \subseteq Envelope
      /\ OneEnvelopePerKey'
      /\ StickyOncePerTurn'
      /\ StickyIsInterrupt'
  BY <1>1, <1>2, <1>3, RetargetKeepsKeys
<1>6. InventoryHasOwner'
  BY <1>1, <1>2, <1>4 DEF InventoryHasOwner, IsOwnerRegistered
<1>7. /\ NoLostWakeup'
      /\ SnapshotCurrent'
      /\ snapshot' \in [hasPendingAutoTurn : BOOLEAN, turnActive : BOOLEAN]
      /\ waiting' \subseteq Owners
  BY <1>2, SyncPublishes DEF Reparent, QueueTypeOK, NoLostWakeup, IsOwnerRegistered
<1> QED
  BY <1>2, <1>5, <1>6, <1>7 DEF QueueTypeOK

LEMMA ReleaseKeepsInv ==
    ASSUME Inv, NEW o \in Owners, ReleaseOwner(o)
    PROVE  Inv'
<1> USE DEF Inv
<1>1. /\ leases' \in [Owners -> 0..MaxLeases]
      /\ \A p \in Owners \ {o} : leases'[p] = leases[p]
      /\ leases'[o] = leases[o] - 1
  BY BoundsAssumption DEF ReleaseOwner, QueueTypeOK
<1>2. \A p \in waiting : IsOwnerRegistered(p)'
  BY <1>1 DEF ReleaseOwner, NoLostWakeup, QueueTypeOK, IsOwnerRegistered
<1>3. UNCHANGED <<idCounter, consumedStickyKeys, turnActive, unwinding>>
  BY DEF ReleaseOwner
<1>4. CASE leases[o] = 1 /\ HasOwnerInventory(queue, o)
  <2> DEFINE g == [i \in queue |-> IF i.owner = o /\ i.target = "inventory"
                     THEN [i EXCEPT !.target = "both"] ELSE i]
  <2>1. queue' = {g[i] : i \in queue} /\ Sync(queue', turnActive')
    BY <1>3, <1>4 DEF ReleaseOwner, Promote
  <2>2. \A i \in queue : /\ g[i] \in Envelope
                         /\ g[i].key = i.key /\ g[i].class = i.class
                         /\ g[i].sticky = i.sticky
    BY DEF QueueTypeOK, Envelope, Target
  <2>3. \A i \in queue : g[i].target = "inventory" =>
           g[i].owner \in Owners \ {o} /\ IsOwnerRegistered(g[i].owner)
    BY DEF QueueTypeOK, Envelope, InventoryHasOwner
  <2> HIDE DEF g
  <2>4. /\ queue' \subseteq Envelope
        /\ OneEnvelopePerKey'
        /\ StickyOncePerTurn'
        /\ StickyIsInterrupt'
    BY <1>3, <2>1, <2>2, RetargetKeepsKeys
  <2>5. InventoryHasOwner'
    BY <1>1, <2>1, <2>3 DEF InventoryHasOwner, IsOwnerRegistered
  <2>6. /\ NoLostWakeup'
        /\ SnapshotCurrent'
        /\ snapshot' \in [hasPendingAutoTurn : BOOLEAN, turnActive : BOOLEAN]
        /\ waiting' \subseteq Owners
    BY <1>2, <1>3, <2>1, SyncPublishes DEF QueueTypeOK
  <2> QED
    BY <1>1, <1>3, <2>4, <2>5, <2>6 DEF QueueTypeOK
<1>5. CASE ~(leases[o] = 1 /\ HasOwnerInventory(queue, o))
  <2>1. UNCHANGED <<queue, snapshot, waiting>>
    BY <1>5 DEF ReleaseOwner, NoSync
  <2>2. InventoryHasOwner'
    <3> SUFFICES ASSUME NEW i \in queue, i.target = "inventory"
                 PROVE  i.owner \in Owners /\ leases'[i.owner] > 0
      BY <2>1 DEF InventoryHasOwner, IsOwnerRegistered
    <3>1. i.owner \in Owners /\ leases[i.owner] > 0
      BY DEF InventoryHasOwner, IsOwnerRegistered
    <3>2. CASE i.owner = o
      <4>1. HasOwnerInventory(queue, o)
        BY <3>2 DEF HasOwnerInventory
      <4>2. leases[o] # 1 /\ leases[o] \in Nat
        BY <1>5, <4>1, BoundsAssumption DEF QueueTypeOK
      <4> QED
        BY <1>1, <3>1, <3>2, <4>2
    <3>3. CASE i.owner # o
      BY <1>1, <3>1, <3>3
    <3> QED
      BY <3>2, <3>3
  <2>3. NoLostWakeup'
    BY <1>2, <2>1 DEF NoLostWakeup, HasOwnerInventory
  <2> QED
    BY <1>1, <1>3, <2>1, <2>2, <2>3 DEF QueueTypeOK, SnapshotCurrent, OneEnvelopePerKey,
       StickyOncePerTurn, StickyIsInterrupt
<1> QED
  BY <1>4, <1>5

LEMMA WaitKeepsInv ==
    ASSUME Inv, NEW o \in Owners, WaitForOwner(o) \/ AbandonWait(o)
    PROVE  Inv'
<1> USE DEF Inv
<1>1. UNCHANGED <<queue, idCounter, consumedStickyKeys, leases, turnActive, unwinding, snapshot>>
  BY DEF WaitForOwner, AbandonWait
<1>2. \A p \in waiting' : p \in waiting \/ (p = o /\ IsOwnerRegistered(o) /\ ~HasOwnerInventory(queue, o))
  BY DEF WaitForOwner, AbandonWait
<1>3. \A p \in waiting' : IsOwnerRegistered(p) /\ ~HasOwnerInventory(queue, p)
  BY <1>2 DEF NoLostWakeup
<1>4. NoLostWakeup'
  BY <1>1, <1>3 DEF NoLostWakeup, IsOwnerRegistered, HasOwnerInventory
<1>5. waiting' \subseteq Owners
  BY <1>2 DEF QueueTypeOK
<1>6. QueueTypeOK'
  BY <1>1, <1>5 DEF QueueTypeOK
<1> QED
  BY <1>1, <1>4, <1>6 DEF InventoryHasOwner, SnapshotCurrent, OneEnvelopePerKey,
     StickyOncePerTurn, StickyIsInterrupt, IsOwnerRegistered

----------------------------------------------------------------------------
(* The theorems *)

LEMMA InitInv == Init => Inv
<1> SUFFICES ASSUME Init PROVE Inv
  OBVIOUS
<1>1. snapshot \in [hasPendingAutoTurn : BOOLEAN, turnActive : BOOLEAN]
  BY SnapshotType DEF Init
<1>2. leases \in [Owners -> 0..MaxLeases]
  BY BoundsAssumption DEF Init
<1>3. 0 \in 0..MaxSeq /\ 0 \in 0..MaxUnwinding
  BY BoundsAssumption
<1>4. QueueTypeOK
  BY <1>1, <1>2, <1>3 DEF Init, QueueTypeOK
<1> QED
  BY <1>4 DEF Init, Inv, InventoryHasOwner, NoLostWakeup, SnapshotCurrent,
     OneEnvelopePerKey, StickyOncePerTurn, StickyIsInterrupt

LEMMA NextInv == Inv /\ [Next]_vars => Inv'
<1> SUFFICES ASSUME Inv, [Next]_vars PROVE Inv'
  OBVIOUS
<1>1. ASSUME NEW in \in DirectInputs, Emit(in) PROVE Inv'
  BY <1>1, EmitIsFileable, EnqueueKeepsInv DEF Emit
<1>2. ASSUME NEW in \in CompletionInputs, EmitForCompletion(in) PROVE Inv'
  BY <1>2, CompletionIsFileable, EnqueueKeepsInv DEF EmitForCompletion
<1>3. ASSUME MainTurn PROVE Inv'
  <2>1. CASE BeginTurn
    BY <2>1, BeginTurnKeepsInv
  <2>2. CASE SupersedeTurn
    BY <2>2, SupersedeTurnKeepsInv
  <2>3. CASE EndTurn
    BY <2>3, EndTurnKeepsInv
  <2>4. CASE EndSuperseded
    <3>1. unwinding' \in 0..MaxUnwinding
      BY <2>4, BoundsAssumption DEF EndSuperseded, Inv, QueueTypeOK
    <3> QED
      BY <2>4, <3>1, QuietKeepsInv DEF EndSuperseded, NoSync
  <2>5. CASE turnActive /\ DrainForBoundary("mid_turn")
    BY <2>5, DrainKeepsInv
  <2>6. CASE (turnActive \/ unwinding > 0) /\ DrainForBoundary("tool_loop_end")
    BY <2>6, DrainKeepsInv
  <2> QED
    BY <1>3, <2>1, <2>2, <2>3, <2>4, <2>5, <2>6 DEF MainTurn
<1>4. ASSUME NEW o \in Owners, Fork(o) PROVE Inv'
  <2>1. CASE RegisterOwner(o)
    BY <2>1, RegisterKeepsInv
  <2>2. CASE ReleaseOwner(o)
    BY <2>2, ReleaseKeepsInv
  <2>3. CASE IsOwnerRegistered(o) /\ TakeForOwner(o)
    BY <2>3, TakeKeepsInv
  <2>4. CASE WaitForOwner(o) \/ AbandonWait(o)
    BY <2>4, WaitKeepsInv
  <2> QED
    BY <1>4, <2>1, <2>2, <2>3, <2>4 DEF Fork
<1>5. ASSUME NEW k \in TaskKeys, Cancel(k) \/ Reparent(k, NoOwner) PROVE Inv'
  BY <1>5, CancelKeepsInv, ReparentKeepsInv
<1>6. CASE UNCHANGED vars
  <2>1. unwinding' \in 0..MaxUnwinding
    BY <1>6 DEF vars, Inv, QueueTypeOK
  <2> QED
    BY <1>6, <2>1, QuietKeepsInv DEF vars
<1> QED
  BY <1>1, <1>2, <1>3, <1>4, <1>5, <1>6 DEF Next, Producers, TaskLifecycle

THEOREM InvHolds == Spec => []Inv
BY InitInv, NextInv, PTL DEF Spec

\* No completion is filed, or left, with an owner that is not there to take it.
THEOREM NoOrphanedInventory == Spec => []InventoryHasOwner
<1>1. Inv => InventoryHasOwner
  BY DEF Inv
<1> QED
  BY <1>1, InvHolds, PTL

\* A parked fork never sleeps on inventory it could take.
THEOREM ParkedForksWake == Spec => []NoLostWakeup
<1>1. Inv => NoLostWakeup
  BY DEF Inv
<1> QED
  BY <1>1, InvHolds, PTL

\* The published snapshot is never behind the queue.
THEOREM SnapshotNeverStale == Spec => []SnapshotCurrent
<1>1. Inv => SnapshotCurrent
  BY DEF Inv
<1> QED
  BY <1>1, InvHolds, PTL

\* Replacement keeps one envelope per replay key and class.
THEOREM KeysAreUnique == Spec => []OneEnvelopePerKey
<1>1. Inv => OneEnvelopePerKey
  BY DEF Inv
<1> QED
  BY <1>1, InvHolds, PTL

\* A sticky envelope is not repeated within a turn.
THEOREM StickyIsNotRepeated == Spec => []StickyOncePerTurn
<1>1. Inv => StickyOncePerTurn
  BY DEF Inv
<1> QED
  BY <1>1, InvHolds, PTL

----------------------------------------------------------------------------
(* The replay keys remembered as consumed *)

BoundedKeys == {s \in Seq(Keys) : Len(s) <= MaxReplayKeys}

\* A class has its place in the priority order.
LEMMA RankIs ==
  ASSUME NEW c \in Class
  PROVE  ClassRank(c) \in 1..4 /\ PriorityOrder[ClassRank(c)] = c
<1>1. \E n \in DOMAIN PriorityOrder : PriorityOrder[n] = c
  BY DEF Class, PriorityOrder
<1>2. DOMAIN PriorityOrder = 1..4
  BY DEF PriorityOrder
<1>. QED
  BY <1>1, <1>2 DEF ClassRank

\* Marking one more key forgets the oldest when the memory is full.
LEMMA MarkedOnce ==
  ASSUME NEW keys \in BoundedKeys, NEW k \in Keys
  PROVE  MarkReplayKeyConsumed(keys, k) \in BoundedKeys
<1>1. MaxReplayKeys \in Nat \ {0}
  BY BoundsAssumption
<1>2. CASE Len(keys) >= MaxReplayKeys
  <2>1. Tail(keys) \in Seq(Keys) /\ Len(Tail(keys)) = Len(keys) - 1
    BY <1>1, <1>2, HeadTailProperties DEF BoundedKeys
  <2>. QED
    BY <1>1, <1>2, <2>1 DEF BoundedKeys, MarkReplayKeyConsumed
<1>3. CASE ~(Len(keys) >= MaxReplayKeys)
  BY <1>1, <1>3 DEF BoundedKeys, MarkReplayKeyConsumed
<1>. QED
  BY <1>2, <1>3

\* The fold over a batch, written as the recursive function it is.
LEMMA FoldIs ==
  ASSUME NEW D, NEW keys
  PROVE  LET iter[s \in SUBSET D] ==
               IF s = {} THEN keys
               ELSE MarkReplayKeyConsumed(iter[s \ {LastInArrays(s)}], LastInArrays(s).key)
         IN  MapThenFoldSet(LAMBDA k, marked : MarkReplayKeyConsumed(marked, k), keys,
                              LAMBDA i : i.key, LastInArrays, D) = iter[D]
BY DEF MapThenFoldSet

\* A set of numbers has a least one: the intervals from 1 are ordered as their ends are.
LEMMA MinIs ==
  ASSUME NEW S \in SUBSET Nat, S # {}
  PROVE  Min(S) \in S /\ \A y \in S : Min(S) <= y
<1>. DEFINE T == {1..x : x \in S}
<1>1. T \subseteq FiniteSubsetsOf(Nat) /\ T # {}
  <2>1. ASSUME NEW x \in S
        PROVE  1..x \in SUBSET Nat /\ IsFiniteSet(1..x)
    <3>1. 1 \in Int /\ x \in Int
      OBVIOUS
    <3>2. IsFiniteSet(1..x)
      BY <3>1, FS_Interval
    <3>. QED
      BY <3>2
  <2>. QED
    BY <2>1 DEF FiniteSubsetsOf
<1>2. PICK I \in T : \A J \in T : <<J, I>> \notin StrictSubsetOrdering(Nat)
  BY <1>1, FS_StrictSubsetOrderingWellFounded, WFMin
<1>3. PICK x \in S : I = 1..x
  BY <1>2
<1>4. ASSUME NEW y \in S, y < x
      PROVE  FALSE
  <2>1. 1..y \subseteq 1..x /\ x \in 1..x /\ x \notin 1..y
    BY <1>4
  <2>2. 1..y \in SUBSET Nat /\ 1..x \in SUBSET Nat /\ 1..y \in T
    OBVIOUS
  <2>3. <<1..y, 1..x>> \in StrictSubsetOrdering(Nat)
    BY <2>1, <2>2 DEF StrictSubsetOrdering
  <2>. QED
    BY <1>2, <1>3, <2>2, <2>3
<1>5. \A y \in S : x <= y
  BY <1>4
<1>. QED
  BY <1>5 DEF Min

\* The place of an envelope in the arrays is before, beside or after another's.
LEMMA ArraysAreOrdered ==
  ASSUME NEW i \in Envelope, NEW j \in Envelope, NEW k \in Envelope
  PROVE  /\ ArrayOrder(i, i)
         /\ ArrayOrder(i, j) \/ ArrayOrder(j, i)
         /\ ArrayOrder(i, j) /\ ArrayOrder(j, k) => ArrayOrder(i, k)
<1>. DEFINE R(e) == ClassRank(e.class)
<1>1. /\ R(i) \in Nat /\ R(j) \in Nat /\ R(k) \in Nat
      /\ i.slot \in Nat /\ j.slot \in Nat /\ k.slot \in Nat
  BY RankIs DEF Envelope
<1>2. R(i) = R(j) => i.class = j.class
  BY RankIs DEF Envelope
<1>. HIDE DEF R
<1>3. \A a, b : ArrayOrder(a, b) <=> R(a) < R(b) \/ (a.class = b.class /\ a.slot <= b.slot)
  BY DEF ArrayOrder, R
<1>4. \A a, b : a.class = b.class => R(a) = R(b)
  BY DEF R
<1>. QED
  BY <1>1, <1>2, <1>3, <1>4

\* There is a last envelope in every batch: a least batch without one would have one.
LEMMA LastIs ==
  ASSUME NEW D, D \subseteq Envelope, IsFiniteSet(D), D # {}
  PROVE  LastInArrays(D) \in D
<1>. DEFINE HasLast(s) == \E i \in s : \A j \in s : ArrayOrder(j, i)
            T == {s \in SUBSET D : s # {} /\ ~HasLast(s)}
<1>1. T \subseteq FiniteSubsetsOf(D)
  BY FS_FiniteSubsetsOfFinite
<1>2. T = {}
  <2>. SUFFICES ASSUME T # {} PROVE FALSE
    OBVIOUS
  <2>1. PICK I \in T : \A J \in T : <<J, I>> \notin StrictSubsetOrdering(D)
    BY <1>1, FS_StrictSubsetOrderingWellFounded, WFMin
  <2>2. PICK x \in I : TRUE
    BY <2>1
  <2>3. I \subseteq Envelope /\ ArrayOrder(x, x)
    BY ArraysAreOrdered
  <2>4. CASE I \ {x} = {}
    BY <2>2, <2>3, <2>4
  <2>5. CASE I \ {x} # {}
    <3>1. <<I \ {x}, I>> \in StrictSubsetOrdering(D)
      BY <2>2 DEF StrictSubsetOrdering
    <3>2. PICK y \in I \ {x} : \A j \in I \ {x} : ArrayOrder(j, y)
      BY <2>1, <2>5, <3>1
    <3>3. CASE ArrayOrder(x, y)
      BY <3>2, <3>3
    <3>4. CASE ArrayOrder(y, x)
      <4>1. \A j \in I : ArrayOrder(j, x)
        BY <2>3, <3>2, <3>4, ArraysAreOrdered
      <4>. QED
        BY <4>1
    <3>. QED
      BY <2>3, <3>2, <3>3, <3>4, ArraysAreOrdered
  <2>. QED
    BY <2>4, <2>5
<1>3. HasLast(D)
  BY <1>2
<1>. QED
  BY <1>3 DEF LastInArrays

\* Marking a batch, from the earliest envelope to the last, keeps the keys within
\* their bound.  The fold is a function of the batches, which exists because every
\* batch is marked after a smaller one.
LEMMA MarkedKeys ==
  ASSUME NEW keys \in BoundedKeys, NEW D, D \subseteq Envelope, IsFiniteSet(D),
         \A i \in D : i.key \in Keys
  PROVE  MapThenFoldSet(LAMBDA k, marked : MarkReplayKeyConsumed(marked, k), keys,
                        LAMBDA i : i.key, LastInArrays, D) \in BoundedKeys
<1>. DEFINE Rest(s) == s \ {LastInArrays(s)}
            Step(s, f) == IF s = {} THEN keys
                          ELSE MarkReplayKeyConsumed(f[Rest(s)], LastInArrays(s).key)
            Good(f, n) == \A s \in SUBSET D : Cardinality(s) <= n => f[s] = Step(s, f)
<1>1. \A s \in SUBSET D :
        IsFiniteSet(s) /\ Cardinality(s) \in Nat /\ (Cardinality(s) = 0 <=> s = {})
  BY FS_Subset, FS_CardinalityType, FS_EmptySet
<1>2. \A s \in SUBSET D : s # {} =>
        /\ Rest(s) \in SUBSET D /\ Cardinality(Rest(s)) = Cardinality(s) - 1
        /\ LastInArrays(s).key \in Keys
  BY <1>1, LastIs, FS_RemoveElement
<1>. HIDE DEF Rest
<1>3. \A f \in [SUBSET D -> BoundedKeys] : \A s \in SUBSET D : Step(s, f) \in BoundedKeys
  BY <1>2, MarkedOnce
<1>4. ASSUME NEW n \in Nat, NEW f \in [SUBSET D -> BoundedKeys], Good(f, n)
      PROVE  \E g \in [SUBSET D -> BoundedKeys] : Good(g, n + 1)
  <2>. DEFINE g == [s \in SUBSET D |-> IF Cardinality(s) <= n THEN f[s] ELSE Step(s, f)]
  <2>1. g \in [SUBSET D -> BoundedKeys]
    BY <1>3
  <2>2. ASSUME NEW s \in SUBSET D, Cardinality(s) <= n + 1
        PROVE  g[s] = Step(s, g)
    <3>1. g[s] = Step(s, f)
      BY <1>4
    <3>2. s # {} => g[Rest(s)] = f[Rest(s)]
      BY <1>1, <1>2, <2>2
    <3>. QED
      BY <3>1, <3>2
  <2>. HIDE DEF g
  <2>3. Good(g, n + 1)
    BY <2>2
  <2>. QED
    BY <2>1, <2>3
<1>5. \E f \in [SUBSET D -> BoundedKeys] : Good(f, 0)
  <2>. DEFINE f == [s \in SUBSET D |-> keys]
  <2>1. f \in [SUBSET D -> BoundedKeys] /\ Good(f, 0)
    BY <1>1
  <2>. QED
    BY <2>1
<1>. HIDE DEF Good
<1>6. \A n \in Nat : \E f \in [SUBSET D -> BoundedKeys] : Good(f, n)
  <2>. DEFINE N == {n \in Nat : ~\E f \in [SUBSET D -> BoundedKeys] : Good(f, n)}
  <2>. SUFFICES ASSUME N # {} PROVE FALSE
    OBVIOUS
  <2>1. PICK n \in N : \A m \in N : n <= m
    BY MinIs
  <2>2. n # 0
    BY <1>5
  <2>3. n - 1 \in Nat /\ (n - 1) + 1 = n /\ ~(n <= n - 1)
    BY <2>2
  <2>4. n - 1 \notin N
    <3>. HIDE DEF N
    <3>. QED
      BY <2>1, <2>3
  <2>5. PICK f \in [SUBSET D -> BoundedKeys] : Good(f, n - 1)
    BY <2>3, <2>4
  <2>6. \E g \in [SUBSET D -> BoundedKeys] : Good(g, (n - 1) + 1)
    BY <1>4, <2>3, <2>5
  <2>. QED
    BY <2>1, <2>3, <2>6
<1>7. PICK f : f = [s \in SUBSET D |-> Step(s, f)]
  <2>1. Cardinality(D) \in Nat
    BY <1>1
  <2>2. PICK f \in [SUBSET D -> BoundedKeys] : Good(f, Cardinality(D))
    BY <1>6, <2>1
  <2>3. \A s \in SUBSET D : f[s] = Step(s, f)
    BY <2>2, FS_Subset DEF Good
  <2>4. f = [s \in SUBSET D |-> Step(s, f)]
    BY <2>3
  <2>. QED
    BY <2>4
<1>. DEFINE iter[s \in SUBSET D] ==
              IF s = {} THEN keys
              ELSE MarkReplayKeyConsumed(iter[s \ {LastInArrays(s)}], LastInArrays(s).key)
<1>8. iter = [s \in SUBSET D |-> Step(s, iter)]
  BY <1>7 DEF Rest
<1>10. MapThenFoldSet(LAMBDA k, marked : MarkReplayKeyConsumed(marked, k), keys,
                       LAMBDA i : i.key, LastInArrays, D) = iter[D]
  BY FoldIs
<1>. HIDE DEF iter, Step
<1>9. \A s \in SUBSET D : iter[s] \in BoundedKeys
  <2>. DEFINE N == {n \in Nat : \E s \in SUBSET D :
                      Cardinality(s) = n /\ iter[s] \notin BoundedKeys}
  <2>1. N = {}
    <3>. SUFFICES ASSUME N # {} PROVE FALSE
      OBVIOUS
    <3>1. PICK n \in N : \A m \in N : n <= m
      BY MinIs
    <3>2. PICK s \in SUBSET D : Cardinality(s) = n /\ iter[s] \notin BoundedKeys
      BY <3>1
    <3>3. iter[s] = Step(s, iter)
      BY <1>8
    <3>4. s # {}
      BY <3>2, <3>3 DEF Step
    <3>5. Rest(s) \in SUBSET D /\ Cardinality(Rest(s)) = n - 1 /\ n - 1 \in Nat
      BY <1>1, <1>2, <3>2, <3>4
    <3>6. n - 1 \notin N
      BY <3>1, <3>5
    <3>7. iter[Rest(s)] \in BoundedKeys
      BY <3>5, <3>6
    <3>. QED
      BY <1>2, <3>2, <3>3, <3>4, <3>7, MarkedOnce DEF Step
  <2>. QED
    BY <1>1, <2>1
<1>. QED
  BY <1>9, <1>10

\* Forgetting a key drops at most one place.
LEMMA ForgottenKeys ==
  ASSUME NEW keys \in BoundedKeys, NEW k
  PROVE  RemoveFirst(keys, k) \in BoundedKeys
<1>. DEFINE I == {i \in 1..Len(keys) : keys[i] = k}
<1>1. CASE I = {}
  BY <1>1 DEF RemoveFirst
<1>2. CASE I # {}
  <2>. DEFINE m == Min(I)
  <2>1. m \in 1..Len(keys)
    BY <1>2, MinIs
  <2>2. RemoveFirst(keys, k) = SubSeq(keys, 1, m - 1) \o SubSeq(keys, m + 1, Len(keys))
    BY <1>2 DEF RemoveFirst, RemoveAt, SelectInSeq
  <2>. HIDE DEF m
  <2>3. /\ keys \in Seq(Keys) /\ Len(keys) \in Nat /\ Len(keys) <= MaxReplayKeys
        /\ MaxReplayKeys \in Nat
    BY BoundsAssumption DEF BoundedKeys
  <2>. DEFINE a == SubSeq(keys, 1, m - 1)
              b == SubSeq(keys, m + 1, Len(keys))
  <2>4. a \in Seq(Keys) /\ Len(a) <= m - 1 /\ Len(a) \in Nat
    BY <2>1, <2>3, SubSeqProperties
  <2>5. b \in Seq(Keys) /\ Len(b) <= Len(keys) - m /\ Len(b) \in Nat
    BY <2>1, <2>3, SubSeqProperties
  <2>. HIDE DEF a, b
  <2>6. a \o b \in Seq(Keys) /\ Len(a \o b) = Len(a) + Len(b)
    BY <2>4, <2>5, ConcatProperties
  <2>7. RemoveFirst(keys, k) = a \o b
    BY <2>2 DEF a, b
  <2>. HIDE DEF I
  <2>8. Len(a \o b) <= MaxReplayKeys
    BY <2>1, <2>3, <2>4, <2>5, <2>6
  <2>. QED
    BY <2>6, <2>7, <2>8 DEF BoundedKeys
<1>. QED
  BY <1>1, <1>2

\* The queue is finite, because it is filled one envelope at a time: only then is
\* there a first key to forget and a last one to mark.
Counted == IsFiniteSet(queue) /\ consumedReplayKeys \in BoundedKeys

LEMMA DrainCounts ==
  ASSUME Inv, Counted, NEW drained \in SUBSET queue, CommitDrain(drained)
  PROVE  Counted'
<1>. DEFINE D == {i \in drained : i.key # NoKey}
<1>1. queue' = queue \ drained /\ consumedReplayKeys' = MarkDrained(consumedReplayKeys, drained)
  BY DEF CommitDrain
<1>2. IsFiniteSet(D) /\ IsFiniteSet(queue')
  BY <1>1, FS_Subset DEF Counted
<1>3. D \subseteq Envelope /\ \A i \in D : i.key \in Keys
  BY DEF Inv, QueueTypeOK, Envelope
<1>4. MarkDrained(consumedReplayKeys, drained) \in BoundedKeys
  BY <1>2, <1>3, MarkedKeys DEF Counted, MarkDrained
<1>. QED
  BY <1>1, <1>2, <1>4 DEF Counted

LEMMA EnqueueCounts ==
  ASSUME Counted, NEW e, Enqueue(e)
  PROVE  Counted'
<1>1. CASE BlockedBySticky(e)
  BY <1>1 DEF Enqueue, Counted
<1>2. CASE ~BlockedBySticky(e)
  <2>1. /\ queue' = SpliceOrPush(queue, e)
        /\ consumedReplayKeys' = RemoveFirst(consumedReplayKeys, e.key)
    BY <1>2 DEF Enqueue
  <2>2. \A q, x, y : IsFiniteSet(q) => IsFiniteSet(q \cup {x}) /\ IsFiniteSet((q \ {y}) \cup {x})
    BY FS_AddElement, FS_RemoveElement
  <2>3. IsFiniteSet(queue')
    BY <2>1, <2>2 DEF SpliceOrPush, Counted
  <2>. QED
    BY <2>1, <2>3, ForgottenKeys DEF Counted
<1>. QED
  BY <1>1, <1>2

LEMMA ImageIsFinite ==
  ASSUME NEW S, IsFiniteSet(S), NEW f, DOMAIN f = S
  PROVE  IsFiniteSet({f[x] : x \in S})
<1>. DEFINE T == {f[x] : x \in S}
            g == [x \in S |-> f[x]]
<1>1. g \in Surjection(S, T)
  BY DEF Surjection
<1>. QED
  BY <1>1, FS_Surjection DEF ExistsSurjection

LEMMA ReparentCounts ==
  ASSUME Counted, NEW k, NEW o, Reparent(k, o)
  PROVE  Counted'
<1>. DEFINE f == [i \in queue |-> IF i.key = k
                    THEN [i EXCEPT !.owner = o, !.target = CompletionTarget(o)] ELSE i]
<1>1. queue' = {f[i] : i \in queue}
  BY DEF Reparent
<1>0. DOMAIN f = queue
  OBVIOUS
<1>. HIDE DEF f
<1>2. IsFiniteSet(queue')
  BY <1>0, <1>1, ImageIsFinite DEF Counted
<1>. QED
  BY <1>2 DEF Reparent, Counted

LEMMA ReleaseCounts ==
  ASSUME Counted, NEW o, ReleaseOwner(o)
  PROVE  Counted'
<1>. DEFINE f == [i \in queue |-> IF i.owner = o /\ i.target = "inventory"
                    THEN [i EXCEPT !.target = "both"] ELSE i]
<1>1. Promote(queue, o) = {f[i] : i \in queue}
  BY DEF Promote
<1>0. DOMAIN f = queue
  OBVIOUS
<1>. HIDE DEF f
<1>2. IsFiniteSet(Promote(queue, o))
  BY <1>0, <1>1, ImageIsFinite DEF Counted
<1>3. queue' = queue \/ queue' = Promote(queue, o)
  BY DEF ReleaseOwner
<1>. QED
  BY <1>2, <1>3 DEF ReleaseOwner, Counted

LEMMA NextCounts == Inv /\ Counted /\ [Next]_vars => Counted'
<1> SUFFICES ASSUME Inv, Counted, [Next]_vars PROVE Counted'
  OBVIOUS
<1>1. ASSUME NEW e, Enqueue(e) PROVE Counted'
  BY <1>1, EnqueueCounts
<1>2. ASSUME NEW drained \in SUBSET queue, CommitDrain(drained) PROVE Counted'
  BY <1>2, DrainCounts
<1>3. ASSUME UNCHANGED <<queue, consumedReplayKeys>> PROVE Counted'
  BY <1>3 DEF Counted
<1>4. CASE \E in \in DirectInputs : Emit(in)
  BY <1>1, <1>4 DEF Emit
<1>5. CASE \E in \in CompletionInputs : EmitForCompletion(in)
  BY <1>1, <1>5 DEF EmitForCompletion
<1>6. CASE MainTurn
  <2>1. \A b : PlanDrain(queue, b) \in SUBSET queue
    BY DEF PlanDrain
  <2>2. ASSUME NEW active, SetTurnActive(active) PROVE Counted'
    BY <1>2, <2>1, <2>2 DEF SetTurnActive
  <2>3. ASSUME NEW b, DrainForBoundary(b) PROVE Counted'
    BY <1>2, <2>1, <2>3 DEF DrainForBoundary
  <2>4. CASE EndSuperseded
    BY <1>3, <2>4 DEF EndSuperseded
  <2>. QED
    BY <1>6, <2>2, <2>3, <2>4 DEF MainTurn, BeginTurn, SupersedeTurn, EndTurn
<1>7. ASSUME NEW o \in Owners, Fork(o) PROVE Counted'
  <2>1. CASE TakeForOwner(o)
    <3>1. OwnerInventory(queue, o) \in SUBSET queue
      BY DEF OwnerInventory
    <3>. QED
      BY <1>2, <2>1, <3>1 DEF TakeForOwner
  <2>2. CASE ReleaseOwner(o)
    BY <2>2, ReleaseCounts
  <2>3. CASE RegisterOwner(o) \/ WaitForOwner(o) \/ AbandonWait(o)
    BY <1>3, <2>3 DEF RegisterOwner, WaitForOwner, AbandonWait
  <2>. QED
    BY <1>7, <2>1, <2>2, <2>3 DEF Fork
<1>8. ASSUME NEW k \in TaskKeys, Cancel(k) \/ Reparent(k, NoOwner) PROVE Counted'
  <2>1. CASE Cancel(k)
    <3>1. IsFiniteSet({i \in queue : i.key # k})
      BY FS_Subset DEF Counted
    <3>. QED
      BY <2>1, <3>1 DEF Cancel, Counted
  <2>. QED
    BY <1>8, <2>1, ReparentCounts
<1>9. CASE UNCHANGED vars
  BY <1>3, <1>9 DEF vars
<1>. QED
  BY <1>4, <1>5, <1>6, <1>7, <1>8, <1>9 DEF Next, Producers, TaskLifecycle

\* The state of the queue keeps its shape, and the replay keys it remembers as
\* consumed stay within MAX_CONSUMED_REPLAY_KEYS, however many one drain marks.
THEOREM TypeCorrect == Spec => []TypeOK
<1>1. Init => Counted
  <2>1. <<>> \in BoundedKeys
    BY BoundsAssumption DEF BoundedKeys
  <2>. QED
    BY <2>1, FS_EmptySet DEF Init, Counted
<1>2. Inv /\ Counted => TypeOK
  BY DEF Inv, Counted, BoundedKeys, TypeOK
<1>. QED
  BY <1>1, <1>2, NextCounts, InvHolds, PTL DEF Spec

----------------------------------------------------------------------------
(* The queue implements the promise of Delivery                            *)

\* Whatever waits was an arrival before, private only if it was private, or is new.
Forward ==
    /\ idCounter' \in Nat /\ idCounter <= idCounter'
    /\ \A i \in queue' :
         \/ i.seq > idCounter
         \/ \E j \in queue : /\ j.seq = i.seq
                             /\ i.target = "inventory" => j.target = "inventory"

LEMMA RemovalIsForward ==
    ASSUME QueueTypeOK, queue' \subseteq queue, UNCHANGED idCounter
    PROVE  Forward
BY DEF Forward, QueueTypeOK

LEMMA EnqueueIsForward ==
    ASSUME Inv, NEW e \in Envelope, e.seq = idCounter + 1, Enqueue(e)
    PROVE  Forward
<1>1. idCounter \in Nat /\ queue \in SUBSET Envelope
  BY DEF Inv, QueueTypeOK
<1>2. queue' = queue \/ queue' = SpliceOrPush(queue, e)
  BY DEF Enqueue
<1>3. \A i \in queue' : i \in queue \/ i.seq = e.seq
  BY <1>2 DEF SpliceOrPush, Envelope
<1> QED
  BY <1>1, <1>3 DEF Forward, Enqueue

\* An envelope that changes its place in the queue keeps its arrival, and is not
\* made private.
LEMMA ReparentIsForward ==
    ASSUME Inv, NEW k, Reparent(k, NoOwner)
    PROVE  Forward
<1>1. CompletionTarget(NoOwner) = "both"
  BY InputsAssumption DEF CompletionTarget
<1>2. ASSUME NEW i \in queue'
      PROVE  \E j \in queue : /\ j.seq = i.seq
                              /\ i.target = "inventory" => j.target = "inventory"
  <2>1. PICK j \in queue :
          i = IF j.key = k THEN [j EXCEPT !.owner = NoOwner, !.target = "both"] ELSE j
    BY <1>1 DEF Reparent
  <2> QED
    BY <2>1 DEF Inv, QueueTypeOK, Envelope
<1>3. UNCHANGED idCounter
  BY Zenon DEF Reparent
<1>4. idCounter \in Nat
  BY DEF Inv, QueueTypeOK
<1> QED
  BY <1>2, <1>3, <1>4 DEF Forward

LEMMA ReleaseIsForward ==
    ASSUME Inv, NEW o, ReleaseOwner(o)
    PROVE  Forward
<1>1. CASE queue' = queue
  BY <1>1, RemovalIsForward DEF ReleaseOwner, Inv
<1>2. CASE queue' = Promote(queue, o)
  <2>1. ASSUME NEW i \in queue'
        PROVE  \E j \in queue : /\ j.seq = i.seq
                                /\ i.target = "inventory" => j.target = "inventory"
    <3>1. PICK j \in queue :
            i = IF j.owner = o /\ j.target = "inventory" THEN [j EXCEPT !.target = "both"] ELSE j
      BY <1>2 DEF Promote
    <3> QED
      BY <3>1 DEF Inv, QueueTypeOK, Envelope
  <2> QED
    BY <2>1 DEF Forward, ReleaseOwner, Inv, QueueTypeOK
<1> QED
  BY <1>1, <1>2 DEF ReleaseOwner

LEMMA NextIsForward ==
    ASSUME Inv, [Next]_vars
    PROVE  Forward
<1>1. QueueTypeOK
  BY DEF Inv
<1>2. ASSUME NEW e, Enqueue(e), e \in Envelope, e.seq = idCounter + 1 PROVE Forward
  BY <1>2, EnqueueIsForward
<1>3. CASE Producers
  <2>1. ASSUME NEW in \in DirectInputs, Emit(in) PROVE Forward
    <3>1. /\ NextArrival(in.class, in.target, NoOwner, in.key, in.sticky) \in Envelope
          /\ NextArrival(in.class, in.target, NoOwner, in.key, in.sticky).seq = idCounter + 1
      BY <1>1, InputsAssumption DEF NextArrival, Envelope, QueueTypeOK
    <3> QED
      BY <1>2, <2>1, <3>1 DEF Emit
  <2>2. ASSUME NEW in \in CompletionInputs, EmitForCompletion(in) PROVE Forward
    <3>1. /\ NextArrival(in.class, CompletionTarget(in.owner), in.owner, in.key, FALSE) \in Envelope
          /\ NextArrival(in.class, CompletionTarget(in.owner), in.owner, in.key, FALSE).seq
               = idCounter + 1
      BY <1>1, InputsAssumption
      DEF NextArrival, Envelope, QueueTypeOK, CompletionTarget, Class, Target
    <3> QED
      BY <1>2, <2>2, <3>1 DEF EmitForCompletion
  <2> QED
    BY <1>3, <2>1, <2>2 DEF Producers
<1>4. CASE MainTurn
  <2>1. UNCHANGED idCounter /\ queue' \subseteq queue
    BY <1>4 DEF MainTurn, BeginTurn, SupersedeTurn, EndTurn, EndSuperseded, SetTurnActive,
                DrainForBoundary, CommitDrain
  <2> QED
    BY <1>1, <2>1, RemovalIsForward
<1>5. ASSUME NEW o \in Owners, Fork(o) PROVE Forward
  <2>1. CASE ReleaseOwner(o)
    BY <2>1, ReleaseIsForward
  <2>2. CASE RegisterOwner(o) \/ TakeForOwner(o) \/ WaitForOwner(o) \/ AbandonWait(o)
    BY <1>1, <2>2, RemovalIsForward
    DEF RegisterOwner, TakeForOwner, WaitForOwner, AbandonWait, CommitDrain
  <2> QED
    BY <1>5, <2>1, <2>2 DEF Fork
<1>6. ASSUME NEW k \in TaskKeys, Cancel(k) \/ Reparent(k, NoOwner) PROVE Forward
  BY <1>1, <1>6, RemovalIsForward, ReparentIsForward DEF Cancel
<1>7. CASE UNCHANGED vars
  BY <1>1, <1>7, RemovalIsForward DEF vars
<1> QED
  BY <1>3, <1>4, <1>5, <1>6, <1>7 DEF Next, TaskLifecycle

\* An arrival that waited may go forward only, and one that left stays away.
LEMMA ForwardIsLater ==
    ASSUME Inv, Forward, NEW s \in 1..MaxSeq
    PROVE  PlaceOf(s)' \in Abstract!Later(PlaceOf(s))
<1>1. s \in Nat /\ idCounter \in Nat
  BY DEF Inv, QueueTypeOK
<1>2. PlaceOf(s)' \in Abstract!Places
  BY DEF PlaceOf, Abstract!Places
<1>3. CASE s > idCounter
  BY <1>2, <1>3 DEF PlaceOf, Abstract!Later
<1>4. CASE s <= idCounter
  <2>1. \A i \in Arrived(s)' : \E j \in Arrived(s) : i.target = "inventory" => j.target = "inventory"
    BY <1>1, <1>4 DEF Forward, Arrived, Inv, QueueTypeOK
  <2>2. s <= idCounter'
    BY <1>1, <1>4 DEF Forward
  <2>3. ~(s > idCounter) /\ ~(s > idCounter')
    BY <1>1, <1>4, <2>2 DEF Forward
  <2>4. CASE Arrived(s) = {}
    BY <2>1, <2>3, <2>4 DEF PlaceOf, Abstract!Later
  <2>5. CASE Arrived(s) # {} /\ \E j \in Arrived(s) : j.target = "inventory"
    BY <1>2, <2>3, <2>5 DEF PlaceOf, Abstract!Later
  <2>6. CASE Arrived(s) # {} /\ ~\E j \in Arrived(s) : j.target = "inventory"
    BY <2>1, <2>3, <2>6 DEF PlaceOf, Abstract!Later
  <2> QED
    BY <2>4, <2>5, <2>6
<1> QED
  BY <1>1, <1>3, <1>4

\* The queue implements the delivery promise for every set of owners, keys and
\* callers: a notification goes from nowhere to its owner, to main and away, never
\* back, whatever is drained, promoted, withdrawn or replaced in one call.
THEOREM QueueImplementsDelivery == Spec => ImplementsDelivery
<1>1. Init => Abstract!Init
  BY DEF Init, Abstract!Init, PlaceOf
<1>2. Inv /\ [Next]_vars => [Abstract!Next]_([s \in 1..MaxSeq |-> PlaceOf(s)])
  <2> SUFFICES ASSUME Inv, [Next]_vars PROVE Abstract!Next
    OBVIOUS
  <2>1. \A s \in 1..MaxSeq : PlaceOf(s)' \in Abstract!Later(PlaceOf(s))
    BY NextIsForward, ForwardIsLater
  <2>2. \A s \in 1..MaxSeq : PlaceOf(s)' \in Abstract!Places
    BY DEF PlaceOf, Abstract!Places
  <2> QED
    BY <2>1, <2>2 DEF Abstract!Next
<1> QED
  BY <1>1, <1>2, InvHolds, PTL DEF Spec, ImplementsDelivery, Abstract!Spec

=============================================================================
