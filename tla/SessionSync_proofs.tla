-------------------------- MODULE SessionSync_proofs --------------------------
(***************************************************************************)
(* No record is stepped over and none is stored twice, for every number of *)
(* records, batches, lost and late requests, crashes and rows dropped, in  *)
(* the sessions Tidy describes.  The argument is about counters: a counter *)
(* is offered with one record only, because the claim in the key file,     *)
(* laid along the records, says for each of its counters which record it   *)
(* was first offered with.                                                 *)
(***************************************************************************)
EXTENDS SessionSync, FiniteSetTheorems, SequenceTheorems, TLAPS

-----------------------------------------------------------------------------
(* Numbers and sequences.                                                   *)

\* The intervals from 1 are ordered as their ends are.
LEMMA MinIs ==
  ASSUME NEW S \in SUBSET Nat, S # {}
  PROVE  Min(S) \in S /\ \A y \in S : Min(S) <= y
<1>. DEFINE T == {1..x : x \in S}
<1>1. T \subseteq FiniteSubsetsOf(Nat) /\ T # {}
  <2>1. ASSUME NEW x \in S
        PROVE  1..x \in SUBSET Nat /\ IsFiniteSet(1..x)
    <3>1. 1 \in Int /\ x \in Int
      OBVIOUS
    <3>2. IsFiniteSet(1..x)
      BY <3>1, FS_Interval
    <3>. QED
      BY <3>2
  <2>. QED
    BY <2>1 DEF FiniteSubsetsOf
<1>2. PICK I \in T : \A J \in T : <<J, I>> \notin StrictSubsetOrdering(Nat)
  BY <1>1, FS_StrictSubsetOrderingWellFounded, WFMin
<1>3. PICK x \in S : I = 1..x
  BY <1>2
<1>4. ASSUME NEW y \in S, y < x
      PROVE  FALSE
  <2>1. 1..y \subseteq 1..x /\ x \in 1..x /\ x \notin 1..y
    BY <1>4
  <2>2. 1..y \in SUBSET Nat /\ 1..x \in SUBSET Nat /\ 1..y \in T
    OBVIOUS
  <2>3. <<1..y, 1..x>> \in StrictSubsetOrdering(Nat)
    BY <2>1, <2>2 DEF StrictSubsetOrdering
  <2>. QED
    BY <1>2, <1>3, <2>2, <2>3
<1>5. \A y \in S : x <= y
  BY <1>4
<1>. QED
  BY <1>5 DEF Min

LEMMA MaxIs ==
  ASSUME NEW S \in SUBSET Nat, S # {}, NEW n \in Nat, \A y \in S : y <= n
  PROVE  Max(S) \in S /\ \A y \in S : y <= Max(S)
<1>. DEFINE F == {i \in Nat : n - i \in S}
<1>1. PICK z \in S : TRUE
  OBVIOUS
<1>2. n - z \in F /\ n - z \in Nat
  OBVIOUS
<1>3. F # {} /\ F \subseteq Nat
  BY <1>2
<1>. DEFINE m == Min(F)
<1>4. m \in F /\ \A i \in F : m <= i
  BY <1>3, MinIs
<1>5. m \in Nat /\ n - m \in S
  BY <1>4
<1>6. \A y \in S : n - y \in F
  OBVIOUS
<1>7. ASSUME NEW y \in S PROVE y <= n - m
  <2>1. m <= n - y
    BY <1>4, <1>6
  <2>. QED
    BY <1>5, <2>1
<1>. HIDE DEF m, F
<1>. QED
  BY <1>5, <1>7 DEF Max

LEMMA MinOfTwo ==
  ASSUME NEW a \in Int, NEW b \in Int
  PROVE  Min({a, b}) = IF a <= b THEN a ELSE b
BY DEF Min

\* A sequence that goes up.
Ascends(s) == \A i, j \in DOMAIN s : i < j => s[i] < s[j]

LEMMA AscendsOnce ==
  ASSUME NEW s \in Seq(Nat), Ascends(s), NEW i \in DOMAIN s, NEW j \in DOMAIN s
  PROVE  /\ s[i] = s[j] => i = j
         /\ s[i] < s[j] => i < j
<1>1. i \in Nat /\ j \in Nat /\ s[i] \in Nat /\ s[j] \in Nat
  OBVIOUS
<1>. QED
  BY <1>1 DEF Ascends

-----------------------------------------------------------------------------
(* The invariant.                                                           *)

CursorType == [anchor : Nat, skip : Nat]
OfferType == [rec : Nat, counter : Nat]
ClaimType == [names : Seq(Nat), counters : Seq(Nat)]
Answers == {"none", "ok", "duplicate", "absent", "deleted", "error", "auth", "refused"}
PushType ==
  [pc : {"sent", "answered", "sleeping"}, base : Nat, todo : Seq(OfferType), single : BOOLEAN,
   cursor : CursorType, attempt : Nat, answer : Answers]

Typed ==
  /\ kind \in Seq(AllKinds) /\ records \in Seq(1..Len(kind)) /\ Ascends(records)
  /\ counter \in Nat /\ claim \in ClaimType /\ Len(claim.names) = Len(claim.counters)
  /\ anchor \in Nat /\ cursor \in CursorType /\ up \in BOOLEAN
  /\ push \in {Idle} \cup PushType
  /\ log \subseteq OfferType /\ wire \subseteq Seq(OfferType)

\* What the broker has, may still get, or is about to be sent.
Active == push.pc # "idle"
Offered ==
  log \cup (UNION {Range(rows) : rows \in wire}) \cup (IF Active THEN Range(push.todo) ELSE {})

\* The named records among the first n were taken by the broker.
Taken(n) == \A i \in 1..n : kind[records[i]] = "named" => records[i] \in ever

\* A cursor that is good: it ends among the records, and nothing in it is missing.
Covers(c) ==
  /\ c.anchor <= Len(kind)
  /\ \A p \in DOMAIN records : records[p] = c.anchor => p + c.skip <= Len(records)
  /\ Taken(ResumeIndex(c))
Kept == [anchor |-> anchor, skip |-> 0]

CursorsCover ==
  /\ Covers(cursor) /\ Covers(Kept)
  /\ \A x \in log : x.rec \in ever

\* What is sent is a piece of the records, all before it is with the broker, and an
\* answer that lets the push go on means the request is there.
PushIsPiece ==
  Active =>
    /\ push.todo # <<>> /\ push.base + Len(push.todo) <= Len(records)
    /\ \A i \in DOMAIN push.todo : push.todo[i].rec = records[push.base + i]
    /\ Taken(push.base) /\ Covers(push.cursor)
    /\ push.pc = "answered" /\ push.answer = "ok" => \A i \in DOMAIN Request : Request[i].rec \in ever
    /\ push.pc = "answered" /\ push.answer = "duplicate" /\ push.single => push.todo[1].rec \in ever

Numbered ==
  /\ \A x \in Offered : x.counter \in 1..counter
  /\ \A i \in DOMAIN claim.names : claim.counters[i] \in 1..counter /\ claim.names[i] \in 0..Len(kind)
  /\ \A i, j \in DOMAIN claim.names : claim.counters[i] = claim.counters[j] => i = j

\* A counter stands for one record.
OneRecord == \A x, y \in Offered : x.counter = y.counter => x.rec = y.rec

\* The i-th counter of the claim was offered with r or not at all.
Meant(i, r) == \A x \in Offered : x.counter = claim.counters[i] => x.rec = r

\* Laid on the records at a name of both, the claim agrees with them from there on.
Ahead ==
  \A i \in DOMAIN claim.names, p \in DOMAIN records : claim.names[i] = records[p] =>
    \A j \in i..Len(claim.names) :
      /\ p + (j - i) \in DOMAIN records
      /\ claim.names[j] = Name(records[p + (j - i)])
      /\ Meant(j, records[p + (j - i)])

\* And before it, as far as the records have no name.
Behind ==
  \A i \in DOMAIN claim.names, p \in DOMAIN records : claim.names[i] = records[p] =>
    \A d \in 1..(i - 1) : p > d /\ (\A m \in (p - d)..(p - 1) : Name(records[m]) = None)
                            => Meant(i - d, records[p - d])

Claims == Numbered /\ OneRecord /\ Ahead /\ Behind

-----------------------------------------------------------------------------
(* Cursors.                                                                 *)

LEMMA RecordsAre ==
  ASSUME Typed
  PROVE  /\ Len(records) \in Nat /\ DOMAIN records = 1..Len(records)
         /\ Len(kind) \in Nat /\ DOMAIN kind = 1..Len(kind)
         /\ \A p \in DOMAIN records : /\ records[p] \in 1..Len(kind) /\ records[p] \in Nat
                                      /\ records[p] # None
                                      /\ kind[records[p]] \in AllKinds
         /\ \A p, q \in DOMAIN records : /\ p < q => records[p] < records[q]
                                         /\ records[p] = records[q] => p = q
                                         /\ records[p] < records[q] => p < q
<1>1. /\ Len(records) \in Nat /\ DOMAIN records = 1..Len(records)
      /\ Len(kind) \in Nat /\ DOMAIN kind = 1..Len(kind)
      /\ \A p \in DOMAIN records : records[p] \in 1..Len(kind)
      /\ \A n \in DOMAIN kind : kind[n] \in AllKinds
  BY DEF Typed
<1>2. records \in Seq(Nat)
  BY SeqMonotonic DEF Typed
<1>3. \A p \in DOMAIN records : records[p] # None
  BY <1>1 DEF None
<1>4. Ascends(records)
  BY DEF Typed
<1>. QED
  BY <1>1, <1>2, <1>3, <1>4, AscendsOnce DEF Ascends

LEMMA ResumeIndexIs ==
  ASSUME Typed, NEW c \in CursorType
  PROVE  /\ ResumeIndex(c) \in 0..Len(records)
         /\ (\A i \in DOMAIN records : records[i] # c.anchor) => ResumeIndex(c) = 0
         /\ \A p \in DOMAIN records : records[p] = c.anchor =>
              ResumeIndex(c) = IF p + c.skip <= Len(records) THEN p + c.skip ELSE Len(records)
<1>. DEFINE at == {i \in DOMAIN records : records[i] = c.anchor}
<1>1. /\ Len(records) \in Nat /\ DOMAIN records = 1..Len(records)
      /\ \A p, q \in DOMAIN records : records[p] = records[q] => p = q
  BY RecordsAre
<1>2. ResumeIndex(c) = IF at = {} THEN 0 ELSE Min({Max(at) + c.skip, Len(records)})
  BY DEF ResumeIndex
<1>3. CASE at = {}
  BY <1>1, <1>2, <1>3
<1>4. ASSUME NEW p \in DOMAIN records, records[p] = c.anchor
      PROVE  ResumeIndex(c) = IF p + c.skip <= Len(records) THEN p + c.skip ELSE Len(records)
  <2>1. at = {p}
    BY <1>1, <1>4
  <2>2. Max(at) = p
    <3>1. /\ at \in SUBSET Nat /\ at # {} /\ \A y \in at : y <= Len(records)
      BY <1>1, <2>1
    <3>2. Max(at) \in at
      BY <1>1, <3>1, MaxIs
    <3>. QED
      BY <2>1, <3>2
  <2>3. c.skip \in Nat /\ p \in Nat
    BY <1>1 DEF CursorType
  <2>. QED
    BY <1>1, <1>2, <2>1, <2>2, <2>3, MinOfTwo
<1>5. CASE at # {}
  <2>1. PICK p \in DOMAIN records : records[p] = c.anchor
    BY <1>5
  <2>2. c.skip \in Nat
    BY DEF CursorType
  <2>. QED
    BY <1>1, <1>4, <2>1, <2>2
<1>. QED
  BY <1>3, <1>4, <1>5

LEMMA NoCursorCovers ==
  ASSUME Typed
  PROVE  NoCursor \in CursorType /\ Covers(NoCursor) /\ ResumeIndex(NoCursor) = 0
<1>1. NoCursor \in CursorType /\ NoCursor.anchor = None
  BY DEF NoCursor, CursorType, None
<1>2. ResumeIndex(NoCursor) = 0
  BY <1>1, RecordsAre, ResumeIndexIs
<1>3. \A p \in DOMAIN records : records[p] # NoCursor.anchor
  BY <1>1, RecordsAre
<1>4. NoCursor.anchor <= Len(kind)
  BY <1>1, RecordsAre DEF None
<1>. QED
  BY <1>1, <1>2, <1>3, <1>4 DEF Covers, Taken

LEMMA TakenLess ==
  ASSUME NEW m \in Nat, NEW n \in Nat, m <= n, Taken(n)
  PROVE  Taken(m)
BY DEF Taken

\* A cursor without its skip covers less.
LEMMA AnchorCovers ==
  ASSUME Typed, NEW c \in CursorType, Covers(c)
  PROVE  LET d == [anchor |-> c.anchor, skip |-> 0]
         IN  d \in CursorType /\ Covers(d) /\ ResumeIndex(d) <= ResumeIndex(c)
<1>. DEFINE d == [anchor |-> c.anchor, skip |-> 0]
<1>1. d \in CursorType /\ d.anchor = c.anchor /\ d.skip = 0 /\ c.skip \in Nat
  BY DEF CursorType
<1>. HIDE DEF d
<1>2. ResumeIndex(d) \in Nat /\ ResumeIndex(c) \in Nat /\ ResumeIndex(d) <= ResumeIndex(c)
  <2>1. CASE \A i \in DOMAIN records : records[i] # c.anchor
    BY <1>1, <2>1, ResumeIndexIs, RecordsAre
  <2>2. CASE \E i \in DOMAIN records : records[i] = c.anchor
    <3>1. PICK p \in DOMAIN records : records[p] = c.anchor
      BY <2>2
    <3>2. p \in Nat /\ p <= Len(records) /\ Len(records) \in Nat
      BY RecordsAre
    <3>3. ResumeIndex(c) = IF p + c.skip <= Len(records) THEN p + c.skip ELSE Len(records)
      BY <3>1, ResumeIndexIs
    <3>4. ResumeIndex(d) = IF p + d.skip <= Len(records) THEN p + d.skip ELSE Len(records)
      BY <1>1, <3>1, ResumeIndexIs
    <3>. QED
      BY <1>1, <3>2, <3>3, <3>4
  <2>. QED
    BY <2>1, <2>2
<1>3. Covers(d)
  <2>1. d.anchor <= Len(kind) /\ Taken(ResumeIndex(d))
    BY <1>1, <1>2, TakenLess DEF Covers
  <2>2. \A p \in DOMAIN records : p + d.skip <= Len(records)
    BY <1>1, RecordsAre
  <2>. QED
    BY <2>1, <2>2 DEF Covers
<1>. QED
  BY <1>1, <1>2, <1>3 DEF d

\* The cursor of a position leads back to it, or is the one there was.
LEMMA CursorThroughIs ==
  ASSUME Typed, NEW index \in Nat, index <= Len(records), Taken(index),
         NEW c \in CursorType, Covers(c)
  PROVE  LET d == CursorThrough(index, c)
         IN  /\ d \in CursorType /\ Covers(d)
             /\ \/ d = c /\ \A i \in 1..index : Name(records[i]) = None
                \/ /\ ResumeIndex(d) = index
                   /\ \E p \in 1..index : /\ d.anchor = records[p] /\ Name(records[p]) # None
                                          /\ \A i \in (p + 1)..index : Name(records[i]) = None
<1>. DEFINE d == CursorThrough(index, c)
            at == {i \in 1..index : Name(records[i]) # None}
<1>1. Min({index, Len(records)}) = index /\ Len(records) \in Nat
  BY MinOfTwo, RecordsAre
<1>2. d = IF at = {} THEN c ELSE [anchor |-> records[Max(at)], skip |-> index - Max(at)]
  BY <1>1 DEF CursorThrough
<1>3. CASE at = {}
  BY <1>2, <1>3
<1>4. CASE at # {}
  <2>. DEFINE p == Max(at)
  <2>1. p \in at /\ \A i \in at : i <= p
    <3>1. at \in SUBSET Nat /\ \A y \in at : y <= index
      OBVIOUS
    <3>. QED
      BY <1>4, <3>1, MaxIs
  <2>2. d = [anchor |-> records[p], skip |-> index - p]
    BY <1>2, <1>4
  <2>3. p \in 1..index /\ Name(records[p]) # None
    BY <2>1
  <2>4. \A i \in (p + 1)..index : Name(records[i]) = None
    BY <2>1, <2>3
  <2>. HIDE DEF p, at, d
  <2>5. p \in DOMAIN records /\ records[p] \in Nat
    BY <1>1, <2>3, RecordsAre
  <2>6. d \in CursorType /\ d.anchor = records[p] /\ d.skip = index - p
    BY <2>2, <2>3, <2>5 DEF CursorType
  <2>7. ResumeIndex(d) = index
    <3>1. ResumeIndex(d) = IF p + d.skip <= Len(records) THEN p + d.skip ELSE Len(records)
      BY <2>5, <2>6, ResumeIndexIs
    <3>. QED
      BY <1>1, <2>3, <2>6, <3>1
  <2>8. Covers(d)
    <3>1. d.anchor <= Len(kind)
      BY <2>5, <2>6, RecordsAre
    <3>2. \A q \in DOMAIN records : records[q] = d.anchor => q + d.skip <= Len(records)
      <4>1. \A q \in DOMAIN records : records[q] = d.anchor => q = p
        BY <2>5, <2>6, RecordsAre
      <4>. QED
        BY <1>1, <2>3, <2>6, <4>1
    <3>. QED
      BY <2>7, <3>1, <3>2 DEF Covers
  <2>. QED
    BY <2>3, <2>4, <2>6, <2>7, <2>8 DEF d
<1>. QED
  BY <1>3, <1>4

-----------------------------------------------------------------------------
(* Batches and their counters.                                              *)

\* The batch starts with the first syncable record after idx.
Batch(b, idx) ==
  /\ b.recs # <<>> /\ b.before \in Nat /\ idx <= b.before /\ b.before + Len(b.recs) <= Len(records)
  /\ b.recs \in Seq(Nat) /\ Len(b.recs) <= BatchLimit
  /\ \A i \in DOMAIN b.recs : b.recs[i] = records[b.before + i] /\ Syncable(records[b.before + i])
  /\ \A m \in (idx + 1)..b.before : ~Syncable(records[m])
  /\ \/ b.before + Len(b.recs) = Len(records)
     \/ ~Syncable(records[b.before + Len(b.recs) + 1])
     \/ Len(b.recs) = BatchLimit

LEMMA NextRunIs ==
  ASSUME Typed, NEW idx \in Nat, Left(idx) # {}
  PROVE  Batch(NextRun(Left(idx)), idx)
<1>. DEFINE left == Left(idx)
            start == Min(left)
            run == {i \in left : i < start + BatchLimit /\ start..i \subseteq left}
            e == Max(run)
            recs == SubSeq(records, start, e)
            b == NextRun(left)
<1>0. /\ Len(records) \in Nat /\ DOMAIN records = 1..Len(records) /\ BatchLimit \in Nat \ {0}
      /\ \A p \in DOMAIN records : records[p] \in Nat
  BY RecordsAre, SyncAssumption
<1>1. \A i : i \in left <=> i \in 1..Len(records) /\ i > idx /\ Syncable(records[i])
  BY <1>0 DEF Left
<1>2. start \in left /\ \A i \in left : start <= i
  <2>1. left \in SUBSET Nat
    BY <1>1
  <2>. QED
    BY <2>1, MinIs
<1>3. b = [before |-> start - 1, recs |-> recs]
  BY DEF NextRun
<1>. HIDE DEF left, start, b
<1>4. start \in run
  BY <1>0, <1>1, <1>2
<1>5. e \in run /\ \A i \in run : i <= e
  <2>1. run \in SUBSET Nat /\ run # {} /\ \A y \in run : y <= Len(records)
    BY <1>1, <1>4
  <2>. QED
    BY <1>0, <2>1, MaxIs
<1>6. e \in left /\ e < start + BatchLimit /\ start..e \subseteq left
  BY <1>5
<1>7. e \in Nat /\ start \in Nat /\ start >= 1 /\ start <= e /\ e <= Len(records) /\ idx < start
  BY <1>1, <1>2, <1>6
<1>8. e < Len(records) => ~Syncable(records[e + 1]) \/ e + 1 = start + BatchLimit
  <2>. SUFFICES ASSUME e < Len(records), Syncable(records[e + 1]), e + 1 # start + BatchLimit
                PROVE  FALSE
    OBVIOUS
  <2>1. e + 1 \in left
    BY <1>0, <1>1, <1>7
  <2>2. e + 1 < start + BatchLimit
    BY <1>0, <1>6, <1>7
  <2>3. start..(e + 1) \subseteq left
    <3>1. \A i \in start..(e + 1) : i \in start..e \/ i = e + 1
      BY <1>7
    <3>. QED
      BY <1>6, <2>1, <3>1
  <2>4. e + 1 \in run
    BY <2>1, <2>2, <2>3
  <2>. HIDE DEF run, e
  <2>5. e + 1 <= e
    BY <1>5, <2>4
  <2>. QED
    BY <1>7, <2>5
<1>. HIDE DEF e, run
<1>9. /\ recs \in Seq(Nat) /\ Len(recs) = e - start + 1
      /\ \A i \in 1..(e - start + 1) : recs[i] = records[start + i - 1]
  <2>1. start \in Int /\ e \in Int /\ \A i \in start..e : records[i] \in Nat
    BY <1>0, <1>7
  <2>2. /\ SubSeq(records, start, e) \in Seq(Nat)
        /\ Len(SubSeq(records, start, e)) = IF start <= e THEN e - start + 1 ELSE 0
        /\ \A i \in 1..(e - start + 1) : SubSeq(records, start, e)[i] = records[start + i - 1]
    BY <2>1, SubSeqProperties
  <2>. QED
    BY <1>7, <2>2
<1>. HIDE DEF recs
<1>10. b.before = start - 1 /\ b.recs = recs /\ recs # <<>> /\ DOMAIN recs = 1..(e - start + 1)
  BY <1>3, <1>7, <1>9
<1>11. \A i \in 1..(e - start + 1) : records[start + i - 1] = records[(start - 1) + i]
  BY <1>7
<1>12. \A i \in 1..(e - start + 1) : Syncable(records[(start - 1) + i])
  <2>. SUFFICES ASSUME NEW i \in 1..(e - start + 1) PROVE Syncable(records[(start - 1) + i])
    OBVIOUS
  <2>1. (start - 1) + i \in start..e
    BY <1>7
  <2>. QED
    BY <1>1, <1>6, <2>1
<1>13. \A m \in (idx + 1)..(start - 1) : ~Syncable(records[m])
  <2>. SUFFICES ASSUME NEW m \in (idx + 1)..(start - 1), Syncable(records[m]) PROVE FALSE
    OBVIOUS
  <2>1. m \in left
    BY <1>1, <1>7
  <2>. QED
    BY <1>2, <1>7, <2>1
<1>14. e + 1 = (start - 1) + Len(recs) + 1 /\ (start - 1) + Len(recs) = e /\ Len(recs) = e - start + 1
  BY <1>7, <1>9
<1>15. /\ \/ (start - 1) + Len(recs) = Len(records)
          \/ ~Syncable(records[(start - 1) + Len(recs) + 1])
          \/ Len(recs) = BatchLimit
       /\ Len(recs) <= BatchLimit
  <2>1. CASE e = Len(records)
    BY <1>0, <1>6, <1>7, <1>9, <1>14, <2>1
  <2>2. CASE e < Len(records)
    BY <1>0, <1>6, <1>7, <1>8, <1>9, <1>14, <2>2
  <2>. DEFINE n == Len(records)
  <2>3. n \in Nat /\ e \in Nat /\ e <= n
    BY <1>0, <1>7
  <2>4. e = n \/ e < n
    <3>. HIDE DEF n
    <3>. QED
      BY <2>3
  <2>. QED
    BY <2>1, <2>2, <2>4
<1>16. /\ b.before \in Nat /\ idx <= b.before /\ b.before + Len(b.recs) <= Len(records)
       /\ DOMAIN b.recs = 1..(e - start + 1)
  BY <1>7, <1>9, <1>10, <1>14
<1>17. \A i \in DOMAIN b.recs : b.recs[i] = records[b.before + i] /\ Syncable(records[b.before + i])
  BY <1>9, <1>10, <1>11, <1>12
<1>. QED
  BY <1>9, <1>10, <1>13, <1>15, <1>16, <1>17 DEF Batch, left, b

LEMMA ClaimIs ==
  ASSUME Typed, NEW names \in Seq(Nat)
  PROVE  /\ claim.names \in Seq(Nat) /\ claim.counters \in Seq(Nat)
         /\ Len(claim.counters) \in Nat /\ Len(names) \in Nat /\ counter \in Nat
         /\ DOMAIN claim.names = 1..Len(claim.counters)
         /\ DOMAIN claim.counters = 1..Len(claim.counters)
         /\ DOMAIN names = 1..Len(names) /\ \A i \in 1..Len(claim.counters) : claim.counters[i] \in Nat
<1>1. /\ claim.names \in Seq(Nat) /\ claim.counters \in Seq(Nat) /\ counter \in Nat
      /\ Len(claim.names) = Len(claim.counters)
  BY DEF Typed, ClaimType
<1>2. \A s \in Seq(Nat) : Len(s) \in Nat /\ DOMAIN s = 1..Len(s) /\ \A i \in 1..Len(s) : s[i] \in Nat
  OBVIOUS
<1>. QED
  BY ONLY <1>1, <1>2, names \in Seq(Nat)

\* The counters the claim has for these names: from the place of the first name on.
LEMMA ClaimedIs ==
  ASSUME Typed, NEW names \in Seq(Nat)
  PROVE  LET kept == Claimed(names) IN
         /\ kept \in Seq(Nat) /\ Len(kept) <= Len(names)
         /\ \/ kept = <<>>
            \/ \E f \in DOMAIN names, i \in DOMAIN claim.names :
                 /\ names[f] # None /\ claim.names[i] = names[f] /\ f <= i
                 /\ \A j \in 1..(f - 1) : names[j] = None
                 /\ \A j \in 1..Len(kept) : /\ i - f + j \in DOMAIN claim.names
                                            /\ kept[j] = claim.counters[i - f + j]
<1>. DEFINE named == {i \in DOMAIN names : names[i] # None}
            f == Min(named)
            found == {i \in DOMAIN claim.names : claim.names[i] = names[f]}
            o == Min(found) - f
            L == Len(claim.counters)
            M == Len(names)
            n == Min({o + M, L})
            kept == Claimed(names)
<1>1. kept = IF named = {} \/ found = {} \/ o < 0 THEN <<>> ELSE SubSeq(claim.counters, o + 1, n)
  BY DEF Claimed
<1>2. /\ claim.names \in Seq(Nat) /\ claim.counters \in Seq(Nat) /\ L \in Nat /\ M \in Nat
      /\ DOMAIN claim.names = 1..L /\ DOMAIN claim.counters = 1..L
      /\ DOMAIN names = 1..M /\ \A i \in 1..L : claim.counters[i] \in Nat
  BY ClaimIs
<1>3. CASE named = {} \/ found = {} \/ o < 0
  <2>1. kept = <<>>
    BY <1>1, <1>3
  <2>2. kept \in Seq(Nat) /\ Len(kept) = 0
    BY <2>1, EmptySeq
  <2>. HIDE DEF kept
  <2>. QED
    BY <1>2, <2>1, <2>2 DEF kept
<1>4. CASE named # {} /\ found # {} /\ ~(o < 0)
  <2>1. f \in named /\ \A i \in named : f <= i
    <3>1. named \in SUBSET Nat
      BY <1>2
    <3>. QED
      BY <1>4, <3>1, MinIs
  <2>. DEFINE i == Min(found)
  <2>2. i \in found
    <3>1. found \in SUBSET Nat
      BY <1>2
    <3>. QED
      BY <1>4, <3>1, MinIs
  <2>3. kept = SubSeq(claim.counters, o + 1, n)
    BY <1>1, <1>4
  <2>4. /\ f \in 1..M /\ names[f] # None
        /\ i \in 1..L /\ claim.names[i] = names[f] /\ o = i - f
    BY <1>2, <2>1, <2>2
  <2>5. f <= i /\ o \in Nat
    BY <1>2, <1>4, <2>4, SMTT(30)
  <2>6. \A j \in 1..M : names[j] # None => f <= j
    BY <1>2, <2>1
  <2>. HIDE DEF i, f, o, found, named, L, M
  <2>7. \A j \in 1..(f - 1) : names[j] = None
    BY <1>2, <2>4, <2>6
  <2>8. n = IF o + M <= L THEN o + M ELSE L
    BY <1>2, <2>5, MinOfTwo
  <2>. HIDE DEF kept, n
  <2>9. /\ kept \in Seq(Nat)
        /\ Len(kept) = IF o + 1 <= n THEN n - o ELSE 0
        /\ \A j \in 1..(n - o) : kept[j] = claim.counters[o + j]
    <3>1. o + 1 \in Int /\ n \in Int /\ \A j \in (o + 1)..n : claim.counters[j] \in Nat
      BY <1>2, <2>5, <2>8
    <3>2. /\ SubSeq(claim.counters, o + 1, n) \in Seq(Nat)
          /\ Len(SubSeq(claim.counters, o + 1, n)) = IF o + 1 <= n THEN n - (o + 1) + 1 ELSE 0
          /\ \A j \in 1..(n - (o + 1) + 1) :
               SubSeq(claim.counters, o + 1, n)[j] = claim.counters[o + 1 + j - 1]
      BY <3>1, SubSeqProperties
    <3>3. n - (o + 1) + 1 = n - o /\ \A j \in 1..(n - o) : o + 1 + j - 1 = o + j
      BY <2>5, <3>1
    <3>. QED
      BY <2>3, <3>2, <3>3
  <2>. DEFINE k == Len(kept)
  <2>10. k \in Nat /\ k <= M /\ \A j \in 1..k : j \in 1..(n - o) /\ o + j \in 1..L
    <3>1. k = IF o + 1 <= n THEN n - o ELSE 0
      BY <2>9
    <3>. HIDE DEF k
    <3>. QED
      BY <1>2, <2>5, <2>8, <3>1
  <2>11. \A j \in 1..k : o + j \in 1..L /\ kept[j] = claim.counters[o + j]
    BY <2>9, <2>10
  <2>12. \A j \in 1..k : i - f + j \in DOMAIN claim.names /\ kept[j] = claim.counters[i - f + j]
    BY <1>2, <2>4, <2>11
  <2>. QED
    <3>1. f \in DOMAIN names /\ i \in DOMAIN claim.names /\ names[f] # None /\ claim.names[i] = names[f]
      BY ONLY <1>2, <2>4, Zenon
    <3>2. \E f1 \in DOMAIN names, i1 \in DOMAIN claim.names :
            /\ names[f1] # None /\ claim.names[i1] = names[f1] /\ f1 <= i1
            /\ \A j \in 1..(f1 - 1) : names[j] = None
            /\ \A j \in 1..k : i1 - f1 + j \in DOMAIN claim.names /\ kept[j] = claim.counters[i1 - f1 + j]
      BY ONLY <3>1, <2>5, <2>7, <2>12, Zenon
    <3>3. kept \in Seq(Nat) /\ k <= M
      BY ONLY <2>9, <2>10, Zenon
    <3>. QED
      BY ONLY <3>2, <3>3, Zenon DEF k, kept, M
<1>. QED
  BY <1>3, <1>4

\* The first k names lie on the claim, the f-th and first of all names on its i-th.
Lies(names, f, i, k) ==
  /\ f \in DOMAIN names /\ i \in DOMAIN claim.names /\ f <= i
  /\ names[f] # None /\ claim.names[i] = names[f]
  /\ \A j \in 1..(f - 1) : names[j] = None
  /\ \A j \in 1..k : i - f + j \in DOMAIN claim.names

\* What ClaimFor does: the first k counters are the claim's, the others are fresh.
Tags(names, cf, k) ==
  /\ cf.counters \in Seq(Nat) /\ Len(cf.counters) = Len(names) /\ k \in 0..Len(names)
  /\ cf.counter \in Nat /\ cf.counter = counter + (Len(names) - k)
  /\ \A j \in DOMAIN names : j > k => cf.counters[j] = counter + (j - k)
  /\ k = 0 \/ \E f, i \in Nat : /\ Lies(names, f, i, k)
                                /\ \A j \in 1..k : cf.counters[j] = claim.counters[i - f + j]
  /\ \/ k = Len(names) /\ cf.claim = claim
     \/ k < Len(names) /\ cf.claim = [names |-> names, counters |-> cf.counters]
     \/ k < Len(names) /\ cf.claim = NoClaim /\ \A i \in DOMAIN names : names[i] = None

LEMMA ClaimForIs ==
  ASSUME Typed, NEW names \in Seq(Nat)
  PROVE  Tags(names, ClaimFor(names), Len(Claimed(names)))
<1>. DEFINE kept == Claimed(names)
            k == Len(kept)
            n == Len(names)
            more == [i \in 1..(n - k) |-> counter + i]
            tags == kept \o more
            cf == ClaimFor(names)
<1>1. /\ kept \in Seq(Nat) /\ k \in Nat /\ n \in Nat /\ k <= n /\ DOMAIN names = 1..n
      /\ counter \in Nat
  BY ClaimedIs DEF Typed
<1>2. k = 0 \/ \E f, i \in Nat : /\ Lies(names, f, i, k)
                                 /\ \A j \in 1..k : kept[j] = claim.counters[i - f + j]
  <2>1. CASE kept = <<>>
    BY <2>1, EmptySeq
  <2>2. CASE kept # <<>>
    <3>1. PICK f \in DOMAIN names, i \in DOMAIN claim.names :
             /\ names[f] # None /\ claim.names[i] = names[f] /\ f <= i
             /\ \A j \in 1..(f - 1) : names[j] = None
             /\ \A j \in 1..k : /\ i - f + j \in DOMAIN claim.names
                                /\ kept[j] = claim.counters[i - f + j]
      BY <2>2, ClaimedIs
    <3>2. f \in Nat /\ i \in Nat
      BY DEF Typed, ClaimType
    <3>3. Lies(names, f, i, k)
      BY <3>1 DEF Lies
    <3>. QED
      BY <3>1, <3>2, <3>3
  <2>. QED
    BY <2>1, <2>2
<1>3. /\ cf.counters = tags /\ cf.counter = counter + (n - k)
      /\ cf.claim = IF n - k = 0 THEN claim
                    ELSE IF \E i \in DOMAIN names : names[i] # None
                    THEN [names |-> names, counters |-> tags] ELSE NoClaim
  BY DEF ClaimFor
<1>. HIDE DEF cf, k, n
<1>4. more \in Seq(Nat) /\ Len(more) = n - k
  <2>1. n - k \in Nat /\ more \in [1..(n - k) -> Nat]
    BY <1>1
  <2>. QED
    BY <2>1
<1>5. \A j \in 1..(n - k) : more[j] = counter + j
  OBVIOUS
<1>. HIDE DEF kept, more
<1>6. /\ tags \in Seq(Nat) /\ Len(tags) = k + (n - k)
      /\ \A j \in 1..(k + (n - k)) : tags[j] = IF j <= k THEN kept[j] ELSE more[j - k]
  BY <1>1, <1>4, ConcatProperties DEF k
<1>. HIDE DEF tags
<1>7. Len(tags) = n /\ \A j \in 1..n : tags[j] = IF j <= k THEN kept[j] ELSE more[j - k]
  BY <1>1, <1>6
<1>8. \A j \in 1..n : j > k => tags[j] = counter + (j - k)
  BY <1>1, <1>5, <1>7
<1>9. k = 0 \/ \E f, i \in Nat : /\ Lies(names, f, i, k)
                                 /\ \A j \in 1..k : tags[j] = claim.counters[i - f + j]
  <2>1. \A j \in 1..k : tags[j] = kept[j]
    BY <1>1, <1>7
  <2>. QED
    BY <1>2, <2>1
<1>10. \/ k = n /\ cf.claim = claim
       \/ k < n /\ cf.claim = [names |-> names, counters |-> tags]
       \/ k < n /\ cf.claim = NoClaim /\ \A i \in DOMAIN names : names[i] = None
  BY <1>1, <1>3
<1>11. cf.counter \in Nat
  BY <1>1, <1>3
<1>. QED
  <2>1. cf.counters \in Seq(Nat) /\ Len(cf.counters) = n
    BY ONLY <1>3, <1>6, <1>7, Zenon
  <2>2. k \in 0..n
    BY ONLY <1>1
  <2>3. \A j \in DOMAIN names : j > k => cf.counters[j] = counter + (j - k)
    BY ONLY <1>1, <1>3, <1>8, Zenon
  <2>4. k = 0 \/ \E f, i \in Nat : /\ Lies(names, f, i, k)
                                   /\ \A j \in 1..k : cf.counters[j] = claim.counters[i - f + j]
    BY ONLY <1>3, <1>9, Zenon
  <2>5. \/ k = n /\ cf.claim = claim
        \/ k < n /\ cf.claim = [names |-> names, counters |-> cf.counters]
        \/ k < n /\ cf.claim = NoClaim /\ \A i \in DOMAIN names : names[i] = None
    BY ONLY <1>3, <1>10, Zenon
  <2>6. Tags(names, cf, k)
    BY ONLY <1>3, <1>11, <2>1, <2>2, <2>3, <2>4, <2>5, Zenon DEF Tags, n
  <2>. QED
    BY ONLY <2>6, Zenon DEF cf, k, kept

\* A batch keeps the counters that the claim has for its names.
Keeps(names, cf) ==
  \A f \in DOMAIN names, i \in DOMAIN claim.names :
    /\ names[f] # None /\ claim.names[i] = names[f] /\ f <= i
    /\ \A j \in 1..(f - 1) : names[j] = None
    /\ \A l \in DOMAIN claim.names : claim.names[l] = names[f] => l = i
    => \A j \in DOMAIN names : i - f + j \in DOMAIN claim.names => cf.counters[j] = claim.counters[i - f + j]

\* Where a stretch of M from offset a on ends, in a sequence of length L.
LEMMA StretchIs ==
  ASSUME NEW a \in Nat, NEW M \in Nat, NEW L \in Nat, NEW n \in Nat, n = IF a + M <= L THEN a + M ELSE L,
         NEW j \in 1..M, a + j \in 1..L
  PROVE  /\ n \in Nat /\ a + 1 \in Int /\ a + 1 <= n /\ n <= L /\ \A l \in (a + 1)..n : l \in 1..L
         /\ n - (a + 1) + 1 = n - a /\ n - a \in Nat /\ n - a <= M /\ j \in 1..(n - a)
         /\ (a + 1) + j - 1 = a + j
OBVIOUS

\* A piece of a sequence of numbers, in terms of its place.
LEMMA PieceIs ==
  ASSUME NEW s, NEW m \in Int, NEW n \in Int, NEW piece, piece = SubSeq(s, m, n),
         \A l \in m..n : s[l] \in Nat
  PROVE  /\ piece \in Seq(Nat)
         /\ Len(piece) = IF m <= n THEN n - m + 1 ELSE 0
         /\ \A l \in 1..(n - m + 1) : piece[l] = s[m + l - 1]
<1>. DEFINE q == SubSeq(s, m, n)
<1>1. /\ q \in Seq(Nat)
      /\ Len(q) = IF m <= n THEN n - m + 1 ELSE 0
      /\ \A l \in 1..(n - m + 1) : q[l] = s[m + l - 1]
  BY SubSeqProperties
<1>2. piece = q
  OBVIOUS
<1>. HIDE DEF q
<1>. QED
  BY ONLY <1>1, <1>2, Zenon

LEMMA ClaimForKeeps ==
  ASSUME Typed, NEW names \in Seq(Nat)
  PROVE  Keeps(names, ClaimFor(names))
<1>1. /\ claim.names \in Seq(Nat) /\ claim.counters \in Seq(Nat)
      /\ Len(claim.counters) \in Nat /\ Len(names) \in Nat
      /\ DOMAIN claim.names = 1..Len(claim.counters) /\ DOMAIN claim.counters = 1..Len(claim.counters)
      /\ DOMAIN names = 1..Len(names) /\ \A l \in 1..Len(claim.counters) : claim.counters[l] \in Nat
      /\ counter \in Nat
  BY ClaimIs
<1>0. SUFFICES ASSUME NEW f \in DOMAIN names, NEW i \in DOMAIN claim.names,
                     names[f] # None, claim.names[i] = names[f], f <= i,
                     \A j \in 1..(f - 1) : names[j] = None,
                     \A l \in DOMAIN claim.names : claim.names[l] = names[f] => l = i,
                     NEW j \in DOMAIN names, i - f + j \in DOMAIN claim.names
              PROVE  ClaimFor(names).counters[j] = claim.counters[i - f + j]
  BY DEF Keeps
<1>. DEFINE named == {l \in DOMAIN names : names[l] # None}
            found == {l \in DOMAIN claim.names : claim.names[l] = names[f]}
            L == Len(claim.counters)
            M == Len(names)
            n == Min({(i - f) + M, L})
            kept == Claimed(names)
            k == Len(kept)
            more == [l \in 1..(M - k) |-> counter + l]
<1>13. /\ L \in Nat /\ M \in Nat /\ DOMAIN claim.names = 1..L /\ DOMAIN names = 1..M
       /\ \A l \in 1..L : claim.counters[l] \in Nat
  BY <1>1
<1>14. i \in 1..L /\ f \in 1..M /\ j \in 1..M /\ i - f + j \in 1..L
  BY <1>0, <1>13
<1>15. L \in Nat /\ M \in Nat /\ \A l \in 1..L : claim.counters[l] \in Nat
  BY <1>13
<1>16. f <= i
  BY <1>0
<1>. HIDE DEF L, M
<1>5. i \in Nat /\ f \in Nat /\ i - f \in Nat /\ i <= L /\ j \in 1..M /\ i - f + j \in 1..L
  BY ONLY <1>14, <1>15, <1>16
<1>2. Min(named) = f
  <2>. DEFINE g == Min(named)
  <2>1. g \in named /\ \A l \in named : g <= l
    <3>1. named \in SUBSET Nat /\ f \in named
      BY <1>0, <1>1
    <3>. QED
      BY <3>1, MinIs
  <2>2. g \in 1..M /\ names[g] # None /\ g <= f
    <3>1. f \in named
      BY <1>0
    <3>. QED
      BY <1>1, <1>13, <1>14, <2>1, <3>1
  <2>. HIDE DEF g
  <2>3. ~(g \in 1..(f - 1))
    BY <1>0, <2>2
  <2>4. g = f
    BY <1>1, <2>2, <2>3
  <2>. QED
    BY <2>4 DEF g
<1>3. found = {i} /\ Min(found) = i
  <2>1. found = {i}
    BY <1>0
  <2>2. Min({i}) = i
    <3>1. {i} \in SUBSET Nat /\ {i} # {}
      BY <1>1
    <3>2. Min({i}) \in {i}
      BY <3>1, MinIs
    <3>. QED
      BY <3>2
  <2>. QED
    BY <2>1, <2>2
<1>4. kept = SubSeq(claim.counters, (i - f) + 1, n)
  <2>1. kept = IF named = {} \/ found = {} \/ i - f < 0 THEN <<>>
               ELSE SubSeq(claim.counters, (i - f) + 1, n)
    BY <1>2, <1>3 DEF Claimed, L, M
  <2>2. named # {} /\ found # {}
    BY <1>0, <1>3
  <2>3. ~(i - f < 0)
    BY ONLY <1>5
  <2>. QED
    BY <2>1, <2>2, <2>3
<1>. HIDE DEF named, found, kept, n
<1>6. n = IF (i - f) + M <= L THEN (i - f) + M ELSE L
  <2>1. (i - f) + M \in Int /\ L \in Int
    BY ONLY <1>5, <1>15
  <2>. QED
    BY <2>1, MinOfTwo DEF n
<1>17. /\ n \in Nat /\ (i - f) + 1 \in Int /\ (i - f) + 1 <= n /\ n <= L
       /\ \A l \in ((i - f) + 1)..n : l \in 1..L
       /\ n - ((i - f) + 1) + 1 = n - (i - f) /\ n - (i - f) \in Nat /\ n - (i - f) <= M
       /\ j \in 1..(n - (i - f)) /\ ((i - f) + 1) + j - 1 = (i - f) + j
  <2>. DEFINE a == i - f
  <2>1. a \in Nat /\ M \in Nat /\ L \in Nat /\ j \in 1..M /\ a + j \in 1..L
        /\ n = IF a + M <= L THEN a + M ELSE L
    BY <1>5, <1>6, <1>15
  <2>. HIDE DEF a
  <2>2. /\ n \in Nat /\ a + 1 \in Int /\ a + 1 <= n /\ n <= L /\ \A l \in (a + 1)..n : l \in 1..L
        /\ n - (a + 1) + 1 = n - a /\ n - a \in Nat /\ n - a <= M /\ j \in 1..(n - a)
        /\ (a + 1) + j - 1 = a + j
    <3>1. n \in Nat
      BY <2>1
    <3>. QED
      BY ONLY <2>1, <3>1, StretchIs
  <2>. QED
    BY <2>2 DEF a
<1>7. /\ kept \in Seq(Nat)
      /\ Len(kept) = IF (i - f) + 1 <= n THEN n - ((i - f) + 1) + 1 ELSE 0
      /\ \A l \in 1..(n - ((i - f) + 1) + 1) : kept[l] = claim.counters[(i - f) + 1 + l - 1]
  <2>1. /\ (i - f) + 1 \in Int /\ n \in Int /\ claim.counters \in Seq(Nat)
        /\ \A l \in ((i - f) + 1)..n : claim.counters[l] \in Nat
    <3>1. (i - f) + 1 \in Int /\ n \in Nat /\ \A l \in ((i - f) + 1)..n : l \in 1..L
      BY ONLY <1>17, Zenon
    <3>2. n \in Int
      BY ONLY <3>1
    <3>3. \A l \in 1..L : claim.counters[l] \in Nat
      BY ONLY <1>15, Zenon
    <3>4. \A l \in ((i - f) + 1)..n : claim.counters[l] \in Nat
      BY ONLY <3>1, <3>3, Zenon
    <3>. QED
      BY ONLY <3>1, <3>2, <3>4, <1>1, Zenon
  <2>. QED
    BY <1>4, <2>1, PieceIs, SMTT(30)
<1>. HIDE DEF k
<1>8. k = n - (i - f) /\ j \in 1..k /\ kept[j] = claim.counters[i - f + j] /\ k \in Nat /\ k <= M
  <2>1. k = n - (i - f)
    BY <1>7, <1>17 DEF k
  <2>2. kept[j] = claim.counters[i - f + j]
    BY <1>7, <1>17
  <2>. QED
    BY <1>17, <2>1, <2>2
<1>9. ClaimFor(names).counters = kept \o more
  BY DEF ClaimFor, kept, M, k
<1>10. more \in Seq(Nat)
  <2>1. M - k \in Nat /\ \A l \in 1..(M - k) : counter + l \in Nat
    <3>1. counter \in Nat
      BY <1>1
    <3>2. k \in Nat /\ k <= M /\ M \in Nat
      BY <1>8, <1>15
    <3>. QED
      BY ONLY <3>1, <3>2
  <2>2. more \in [1..(M - k) -> Nat]
    BY <2>1
  <2>. QED
    BY <2>1, <2>2, SeqDef
<1>. HIDE DEF more
<1>11. \A l \in 1..(Len(kept) + Len(more)) : (kept \o more)[l] = IF l <= Len(kept) THEN kept[l] ELSE more[l - Len(kept)]
  BY <1>7, <1>10, ConcatProperties
<1>12. (kept \o more)[j] = kept[j]
  <2>1. Len(more) \in Nat
    BY <1>10
  <2>2. j \in 1..(k + Len(more)) /\ j <= k
    BY <1>8, <2>1
  <2>. QED
    BY <1>11, <2>2 DEF k
<1>. QED
  BY <1>8, <1>9, <1>12

\* Two names that the claim and the records share lie on one line.
LEMMA OneLine ==
  ASSUME Typed, Ahead,
         NEW i \in DOMAIN claim.names, NEW p \in DOMAIN records, claim.names[i] = records[p],
         NEW j \in DOMAIN claim.names, NEW q \in DOMAIN records, claim.names[j] = records[q],
         i <= j
  PROVE  p + (j - i) = q
<1>1. /\ p \in Nat /\ q \in Nat /\ i \in Nat /\ j \in Nat
      /\ \A m, n \in DOMAIN records : records[m] = records[n] => m = n
      /\ records[q] # None
  <2>1. \A n \in DOMAIN claim.names : n \in Nat
    BY SMTT(30) DEF Typed, ClaimType
  <2>. QED
    BY <2>1, RecordsAre
<1>2. j \in i..Len(claim.names)
  BY <1>1 DEF Typed, ClaimType
<1>3. p + (j - i) \in DOMAIN records /\ claim.names[j] = Name(records[p + (j - i)])
  BY <1>2 DEF Ahead
<1>4. records[q] = records[p + (j - i)]
  BY <1>1, <1>3 DEF Name
<1>. QED
  BY <1>1, <1>3, <1>4

NamesOf(b) == [i \in DOMAIN b.recs |-> Name(b.recs[i])]

LEMMA BatchIs ==
  ASSUME Typed, NEW b, NEW idx \in Nat, Batch(b, idx)
  PROVE  /\ b.before \in Nat /\ Len(b.recs) \in Nat \ {0}
         /\ DOMAIN b.recs = 1..Len(b.recs) /\ NamesOf(b) \in Seq(Nat)
         /\ Len(NamesOf(b)) = Len(b.recs) /\ DOMAIN NamesOf(b) = 1..Len(b.recs)
         /\ \A j \in 1..Len(b.recs) : /\ b.before + j \in DOMAIN records
                                      /\ b.recs[j] = records[b.before + j]
                                      /\ NamesOf(b)[j] = Name(records[b.before + j])
                                      /\ NamesOf(b)[j] # None => NamesOf(b)[j] = records[b.before + j]
<1>. DEFINE n == Len(b.recs)
<1>1. /\ b.recs \in Seq(Nat) /\ b.recs # <<>> /\ b.before \in Nat /\ b.before + n <= Len(records)
      /\ \A j \in DOMAIN b.recs : b.recs[j] = records[b.before + j]
  BY DEF Batch
<1>2. n \in Nat \ {0} /\ DOMAIN b.recs = 1..n /\ \A j \in 1..n : b.recs[j] \in Nat
  BY <1>1, EmptySeq
<1>. HIDE DEF n
<1>3. \A j \in 1..n : b.before + j \in DOMAIN records
  <2>1. Len(records) \in Nat /\ DOMAIN records = 1..Len(records)
    BY RecordsAre
  <2>. QED
    BY <1>1, <1>2, <2>1
<1>4. NamesOf(b) \in [1..n -> Nat]
  BY <1>2 DEF NamesOf, Name, None
<1>5. NamesOf(b) \in Seq(Nat) /\ Len(NamesOf(b)) = n /\ DOMAIN NamesOf(b) = 1..n
  BY <1>2, <1>4
<1>6. \A j \in 1..n : NamesOf(b)[j] = Name(records[b.before + j])
  BY <1>1, <1>2 DEF NamesOf
<1>7. \A j \in 1..n : NamesOf(b)[j] # None => NamesOf(b)[j] = records[b.before + j]
  BY <1>6 DEF Name
<1>. QED
  BY <1>1, <1>2, <1>3, <1>5, <1>6, <1>7 DEF n

\* Where the names of a batch lie on the claim, the claim's counters mean its records.
LEMMA LiesMean ==
  ASSUME Typed, Claims, NEW b, NEW idx \in Nat, Batch(b, idx),
         NEW f \in Nat, NEW i \in Nat, NEW k \in 0..Len(b.recs), Lies(NamesOf(b), f, i, k),
         NEW j \in 1..k
  PROVE  /\ i - f + j \in DOMAIN claim.names /\ Meant(i - f + j, records[b.before + j])
         /\ b.before + f \in DOMAIN records /\ claim.names[i] = records[b.before + f]
         /\ i \in DOMAIN claim.names
<1>. DEFINE B == b.before
            p == B + f
            n == Len(b.recs)
<1>1. /\ B \in Nat /\ n \in Nat /\ DOMAIN NamesOf(b) = 1..n
      /\ \A m \in 1..n : /\ B + m \in DOMAIN records
                         /\ NamesOf(b)[m] = Name(records[B + m])
                         /\ NamesOf(b)[m] # None => NamesOf(b)[m] = records[B + m]
  BY BatchIs
<1>2. /\ f \in 1..n /\ i \in DOMAIN claim.names /\ f <= i
      /\ NamesOf(b)[f] # None /\ claim.names[i] = NamesOf(b)[f]
      /\ \A m \in 1..(f - 1) : NamesOf(b)[m] = None
      /\ i - f + j \in DOMAIN claim.names
  BY <1>1 DEF Lies
<1>3. p \in DOMAIN records /\ claim.names[i] = records[p]
  BY <1>1, <1>2
<1>4. DOMAIN claim.names = 1..Len(claim.names) /\ Len(claim.names) \in Nat
  BY DEF Typed, ClaimType
<1>0. j \in Nat /\ j >= 1 /\ f \in Nat /\ i \in Nat /\ p \in Nat /\ p = B + f
  <2>1. k \in Nat
    BY <1>1
  <2>. QED
    BY <1>1, <2>1
<1>. HIDE DEF p, B, n
<1>5. CASE f <= j
  <2>1. i - f + j \in i..Len(claim.names)
    BY <1>0, <1>2, <1>4, <1>5
  <2>2. p + ((i - f + j) - i) = B + j
    BY <1>0, <1>1
  <2>3. Meant(i - f + j, records[p + ((i - f + j) - i)])
    BY <1>2, <1>3, <2>1 DEF Claims, Ahead
  <2>. QED
    BY <1>2, <1>3, <2>2, <2>3 DEF B, p
<1>6. CASE j < f
  <2>1. f - j \in 1..(i - 1) /\ p > f - j /\ p - (f - j) = B + j /\ i - (f - j) = i - f + j
    BY <1>0, <1>1, <1>2, <1>6
  <2>2. \A m \in (p - (f - j))..(p - 1) : Name(records[m]) = None
    <3>1. \A m \in (p - (f - j))..(p - 1) : m - B \in 1..(f - 1) /\ m - B \in 1..n /\ B + (m - B) = m
      BY <1>0, <1>1, <1>2, <1>6
    <3>. QED
      BY <1>1, <1>2, <3>1
  <2>3. Meant(i - (f - j), records[p - (f - j)])
    BY <1>2, <1>3, <2>1, <2>2 DEF Claims, Behind
  <2>. QED
    BY <1>2, <1>3, <2>1, <2>3 DEF B, p
<1>. QED
  BY <1>0, <1>2, <1>3, <1>5, <1>6 DEF p, B

\* The counters a batch gets are its records' own.
LEMMA TagsMean ==
  ASSUME Typed, Claims, NEW b, NEW idx \in Nat, Batch(b, idx), NEW cf, NEW k, Tags(NamesOf(b), cf, k)
  PROVE  /\ \A j \in 1..Len(b.recs) :
              /\ cf.counters[j] \in 1..cf.counter
              /\ \A x \in Offered : x.counter = cf.counters[j] => x.rec = records[b.before + j]
         /\ \A i, j \in 1..Len(b.recs) : cf.counters[i] = cf.counters[j] => i = j
<1>. DEFINE n == Len(b.recs)
<1>1. n \in Nat /\ Len(NamesOf(b)) = n /\ DOMAIN NamesOf(b) = 1..n
  BY BatchIs
<1>2. /\ k \in 0..n /\ cf.counter = counter + (n - k) /\ counter \in Nat
      /\ \A j \in 1..n : j > k => cf.counters[j] = counter + (j - k)
  BY <1>1 DEF Tags, Typed
<1>3. k = 0 \/ \E f, i \in Nat : /\ Lies(NamesOf(b), f, i, k)
                                 /\ \A j \in 1..k : cf.counters[j] = claim.counters[i - f + j]
  BY DEF Tags
<1>4. /\ \A x \in Offered : x.counter \in 1..counter
      /\ \A i \in DOMAIN claim.names : claim.counters[i] \in 1..counter
      /\ \A i, j \in DOMAIN claim.names : claim.counters[i] = claim.counters[j] => i = j
  BY DEF Claims, Numbered
<1>0. n \in Nat
  BY <1>1
<1>. HIDE DEF n
<1>5. \A j \in 1..k : /\ cf.counters[j] \in 1..counter
                      /\ \A x \in Offered : x.counter = cf.counters[j] => x.rec = records[b.before + j]
  <2>1. CASE k = 0
    BY <2>1
  <2>2. CASE k # 0
    <3>1. PICK f \in Nat, i \in Nat : /\ Lies(NamesOf(b), f, i, k)
                                      /\ \A j \in 1..k : cf.counters[j] = claim.counters[i - f + j]
      BY <1>3, <2>2
    <3>2. \A j \in 1..k : i - f + j \in DOMAIN claim.names /\ Meant(i - f + j, records[b.before + j])
      BY <1>2, <3>1, LiesMean DEF n
    <3>. QED
      BY <1>4, <3>1, <3>2 DEF Meant
  <2>. QED
    BY <2>1, <2>2
<1>6. \A i, j \in 1..k : cf.counters[i] = cf.counters[j] => i = j
  <2>1. CASE k = 0
    BY <2>1
  <2>2. CASE k # 0
    <3>1. PICK f \in Nat, i \in Nat : /\ Lies(NamesOf(b), f, i, k)
                                      /\ \A j \in 1..k : cf.counters[j] = claim.counters[i - f + j]
      BY <1>3, <2>2
    <3>2. \A j \in 1..k : i - f + j \in DOMAIN claim.names
      BY <1>2, <3>1, LiesMean DEF n
    <3>3. ASSUME NEW a \in 1..k, NEW c \in 1..k, cf.counters[a] = cf.counters[c] PROVE a = c
      <4>1. i - f + a = i - f + c
        BY <1>4, <3>1, <3>2, <3>3
      <4>. QED
        BY <1>2, <4>1
    <3>. QED
      BY <3>3
  <2>. QED
    BY <2>1, <2>2
<1>7. ASSUME NEW j \in 1..n PROVE cf.counters[j] \in 1..cf.counter
  <2>1. CASE j <= k
    <3>1. cf.counters[j] \in 1..counter
      BY <1>2, <1>5, <2>1
    <3>. QED
      BY <1>0, <1>2, <3>1
  <2>2. CASE j > k
    BY <1>0, <1>2, <2>2
  <2>. QED
    BY <1>2, <2>1, <2>2
<1>8. ASSUME NEW j \in 1..n, NEW x \in Offered, x.counter = cf.counters[j]
      PROVE  x.rec = records[b.before + j]
  <2>1. x.counter \in 1..counter
    BY <1>4
  <2>2. j <= k
    BY <1>2, <1>8, <2>1
  <2>. QED
    BY <1>2, <1>5, <1>8, <2>2
<1>9. \A i, j \in 1..n : cf.counters[i] = cf.counters[j] => i = j
  <2>. SUFFICES ASSUME NEW a \in 1..n, NEW c \in 1..n, cf.counters[a] = cf.counters[c] PROVE a = c
    OBVIOUS
  <2>1. CASE a <= k /\ c <= k
    BY <1>2, <1>6, <2>1
  <2>2. CASE a > k /\ c > k
    BY <1>2, <2>2
  <2>3. CASE a <= k /\ c > k
    <3>1. cf.counters[a] \in 1..counter /\ cf.counters[c] = counter + (c - k)
      BY <1>2, <1>5, <2>3
    <3>. QED
      BY <1>2, <2>3, <3>1
  <2>4. CASE a > k /\ c <= k
    <3>1. cf.counters[c] \in 1..counter /\ cf.counters[a] = counter + (a - k)
      BY <1>2, <1>5, <2>4
    <3>. QED
      BY <1>2, <2>4, <3>1
  <2>. QED
    BY <1>2, <2>1, <2>2, <2>3, <2>4
<1>. QED
  BY <1>7, <1>8, <1>9 DEF n

\* A batch that is offered with the counters it gets leaves every counter to one record.
LEMMA OffersKeepClaims ==
  ASSUME Typed, Claims, NEW b, NEW idx \in Nat, Batch(b, idx), NEW cf, NEW k, Tags(NamesOf(b), cf, k),
         counter' = cf.counter, claim' = cf.claim, UNCHANGED <<records, kind>>,
         \A x \in Offered' : \/ x \in Offered
                             \/ \E j \in 1..Len(b.recs) : /\ x.counter = cf.counters[j]
                                                          /\ x.rec = records[b.before + j]
  PROVE  Claims'
<1>. DEFINE B == b.before
            n == Len(b.recs)
            names == NamesOf(b)
<1>1. /\ B \in Nat /\ n \in Nat \ {0} /\ DOMAIN names = 1..n /\ Len(names) = n /\ names \in Seq(Nat)
      /\ \A j \in 1..n : /\ B + j \in DOMAIN records
                         /\ names[j] = Name(records[B + j])
                         /\ names[j] # None => names[j] = records[B + j]
  BY BatchIs
<1>2. /\ k \in 0..n /\ cf.counter = counter + (n - k) /\ counter \in Nat
      /\ cf.counters \in Seq(Nat) /\ Len(cf.counters) = n
  BY <1>1 DEF Tags, Typed
<1>3. k = 0 \/ \E f, i \in Nat : /\ Lies(NamesOf(b), f, i, k)
                                 /\ \A j \in 1..k : cf.counters[j] = claim.counters[i - f + j]
  BY DEF Tags
<1>4. /\ \A x \in Offered : x.counter \in 1..counter
      /\ \A i \in DOMAIN claim.names : claim.counters[i] \in 1..counter /\ claim.names[i] \in 0..Len(kind)
      /\ \A i, j \in DOMAIN claim.names : claim.counters[i] = claim.counters[j] => i = j
      /\ OneRecord /\ Ahead /\ Behind
  BY DEF Claims, Numbered
<1>5. /\ \A j \in 1..n :
           /\ cf.counters[j] \in 1..cf.counter
           /\ \A x \in Offered : x.counter = cf.counters[j] => x.rec = records[B + j]
      /\ \A i, j \in 1..n : cf.counters[i] = cf.counters[j] => i = j
  BY TagsMean
<1>6. \/ k = n /\ claim' = claim
      \/ claim' = [names |-> names, counters |-> cf.counters]
      \/ claim' = NoClaim
  BY <1>1 DEF Tags
<1>7. \A x \in Offered' : x \in Offered \/ \E j \in 1..n : x.counter = cf.counters[j] /\ x.rec = records[B + j]
  OBVIOUS
<1>8. counter <= counter' /\ counter' \in Nat /\ 1..counter \subseteq 1..counter'
  BY <1>1, <1>2
<1>9. /\ DOMAIN claim.names = 1..Len(claim.names) /\ Len(claim.names) \in Nat
      /\ \A i \in DOMAIN claim.names : i \in Nat
  BY DEF Typed, ClaimType
<1>10. /\ \A p \in DOMAIN records : records[p] # None /\ p \in Nat /\ records[p] \in 1..Len(kind)
       /\ \A p, q \in DOMAIN records : records[p] = records[q] => p = q
  BY RecordsAre
<1>11. \A x \in Offered' : \A j \in 1..n : x.counter = cf.counters[j] => x.rec = records[B + j]
  BY <1>5, <1>7
<1>12. \A x \in Offered' : x.counter \in 1..counter'
  BY <1>4, <1>5, <1>7, <1>8
<1>13. OneRecord'
  <2>. SUFFICES ASSUME NEW x \in Offered', NEW y \in Offered', x.counter = y.counter PROVE x.rec = y.rec
    BY DEF OneRecord
  <2>1. CASE x \in Offered /\ y \in Offered
    BY <1>4, <2>1 DEF OneRecord
  <2>2. ASSUME NEW j \in 1..n, x.counter = cf.counters[j], x.rec = records[B + j] PROVE x.rec = y.rec
    BY <1>11, <2>2
  <2>3. ASSUME NEW j \in 1..n, y.counter = cf.counters[j], y.rec = records[B + j] PROVE x.rec = y.rec
    BY <1>11, <2>3
  <2>4. /\ x \in Offered \/ \E j \in 1..n : x.counter = cf.counters[j] /\ x.rec = records[B + j]
        /\ y \in Offered \/ \E j \in 1..n : y.counter = cf.counters[j] /\ y.rec = records[B + j]
    BY ONLY <1>7, x \in Offered', y \in Offered', Zenon
  <2>. QED
    BY ONLY <2>1, <2>2, <2>3, <2>4, Zenon
<1>. HIDE DEF n, B, names
<1>14. CASE k = n /\ claim' = claim
  <2>1. PICK f \in Nat, i0 \in Nat : /\ Lies(NamesOf(b), f, i0, k)
                                     /\ \A j \in 1..k : cf.counters[j] = claim.counters[i0 - f + j]
    BY <1>1, <1>3, <1>14
  <2>2. \A j \in 1..k : i0 - f + j \in DOMAIN claim.names
    BY <1>14, <2>1, LiesMean DEF n
  <2>3. B + f \in DOMAIN records /\ claim.names[i0] = records[B + f] /\ i0 \in DOMAIN claim.names
    <3>1. 1 \in 1..k
      BY <1>1, <1>14
    <3>. QED
      BY <1>14, <2>1, <3>1, LiesMean DEF n, B
  <2>4. ASSUME NEW i \in DOMAIN claim.names, NEW p \in DOMAIN records, claim.names[i] = records[p],
               NEW m \in DOMAIN claim.names, NEW x \in Offered', x.counter = claim.counters[m],
               x \in Offered => x.rec = records[p + (m - i)]
        PROVE  x.rec = records[p + (m - i)]
    <3>1. CASE x \in Offered
      BY <2>4, <3>1
    <3>2. ASSUME NEW j \in 1..n, x.counter = cf.counters[j], x.rec = records[B + j]
          PROVE  x.rec = records[p + (m - i)]
      <4>1. m = i0 - f + j
        <5>1. j \in 1..k
          BY ONLY <1>14, <3>2
        <5>2. i0 - f + j \in DOMAIN claim.names /\ cf.counters[j] = claim.counters[i0 - f + j]
          BY ONLY <2>1, <2>2, <5>1, Zenon
        <5>3. claim.counters[m] = claim.counters[i0 - f + j]
          BY ONLY <2>4, <3>2, <5>2, Zenon
        <5>4. m \in DOMAIN claim.names
          BY <2>4
        <5>. QED
          BY ONLY <1>4, <5>2, <5>3, <5>4, Zenon
      <4>2. p - i = (B + f) - i0
        <5>1. i \in Nat /\ i0 \in Nat /\ p \in Nat /\ B + f \in Nat
          BY <1>9, <1>10, <2>3
        <5>2. CASE i <= i0
          <6>1. p + (i0 - i) = B + f
            BY <1>4, <2>3, <2>4, <5>2, OneLine
          <6>. QED
            BY <5>1, <6>1
        <5>3. CASE i0 <= i
          <6>1. (B + f) + (i - i0) = p
            BY <1>4, <2>3, <2>4, <5>3, OneLine
          <6>. QED
            BY <5>1, <6>1
        <5>. QED
          BY <5>1, <5>2, <5>3
      <4>3. p + (m - i) = B + j
        <5>1. i \in Nat /\ p \in Nat /\ B \in Nat /\ j \in Nat
          BY <1>1, <1>9, <1>10, <3>2
        <5>2. f \in Nat /\ i0 \in Nat
          OBVIOUS
        <5>3. p = i + (B + f - i0)
          BY <4>2, <5>1, <5>2
        <5>. QED
          BY ONLY <4>1, <5>1, <5>2, <5>3
      <4>. QED
        BY <3>2, <4>3
    <3>. QED
      BY <1>7, <3>1, <3>2
  <2>5. Numbered'
    BY <1>4, <1>8, <1>12, <1>14 DEF Numbered
  <2>6. Ahead'
    <3>1. \A r : Name(r)' = Name(r)
      BY DEF Name
    <3>2. ASSUME NEW i \in DOMAIN claim.names, NEW p \in DOMAIN records, claim.names[i] = records[p],
                 NEW j \in i..Len(claim.names)
          PROVE  /\ p + (j - i) \in DOMAIN records
                 /\ claim.names[j] = Name(records[p + (j - i)])
                 /\ Meant(j, records[p + (j - i)])'
      <4>1. /\ p + (j - i) \in DOMAIN records
            /\ claim.names[j] = Name(records[p + (j - i)])
            /\ Meant(j, records[p + (j - i)])
        BY <1>4, <3>2 DEF Ahead
      <4>2. j \in DOMAIN claim.names
        BY <1>9
      <4>3. \A x \in Offered' : x.counter = claim.counters[j] => x.rec = records[p + (j - i)]
        BY <2>4, <3>2, <4>1, <4>2 DEF Meant
      <4>. QED
        BY <1>14, <4>1, <4>3 DEF Meant
    <3>. QED
      BY <1>14, <3>1, <3>2 DEF Ahead
  <2>7. Behind'
    <3>1. \A r : Name(r)' = Name(r)
      BY DEF Name
    <3>2. ASSUME NEW i \in DOMAIN claim.names, NEW p \in DOMAIN records, claim.names[i] = records[p],
                 NEW d \in 1..(i - 1), p > d, \A m \in (p - d)..(p - 1) : Name(records[m]) = None
          PROVE  Meant(i - d, records[p - d])'
      <4>1. Meant(i - d, records[p - d])
        BY <1>4, <3>2 DEF Behind
      <4>2. i - d \in DOMAIN claim.names /\ p + ((i - d) - i) = p - d
        BY <1>9, <1>10
      <4>3. \A x \in Offered' : x.counter = claim.counters[i - d] => x.rec = records[p + ((i - d) - i)]
        BY <2>4, <3>2, <4>1, <4>2 DEF Meant
      <4>. QED
        BY <1>14, <4>2, <4>3 DEF Meant
    <3>. QED
      BY <1>14, <3>1, <3>2 DEF Behind
  <2>. QED
    BY <1>13, <2>5, <2>6, <2>7 DEF Claims
<1>15. CASE claim' = [names |-> names, counters |-> cf.counters]
  <2>1. /\ claim'.names = names /\ claim'.counters = cf.counters /\ DOMAIN claim'.names = 1..n
        /\ Len(claim'.names) = n
    BY <1>1, <1>15
  <2>2. Numbered'
    <3>1. \A j \in 1..n : names[j] \in 0..Len(kind)
      <4>. SUFFICES ASSUME NEW j \in 1..n PROVE names[j] \in 0..Len(kind)
        OBVIOUS
      <4>1. names[j] = None \/ names[j] \in 1..Len(kind)
        BY <1>1, <1>10
      <4>2. Len(kind) \in Nat
        BY RecordsAre
      <4>. QED
        BY <4>1, <4>2 DEF None
    <3>2. /\ \A i \in 1..n : claim'.counters[i] \in 1..counter' /\ claim'.names[i] \in 0..Len(kind)'
          /\ \A i, j \in 1..n : claim'.counters[i] = claim'.counters[j] => i = j
      BY <1>5, <2>1, <3>1
    <3>. QED
      BY <1>12, <2>1, <3>2 DEF Numbered
  <2>3. \A j \in 1..n : Meant(j, records[B + j])'
    BY <1>11, <2>1 DEF Meant
  <2>4. \A i \in 1..n, p \in DOMAIN records : names[i] = records[p] => p = B + i
    BY <1>1, <1>10
  <2>5. \A r : Name(r)' = Name(r)
    BY DEF Name
  <2>6. Ahead'
    <3>1. ASSUME NEW i \in 1..n, NEW p \in DOMAIN records, names[i] = records[p], NEW j \in i..n
          PROVE  /\ p + (j - i) \in DOMAIN records
                 /\ names[j] = Name(records[p + (j - i)])
                 /\ Meant(j, records[p + (j - i)])'
      <4>1. j \in 1..n /\ p + (j - i) = B + j
        BY <1>1, <1>10, <2>4, <3>1
      <4>. QED
        BY <1>1, <2>3, <4>1
    <3>. QED
      BY <2>1, <2>5, <3>1 DEF Ahead
  <2>7. Behind'
    <3>1. ASSUME NEW i \in 1..n, NEW p \in DOMAIN records, names[i] = records[p], NEW d \in 1..(i - 1)
          PROVE  Meant(i - d, records[p - d])'
      <4>1. i - d \in 1..n /\ p - d = B + (i - d)
        BY <1>1, <1>10, <2>4, <3>1
      <4>. QED
        BY <2>3, <4>1
    <3>. QED
      BY <2>1, <3>1 DEF Behind
  <2>. QED
    BY <1>13, <2>2, <2>6, <2>7 DEF Claims
<1>16. CASE claim' = NoClaim
  <2>1. DOMAIN claim'.names = {}
    BY <1>16 DEF NoClaim
  <2>. QED
    BY <1>12, <1>13, <2>1 DEF Claims, Numbered, Ahead, Behind
<1>. QED
  BY <1>6, <1>14, <1>15, <1>16

\* Less on its way, higher counters: nothing changes for the claim.
LEMMA FewerKeepClaims ==
  ASSUME Claims, counter \in Nat, counter' \in Nat, counter <= counter',
         UNCHANGED <<records, kind, claim>>, Offered' \subseteq Offered
  PROVE  Claims'
<1>1. 1..counter \subseteq 1..counter'
  OBVIOUS
<1>2. Numbered'
  BY <1>1 DEF Claims, Numbered
<1>3. OneRecord'
  BY DEF Claims, OneRecord
<1>4. /\ \A r : Name(r)' = Name(r)
      /\ \A i, r : Meant(i, r) => Meant(i, r)'
  BY DEF Name, Meant
<1>5. Ahead'
  BY <1>4 DEF Claims, Ahead
<1>6. Behind'
  BY <1>4 DEF Claims, Behind
<1>. QED
  BY <1>2, <1>3, <1>5, <1>6 DEF Claims

-----------------------------------------------------------------------------
(* Pushes.                                                                  *)

RailInv == Typed /\ CursorsCover /\ PushIsPiece /\ Claims

LEMMA CoversStay ==
  ASSUME UNCHANGED <<records, kind>>, ever \subseteq ever'
  PROVE  /\ \A c : ResumeIndex(c)' = ResumeIndex(c)
         /\ \A n : Taken(n) => Taken(n)'
         /\ \A c : Covers(c) => Covers(c)'
<1>1. \A c : ResumeIndex(c)' = ResumeIndex(c)
  BY DEF ResumeIndex
<1>2. \A n : Taken(n) => Taken(n)'
  BY DEF Taken
<1>3. \A c : Covers(c) => Covers(c)'
  <2>. SUFFICES ASSUME NEW c, Covers(c) PROVE Covers(c)'
    OBVIOUS
  <2>1. Taken(ResumeIndex(c))'
    <3>1. \A n : n = ResumeIndex(c) => Taken(n)'
      BY <1>2 DEF Covers
    <3>. QED
      BY <1>1, <3>1 DEF Taken
  <2>. QED
    BY <2>1 DEF Covers
<1>. QED
  BY <1>1, <1>2, <1>3

\* What is said of a push under way.
Piece(p) ==
  /\ p \in PushType
  /\ p.todo # <<>> /\ p.base + Len(p.todo) <= Len(records)
  /\ \A i \in DOMAIN p.todo : p.todo[i].rec = records[p.base + i]
  /\ Taken(p.base) /\ Covers(p.cursor)

LEMMA ActiveIs ==
  ASSUME push \in {Idle} \cup PushType
  PROVE  /\ Active <=> push # Idle
         /\ Active <=> push \in PushType
         /\ push.pc \in {"sent", "answered", "sleeping"} => push \in PushType
<1>1. Idle.pc = "idle"
  BY DEF Idle
<1>2. \A p \in PushType : p.pc # "idle"
  BY DEF PushType
<1>. QED
  BY <1>1, <1>2 DEF Active

\* The request of a push: its batch, or the first of it.
LEMMA RequestIs ==
  ASSUME push \in PushType, push.todo # <<>>
  PROVE  /\ Request \in Seq(OfferType)
         /\ Len(push.todo) \in Nat \ {0} /\ DOMAIN push.todo = 1..Len(push.todo)
         /\ Len(Request) = IF push.single THEN 1 ELSE Len(push.todo)
         /\ DOMAIN Request = 1..Len(Request)
         /\ \A i \in 1..Len(Request) : i \in DOMAIN push.todo /\ Request[i] = push.todo[i]
         /\ \A x \in Range(Request) : x \in Range(push.todo) /\ \E i \in 1..Len(Request) : x = Request[i]
<1>. DEFINE todo == push.todo
            n == Len(todo)
<1>1. todo \in Seq(OfferType) /\ todo # <<>> /\ push.single \in BOOLEAN
  BY DEF PushType
<1>2. n \in Nat \ {0} /\ DOMAIN todo = 1..n /\ \A i \in 1..n : todo[i] \in OfferType
  BY <1>1, EmptySeq
<1>. HIDE DEF n, todo
<1>3. CASE push.single
  <2>1. Request = SubSeq(todo, 1, 1)
    BY <1>3 DEF Request, todo
  <2>2. \A i \in 1..1 : todo[i] \in OfferType
    BY <1>2
  <2>3. /\ SubSeq(todo, 1, 1) \in Seq(OfferType)
        /\ Len(SubSeq(todo, 1, 1)) = IF 1 <= 1 THEN 1 - 1 + 1 ELSE 0
        /\ \A i \in 1..(1 - 1 + 1) : SubSeq(todo, 1, 1)[i] = todo[1 + i - 1]
    BY <2>2, SubSeqProperties
  <2>4. Request \in Seq(OfferType) /\ Len(Request) = 1 /\ Request[1] = todo[1] /\ DOMAIN Request = 1..1
    BY <2>1, <2>3
  <2>5. \A i \in 1..1 : i \in DOMAIN todo /\ Request[i] = todo[i]
    BY <1>2, <2>4
  <2>6. \A x \in Range(Request) : x \in Range(todo) /\ \E i \in 1..1 : x = Request[i]
    BY <2>4, <2>5 DEF Range
  <2>. QED
    BY <1>2, <1>3, <2>4, <2>5, <2>6 DEF n, todo
<1>4. CASE ~push.single
  <2>1. Request = todo
    BY <1>4 DEF Request, todo
  <2>2. \A x \in Range(Request) : x \in Range(todo) /\ \E i \in 1..n : x = Request[i]
    BY <1>2, <2>1 DEF Range
  <2>. QED
    BY <1>1, <1>2, <1>4, <2>1, <2>2 DEF n, todo
<1>. QED
  BY <1>3, <1>4

\* What a push may become in one step, as long as nothing else is offered.
LEMMA StepKeeps ==
  ASSUME RailInv, UNCHANGED <<records, kind, claim>>, counter' \in Nat, counter <= counter',
         Offered' \subseteq Offered, ever \subseteq ever',
         log' \subseteq OfferType, wire' \subseteq Seq(OfferType), \A x \in log' : x.rec \in ever',
         \E c \in CursorType : Covers(c) /\ anchor' = c.anchor,
         \E c \in CursorType : Covers(c) /\ cursor' = c,
         up' \in BOOLEAN, push' \in {Idle} \cup PushType, PushIsPiece'
  PROVE  RailInv'
<1>1. Typed'
  <2>1. anchor' \in Nat /\ cursor' \in CursorType
    BY DEF CursorType
  <2>. QED
    BY <2>1 DEF RailInv, Typed, PushType
<1>2. CursorsCover'
  <2>1. Covers(cursor)'
    <3>1. PICK c \in CursorType : Covers(c) /\ cursor' = c
      OBVIOUS
    <3>2. Covers(c)'
      BY <3>1, CoversStay
    <3>. QED
      BY <3>1, <3>2 DEF Covers, ResumeIndex, Taken
  <2>2. Covers(Kept)'
    <3>1. PICK c \in CursorType : Covers(c) /\ anchor' = c.anchor
      OBVIOUS
    <3>2. Covers([anchor |-> c.anchor, skip |-> 0])
      BY <3>1, AnchorCovers DEF RailInv
    <3>3. Covers([anchor |-> c.anchor, skip |-> 0])'
      BY <3>2, CoversStay
    <3>. QED
      BY <3>1, <3>3 DEF Covers, ResumeIndex, Taken, Kept
  <2>. QED
    BY <2>1, <2>2 DEF CursorsCover
<1>3. Claims'
  BY FewerKeepClaims DEF RailInv, Typed
<1>. QED
  BY <1>1, <1>2, <1>3 DEF RailInv

\* What a push may be when it goes on: over, or with the next batch.
Sends(idx, c, attempt) ==
  \E b, cf, k :
    /\ Batch(b, idx) /\ Tags(NamesOf(b), cf, k) /\ Keeps(NamesOf(b), cf)
    /\ push' = [pc |-> "sent", base |-> b.before, todo |-> Rows(b.recs, cf.counters),
                single |-> (Len(b.recs) = 1), cursor |-> c, attempt |-> attempt, answer |-> "none"]
    /\ counter' = cf.counter /\ claim' = cf.claim /\ cursor' = cursor

LEMMA GoOnIs ==
  ASSUME Typed, NEW idx \in Nat, NEW c, NEW attempt, GoOn(idx, c, attempt)
  PROVE  \/ push' = Idle /\ cursor' = c /\ UNCHANGED <<counter, claim>>
         \/ Sends(idx, c, attempt)
<1>1. CASE Left(idx) = {}
  BY <1>1 DEF GoOn
<1>2. CASE Left(idx) # {}
  <2>. DEFINE b == NextRun(Left(idx))
              names == NamesOf(b)
              cf == ClaimFor(names)
  <2>1. /\ push' = [pc |-> "sent", base |-> b.before, todo |-> Rows(b.recs, cf.counters),
                    single |-> (Len(b.recs) = 1), cursor |-> c, attempt |-> attempt, answer |-> "none"]
        /\ counter' = cf.counter /\ claim' = cf.claim /\ cursor' = cursor
    BY <1>2 DEF GoOn, Send, NamesOf
  <2>2. Batch(b, idx)
    BY <1>2, NextRunIs
  <2>3. names \in Seq(Nat)
    BY <2>2, BatchIs
  <2>4. Tags(names, cf, Len(Claimed(names)))
    BY <2>3, ClaimForIs
  <2>5. Keeps(names, cf)
    BY <2>3, ClaimForKeeps
  <2>. HIDE DEF b, cf
  <2>. QED
    BY <2>1, <2>2, <2>4, <2>5 DEF Sends
<1>. QED
  BY <1>1, <1>2

LEMMA RowsAre ==
  ASSUME Typed, NEW b, NEW idx \in Nat, Batch(b, idx), NEW cs \in Seq(Nat), Len(cs) = Len(b.recs)
  PROVE  LET rows == Rows(b.recs, cs) IN
         /\ rows \in Seq(OfferType) /\ rows # <<>> /\ Len(rows) = Len(b.recs)
         /\ DOMAIN rows = 1..Len(b.recs)
         /\ \A i \in 1..Len(b.recs) : rows[i].rec = records[b.before + i] /\ rows[i].counter = cs[i]
<1>. DEFINE n == Len(b.recs)
            rows == Rows(b.recs, cs)
<1>1. /\ n \in Nat \ {0} /\ DOMAIN b.recs = 1..n
      /\ \A i \in 1..n : b.recs[i] = records[b.before + i] /\ records[b.before + i] \in Nat
  BY BatchIs, RecordsAre
<1>2. \A i \in 1..n : cs[i] \in Nat
  OBVIOUS
<1>. HIDE DEF n
<1>3. rows = [i \in 1..n |-> [rec |-> b.recs[i], counter |-> cs[i]]]
  BY <1>1 DEF Rows
<1>4. rows \in [1..n -> OfferType]
  <2>1. \A i \in 1..n : [rec |-> b.recs[i], counter |-> cs[i]] \in OfferType
    BY <1>1, <1>2 DEF OfferType
  <2>. QED
    BY <1>3, <2>1
<1>5. rows \in Seq(OfferType) /\ Len(rows) = n /\ DOMAIN rows = 1..n
  BY <1>1, <1>4
<1>6. \A i \in 1..n : rows[i].rec = records[b.before + i] /\ rows[i].counter = cs[i]
  BY <1>1, <1>3
<1>7. rows # <<>>
  BY <1>1, <1>5, EmptySeq
<1>. QED
  BY <1>5, <1>6, <1>7 DEF n

LEMMA TagsTyped ==
  ASSUME Typed, NEW names \in Seq(Nat), NEW cf, NEW k, Tags(names, cf, k)
  PROVE  cf.claim \in ClaimType /\ Len(cf.claim.names) = Len(cf.claim.counters)
<1>1. cf.counters \in Seq(Nat) /\ Len(cf.counters) = Len(names)
  BY DEF Tags
<1>2. CASE cf.claim = claim
  BY <1>2 DEF Typed
<1>3. CASE cf.claim = [names |-> names, counters |-> cf.counters]
  BY <1>1, <1>3 DEF ClaimType
<1>4. CASE cf.claim = NoClaim
  <2>1. <<>> \in Seq(Nat)
    BY EmptySeq
  <2>. QED
    BY <1>4, <2>1 DEF ClaimType, NoClaim
<1>. QED
  BY <1>2, <1>3, <1>4 DEF Tags

\* The push that is sent, and what is offered with it.
SendsBatch(b, cf, k, idx, c) ==
  /\ Batch(b, idx) /\ Tags(NamesOf(b), cf, k) /\ Keeps(NamesOf(b), cf)
  /\ counter' = cf.counter /\ claim' = cf.claim /\ cursor' = cursor
  /\ push' \in PushType /\ push'.pc = "sent" /\ push'.base = b.before /\ push'.cursor = c
  /\ push'.todo # <<>> /\ Len(push'.todo) = Len(b.recs) /\ DOMAIN push'.todo = 1..Len(b.recs)
  /\ \A i \in 1..Len(b.recs) : push'.todo[i].rec = records[b.before + i]
  /\ \A x \in Offered' : \/ x \in Offered
                         \/ \E j \in 1..Len(b.recs) : /\ x.counter = cf.counters[j]
                                                      /\ x.rec = records[b.before + j]

LEMMA SendsIs ==
  ASSUME Typed, NEW idx \in Nat, NEW c \in CursorType, NEW attempt \in Nat, Sends(idx, c, attempt),
         UNCHANGED <<log, wire>>
  PROVE  \E b, cf, k : SendsBatch(b, cf, k, idx, c)
<1>1. PICK b, cf, k :
        /\ Batch(b, idx) /\ Tags(NamesOf(b), cf, k) /\ Keeps(NamesOf(b), cf)
        /\ push' = [pc |-> "sent", base |-> b.before, todo |-> Rows(b.recs, cf.counters),
                    single |-> (Len(b.recs) = 1), cursor |-> c, attempt |-> attempt, answer |-> "none"]
        /\ counter' = cf.counter /\ claim' = cf.claim /\ cursor' = cursor
  BY DEF Sends
<1>. DEFINE rows == Rows(b.recs, cf.counters)
            n == Len(b.recs)
<1>2. /\ b.before \in Nat /\ n \in Nat \ {0} /\ NamesOf(b) \in Seq(Nat) /\ Len(NamesOf(b)) = n
  BY <1>1, BatchIs
<1>3. cf.counters \in Seq(Nat) /\ Len(cf.counters) = n
  BY <1>1, <1>2 DEF Tags
<1>4. /\ rows \in Seq(OfferType) /\ rows # <<>> /\ Len(rows) = n /\ DOMAIN rows = 1..n
      /\ \A i \in 1..n : rows[i].rec = records[b.before + i] /\ rows[i].counter = cf.counters[i]
  BY <1>1, <1>3, RowsAre
<1>. HIDE DEF rows, n
<1>5. push' \in PushType /\ push'.pc = "sent" /\ push'.todo = rows /\ push'.base = b.before
      /\ push'.cursor = c
  BY <1>1, <1>2, <1>4 DEF PushType, Answers, rows, n
<1>6. \A x \in Offered' : \/ x \in Offered
                          \/ \E j \in 1..n : x.counter = cf.counters[j] /\ x.rec = records[b.before + j]
  <2>. DEFINE was == log \cup UNION {Range(r) : r \in wire}
              new == Range(rows)
  <2>1. Offered' = was \cup new
    <3>1. Active'
      BY <1>5 DEF Active
    <3>2. Offered' = log \cup (UNION {Range(r) : r \in wire}) \cup Range(rows)
      BY <1>5, <3>1 DEF Offered
    <3>. QED
      BY <3>2
  <2>2. was \subseteq Offered
    BY DEF Offered
  <2>3. ASSUME NEW x \in new
        PROVE  \E j \in 1..n : x.counter = cf.counters[j] /\ x.rec = records[b.before + j]
    <3>1. PICK j \in 1..n : x = rows[j]
      BY <1>4 DEF Range
    <3>. QED
      BY <1>4, <3>1
  <2>. HIDE DEF was, new
  <2>4. \A x \in Offered' : x \in Offered \/ x \in new
    BY <2>1, <2>2
  <2>. QED
    BY <2>3, <2>4
<1>. QED
  BY <1>1, <1>4, <1>5, <1>6 DEF SendsBatch, n

\* A push that goes on keeps the invariant.
LEMMA GoOnKeeps ==
  ASSUME RailInv, NEW idx \in Nat, Taken(idx), NEW c \in CursorType, Covers(c), NEW attempt \in Nat,
         GoOn(idx, c, attempt),
         UNCHANGED <<records, kind, log, wire, ever, up>>,
         \E d \in CursorType : Covers(d) /\ anchor' = d.anchor
  PROVE  RailInv'
<1>1. CASE push' = Idle /\ cursor' = c /\ UNCHANGED <<counter, claim>>
  <2>1. push'.pc = "idle"
    BY <1>1 DEF Idle
  <2>2. Offered' \subseteq Offered
    BY <2>1 DEF Offered, Active
  <2>3. PushIsPiece'
    BY <2>1 DEF PushIsPiece, Active
  <2>4. counter \in Nat /\ log \subseteq OfferType /\ wire \subseteq Seq(OfferType) /\ up \in BOOLEAN
    BY DEF RailInv, Typed
  <2>5. \A x \in log : x.rec \in ever
    BY DEF RailInv, CursorsCover
  <2>. QED
    BY <1>1, <2>2, <2>3, <2>4, <2>5, StepKeeps
<1>2. CASE Sends(idx, c, attempt)
  <2>0. Typed
    BY DEF RailInv
  <2>1. PICK b, cf, k : SendsBatch(b, cf, k, idx, c)
    BY <1>2, <2>0, SendsIs
  <2>. DEFINE n == Len(b.recs)
  <2>2. /\ Batch(b, idx) /\ Tags(NamesOf(b), cf, k)
        /\ counter' = cf.counter /\ claim' = cf.claim /\ cursor' = cursor
        /\ push' \in PushType /\ push'.pc = "sent" /\ push'.base = b.before /\ push'.cursor = c
        /\ push'.todo # <<>> /\ Len(push'.todo) = n /\ DOMAIN push'.todo = 1..n
        /\ \A i \in 1..n : push'.todo[i].rec = records[b.before + i]
    BY <2>1 DEF SendsBatch
  <2>3. /\ b.before \in Nat /\ NamesOf(b) \in Seq(Nat) /\ b.before + n <= Len(records)
        /\ cf.counter \in Nat
    BY <2>0, <2>2, BatchIs DEF Batch, Tags
  <2>4. Claims'
    BY <2>0, <2>1, OffersKeepClaims DEF RailInv, SendsBatch
  <2>. HIDE DEF n
  <2>5. Taken(b.before)
    <3>1. \A m \in (idx + 1)..b.before : ~Syncable(records[m])
      BY <2>2 DEF Batch
    <3>. SUFFICES ASSUME NEW m \in 1..b.before, kind[records[m]] = "named" PROVE records[m] \in ever
      BY DEF Taken
    <3>2. m \in (idx + 1)..b.before => ~Syncable(records[m])
      BY <3>1
    <3>3. Syncable(records[m])
      BY DEF Syncable
    <3>4. m \in 1..idx
      BY <2>3, <3>2, <3>3
    <3>. QED
      BY <3>4 DEF Taken
  <2>6. PushIsPiece'
    <3>1. Taken(b.before)' /\ Covers(c)'
      BY <2>5, CoversStay
    <3>2. Taken(push.base)' /\ Covers(push.cursor)'
      BY <2>2, <3>1 DEF Taken, Covers, ResumeIndex
    <3>. QED
      BY <2>2, <2>3, <3>2 DEF PushIsPiece
  <2>7. Typed'
    <3>1. claim' \in ClaimType /\ Len(claim'.names) = Len(claim'.counters)
      BY <2>0, <2>2, <2>3, TagsTyped
    <3>2. anchor' \in Nat
      BY DEF CursorType
    <3>. QED
      BY <2>0, <2>2, <2>3, <3>1, <3>2 DEF Typed
  <2>8. CursorsCover'
    <3>1. Covers(cursor)'
      <4>1. Covers(cursor)
        BY DEF RailInv, CursorsCover
      <4>. QED
        BY <2>2, <4>1 DEF Covers, ResumeIndex, Taken
    <3>2. Covers(Kept)'
      <4>1. PICK d \in CursorType : Covers(d) /\ anchor' = d.anchor
        OBVIOUS
      <4>2. Covers([anchor |-> d.anchor, skip |-> 0])'
        BY <2>0, <4>1, AnchorCovers, CoversStay
      <4>. QED
        BY <4>1, <4>2 DEF Covers, ResumeIndex, Taken, Kept
    <3>. QED
      BY <3>1, <3>2 DEF CursorsCover, RailInv
  <2>. QED
    BY <2>4, <2>6, <2>7, <2>8 DEF RailInv
<1>. QED
  BY <1>1, <1>2, GoOnIs DEF RailInv

LEMMA CursorsOk ==
  ASSUME RailInv
  PROVE  /\ cursor \in CursorType /\ Covers(cursor)
         /\ \E c \in CursorType : Covers(c) /\ cursor = c
         /\ \E c \in CursorType : Covers(c) /\ anchor = c.anchor
         /\ \E c \in CursorType : Covers(c) /\ c.anchor = None
         /\ \E c \in CursorType : Covers(c) /\ c = NoCursor
         /\ \E c \in CursorType : Covers(c) /\ c = [anchor |-> anchor, skip |-> 0]
         /\ ResumeIndex(cursor) \in Nat /\ Taken(ResumeIndex(cursor))
         /\ log \subseteq OfferType /\ wire \subseteq Seq(OfferType) /\ up \in BOOLEAN
         /\ counter \in Nat /\ push \in {Idle} \cup PushType
         /\ \A x \in log : x.rec \in ever
<1>1. Typed /\ CursorsCover
  BY DEF RailInv
<1>2. /\ cursor \in CursorType /\ Covers(cursor) /\ Kept \in CursorType /\ Covers(Kept) /\ Kept.anchor = anchor
      /\ Kept = [anchor |-> anchor, skip |-> 0]
  BY <1>1 DEF Typed, CursorsCover, Kept, CursorType
<1>3. NoCursor \in CursorType /\ Covers(NoCursor) /\ NoCursor.anchor = None
  BY <1>1, NoCursorCovers DEF NoCursor
<1>4. ResumeIndex(cursor) \in Nat /\ Taken(ResumeIndex(cursor))
  <2>1. ResumeIndex(cursor) \in 0..Len(records) /\ Len(records) \in Nat
    BY <1>1, <1>2, ResumeIndexIs, RecordsAre
  <2>. QED
    BY <1>2, <2>1 DEF Covers
<1>5. /\ log \subseteq OfferType /\ wire \subseteq Seq(OfferType) /\ up \in BOOLEAN
      /\ counter \in Nat /\ push \in {Idle} \cup PushType
      /\ \A x \in log : x.rec \in ever
  BY <1>1 DEF Typed, CursorsCover
<1>. QED
  BY <1>2, <1>3, <1>4, <1>5

\* A push that stays as it is, or changes its state alone, stays a piece of the records.
LEMMA PieceStays ==
  ASSUME RailInv, UNCHANGED <<records, kind>>, ever \subseteq ever', push \in PushType, push' \in PushType,
         push'.base = push.base, push'.todo = push.todo, push'.cursor = push.cursor,
         push'.pc = "answered" /\ push'.answer = "ok" => \A i \in DOMAIN Request' : Request'[i].rec \in ever',
         push'.pc = "answered" /\ push'.answer = "duplicate" /\ push'.single => push'.todo[1].rec \in ever'
  PROVE  PushIsPiece'
<1>1. Active
  BY ActiveIs
<1>2. /\ push.todo # <<>> /\ push.base + Len(push.todo) <= Len(records)
      /\ \A i \in DOMAIN push.todo : push.todo[i].rec = records[push.base + i]
      /\ Taken(push.base) /\ Covers(push.cursor)
  BY <1>1 DEF RailInv, PushIsPiece
<1>3. Taken(push.base)' /\ Covers(push.cursor)'
  <2>1. \A n : Taken(n) => Taken(n)'
    BY CoversStay
  <2>2. \A c : Covers(c) => Covers(c)'
    BY CoversStay
  <2>3. \A n : n = push.base => Taken(n)'
    BY <1>2, <2>1
  <2>4. \A c : c = push.cursor => Covers(c)'
    BY <1>2, <2>2
  <2>. QED
    BY <2>3, <2>4 DEF Taken, Covers, ResumeIndex
<1>. QED
  BY <1>2, <1>3 DEF PushIsPiece

\* Steps the rail's data does not notice.
LEMMA QuietKeeps ==
  ASSUME RailInv, UNCHANGED <<records, kind, claim, push, log, wire, ever>>,
         counter' \in Nat, counter <= counter', up' \in BOOLEAN,
         \E c \in CursorType : Covers(c) /\ anchor' = c.anchor,
         \E c \in CursorType : Covers(c) /\ cursor' = c
  PROVE  RailInv'
<1>1. PushIsPiece'
  BY DEF RailInv, PushIsPiece, Active, Request, Taken, Covers, ResumeIndex
<1>2. Offered' = Offered
  BY DEF Offered, Active
<1>. QED
  BY <1>1, <1>2, StepKeeps, CursorsOk

LEMMA BootsQuiet ==
  ASSUME RailInv, NEW b \in Bootstrap,
         \/ BootStart(b) \/ BootProbe(b) \/ BootRegister(b) \/ BootRegistered(b) \/ BootShares(b)
         \/ BootFails(b) \/ BootRefused(b)
  PROVE  RailInv'
<1>1. /\ UNCHANGED <<records, kind, claim, push, log, wire, ever, up>>
      /\ counter' = counter \/ counter' = counter + 1
      /\ anchor' = anchor \/ anchor' = None
      /\ cursor' = cursor \/ cursor' = NoCursor
  BY DEF BootStart, TryBootstrap, BootProbe, BootRegister, BootRegistered, BootShares, BootFails, BootRefused,
         StopDeleted, SetBoot, file, memory, broker
<1>. QED
  BY <1>1, QuietKeeps, CursorsOk

LEMMA OthersQuiet ==
  ASSUME RailInv, TickPolls \/ Restart \/ StartFails \/ SignOut \/ SignIn \/ UNCHANGED vars
  PROVE  RailInv'
<1>1. /\ UNCHANGED <<records, kind, claim, push, log, wire, ever, counter, anchor>>
      /\ up' = up \/ up' = TRUE
      /\ cursor' = cursor \/ cursor' = [anchor |-> anchor, skip |-> 0]
  BY DEF TickPolls, Restart, StartFails, SignOut, SignIn, vars, file, memory, broker, tasks
<1>2. up' \in BOOLEAN /\ counter' \in Nat /\ counter <= counter'
  <2>1. up \in BOOLEAN /\ counter \in Nat
    BY CursorsOk
  <2>2. up' \in BOOLEAN
    BY <1>1, <2>1, Zenon
  <2>. QED
    BY <1>1, <2>1, <2>2
<1>3. /\ \E c \in CursorType : Covers(c) /\ anchor' = c.anchor
      /\ \E c \in CursorType : Covers(c) /\ cursor' = c
  BY <1>1, CursorsOk
<1>. QED
  BY <1>1, <1>2, <1>3, QuietKeeps

\* The push that bootstraps and ticks start.
LEMMA PushOutgoingKeeps ==
  ASSUME RailInv, PushOutgoing, UNCHANGED <<records, kind, anchor, up, log, wire, ever>>
  PROVE  RailInv'
<1>1. CASE push # Idle \/ "deleted" \in stopped
  <2>1. UNCHANGED <<push, cursor, counter, claim>>
    BY <1>1 DEF PushOutgoing
  <2>. QED
    BY <2>1, QuietKeeps, CursorsOk
<1>2. CASE ~(push # Idle \/ "deleted" \in stopped)
  <2>1. GoOn(ResumeIndex(cursor), cursor, 0)
    BY <1>2 DEF PushOutgoing
  <2>2. 0 \in Nat
    OBVIOUS
  <2>. QED
    BY <2>1, <2>2, CursorsOk, GoOnKeeps
<1>. QED
  BY <1>1, <1>2

LEMMA BootDoneKeeps ==
  ASSUME RailInv, NEW b \in Bootstrap, BootDone(b)
  PROVE  RailInv'
BY PushOutgoingKeeps DEF BootDone, broker

LEMMA PollAnsweredKeeps ==
  ASSUME RailInv, PollAnswered
  PROVE  RailInv'
<1>1. UNCHANGED <<records, kind, up, log, wire, ever>>
  BY DEF PollAnswered, broker
<1>2. CASE poll \in {"absent", "deleted", "auth"}
  <2>1. /\ UNCHANGED <<push, counter, claim>>
        /\ anchor' = anchor \/ anchor' = None
        /\ cursor' = cursor \/ cursor' = NoCursor
    BY <1>2 DEF PollAnswered, Reseed, StopDeleted
  <2>. QED
    BY <1>1, <2>1, QuietKeeps, CursorsOk
<1>3. CASE poll \notin {"absent", "deleted", "auth"}
  <2>1. PushOutgoing /\ anchor' = anchor
    BY <1>3 DEF PollAnswered
  <2>. QED
    BY <1>1, <2>1, PushOutgoingKeeps
<1>. QED
  BY <1>2, <1>3

LEMMA PushFacts ==
  ASSUME RailInv, push.pc \in {"sent", "answered", "sleeping"}
  PROVE  /\ push \in PushType /\ Active /\ push.todo # <<>>
         /\ push.base \in Nat /\ push.todo \in Seq(OfferType) /\ push.cursor \in CursorType /\ push.attempt \in Nat
         /\ push.single \in BOOLEAN /\ push.answer \in Answers
         /\ Covers(push.cursor) /\ Taken(push.base) /\ push.base + Len(push.todo) <= Len(records)
         /\ \A i \in DOMAIN push.todo : push.todo[i].rec = records[push.base + i]
         /\ Range(push.todo) \subseteq Offered /\ Range(Request) \subseteq Offered
         /\ Range(Request) \subseteq OfferType
         /\ Offered = log \cup (UNION {Range(rows) : rows \in wire}) \cup Range(push.todo)
<1>1. push \in {Idle} \cup PushType
  BY CursorsOk
<1>2. push \in PushType /\ Active
  BY <1>1, ActiveIs
<1>3. /\ push.todo # <<>> /\ Covers(push.cursor) /\ Taken(push.base)
      /\ push.base + Len(push.todo) <= Len(records)
      /\ \A i \in DOMAIN push.todo : push.todo[i].rec = records[push.base + i]
  BY <1>2 DEF RailInv, PushIsPiece
<1>4. Range(push.todo) \subseteq Offered
  BY <1>2 DEF Offered
<1>5. \A x \in Range(Request) : x \in Range(push.todo)
  BY <1>2, <1>3, RequestIs
<1>6. \A x \in Range(push.todo) : x \in OfferType
  <2>1. push.todo \in Seq(OfferType)
    BY <1>2 DEF PushType
  <2>. QED
    BY <2>1 DEF Range
<1>7. Offered = log \cup (UNION {Range(rows) : rows \in wire}) \cup Range(push.todo)
  BY <1>2 DEF Offered
<1>. QED
  BY <1>2, <1>3, <1>4, <1>5, <1>6, <1>7 DEF PushType

\* A push that ends.
LEMMA EndedPushKeeps ==
  ASSUME RailInv, UNCHANGED <<records, kind, claim, log, wire, ever, up, counter>>, push' = Idle,
         \E c \in CursorType : Covers(c) /\ anchor' = c.anchor,
         \E c \in CursorType : Covers(c) /\ cursor' = c
  PROVE  RailInv'
<1>1. push'.pc = "idle"
  BY DEF Idle
<1>2. PushIsPiece' /\ Offered' \subseteq Offered
  BY <1>1 DEF PushIsPiece, Active, Offered
<1>. QED
  BY <1>2, StepKeeps, CursorsOk

LEMMA PushEnds ==
  ASSUME RailInv,
         PushGivesUp \/ PushRejected \/ (PushUnauthorized /\ push.attempt >= MaxRetries)
  PROVE  RailInv'
<1>1. push.pc = "answered"
  BY DEF PushGivesUp, PushRejected, PushUnauthorized
<1>2. push.cursor \in CursorType /\ Covers(push.cursor)
  BY <1>1, PushFacts
<1>3. /\ UNCHANGED <<records, kind, claim, log, wire, ever, up, counter>> /\ push' = Idle
      /\ cursor' = push.cursor \/ cursor' = NoCursor
      /\ anchor' = anchor \/ anchor' = None
  BY DEF PushGivesUp, PushRejected, PushUnauthorized, broker, file, Reseed, StopDeleted
<1>. QED
  BY <1>2, <1>3, CursorsOk, EndedPushKeeps

\* A push whose state alone changes.
LEMMA SamePushKeeps ==
  ASSUME RailInv, push.pc \in {"sent", "answered", "sleeping"},
         UNCHANGED <<records, kind, claim, counter, anchor, up>>,
         cursor' = cursor \/ cursor' = push.cursor,
         push' \in PushType, push'.base = push.base, push'.todo = push.todo, push'.cursor = push.cursor,
         push'.pc = "answered" /\ push'.answer = "ok" => \A i \in DOMAIN Request' : Request'[i].rec \in ever',
         push'.pc = "answered" /\ push'.answer = "duplicate" /\ push'.single => push'.todo[1].rec \in ever',
         ever \subseteq ever', log' \subseteq OfferType, wire' \subseteq Seq(OfferType),
         \A x \in log' : x.rec \in ever' /\ x \in Offered,
         \A rows \in wire' : Range(rows) \subseteq Offered
  PROVE  RailInv'
<1>1. /\ push \in PushType /\ push.cursor \in CursorType /\ Covers(push.cursor)
      /\ Range(push.todo) \subseteq Offered
  BY PushFacts
<1>2. PushIsPiece'
  BY <1>1, PieceStays
<1>3. Active'
  BY DEF Active, PushType
<1>4. Offered' \subseteq Offered
  <2>. DEFINE W == UNION {Range(rows) : rows \in wire'}
  <2>1. Offered' = log' \cup W \cup Range(push.todo)
    BY <1>3 DEF Offered
  <2>2. W \subseteq Offered
    OBVIOUS
  <2>. HIDE DEF W
  <2>. QED
    BY <1>1, <2>1, <2>2
<1>5. /\ \E c \in CursorType : Covers(c) /\ anchor' = c.anchor
      /\ \E c \in CursorType : Covers(c) /\ cursor' = c
  BY <1>1, CursorsOk
<1>6. counter' \in Nat /\ counter <= counter' /\ up' \in BOOLEAN
  <2>1. counter \in Nat /\ up \in BOOLEAN
    BY CursorsOk
  <2>. QED
    BY <2>1
<1>. QED
  BY <1>2, <1>4, <1>5, <1>6, StepKeeps

\* What the broker has or may get is offered.
LEMMA OffersAre ==
  ASSUME RailInv
  PROVE  /\ \A x \in log : x \in Offered /\ x \in OfferType /\ x.rec \in ever
         /\ \A rows \in wire : Range(rows) \subseteq Offered /\ Range(rows) \subseteq OfferType
<1>1. log \subseteq OfferType /\ wire \subseteq Seq(OfferType) /\ \A x \in log : x.rec \in ever
  BY CursorsOk
<1>2. log \subseteq Offered /\ \A rows \in wire : Range(rows) \subseteq Offered
  BY DEF Offered
<1>3. \A rows \in wire : Range(rows) \subseteq OfferType
  BY <1>1 DEF Range
<1>. QED
  BY <1>1, <1>2, <1>3

LEMMA TakeIs ==
  ASSUME RailInv, NEW rows, Range(rows) \subseteq Offered, Range(rows) \subseteq OfferType, Take(rows)
  PROVE  /\ ever \subseteq ever' /\ log' \subseteq OfferType
         /\ \A x \in log' : x.rec \in ever' /\ x \in Offered
         /\ Verdict(rows) = "ok" => \A x \in Range(rows) : x.rec \in ever'
<1>1. CASE Verdict(rows) # "ok"
  BY <1>1, OffersAre DEF Take
<1>2. CASE Verdict(rows) = "ok"
  <2>1. log' = log \cup Range(rows) /\ ever' = ever \cup {e.rec : e \in Range(rows)}
    BY <1>2 DEF Take
  <2>. DEFINE R == Range(rows)
  <2>. HIDE DEF R
  <2>2. log' = log \cup R /\ ever' = ever \cup {e.rec : e \in R} /\ R \subseteq Offered /\ R \subseteq OfferType
    BY <2>1 DEF R
  <2>3. \A x \in R : x.rec \in ever'
    BY <2>2
  <2>4. ever \subseteq ever'
    BY <2>2
  <2>. QED
    BY <2>2, <2>3, <2>4, OffersAre DEF R
<1>. QED
  BY <1>1, <1>2

LEMMA PushHandledKeeps ==
  ASSUME RailInv, PushHandled
  PROVE  RailInv'
<1>1. /\ push.pc = "sent" /\ push' = [push EXCEPT !.pc = "answered", !.answer = Verdict(Request)]
      /\ Take(Request) /\ UNCHANGED <<records, kind, claim, counter, anchor, up, cursor, wire>>
  BY DEF PushHandled, file, memory
<1>2. /\ push \in PushType /\ push.todo # <<>> /\ push.single \in BOOLEAN
      /\ Range(Request) \subseteq Offered /\ Range(Request) \subseteq OfferType
      /\ Range(push.todo) \subseteq Offered
  BY <1>1, PushFacts
<1>3. Verdict(Request) \in Answers
  BY DEF Verdict, Answers
<1>4. /\ push' \in PushType /\ push'.base = push.base /\ push'.todo = push.todo /\ push'.cursor = push.cursor
      /\ push'.single = push.single /\ push'.answer = Verdict(Request)
  BY <1>1, <1>2, <1>3 DEF PushType
<1>5. /\ ever \subseteq ever' /\ log' \subseteq OfferType
      /\ \A x \in log' : x.rec \in ever' /\ x \in Offered
      /\ Verdict(Request) = "ok" => \A x \in Range(Request) : x.rec \in ever'
  BY <1>1, <1>2, TakeIs
<1>6. Request' = Request
  BY <1>4 DEF Request
<1>7. push'.answer = "ok" => \A i \in DOMAIN Request' : Request'[i].rec \in ever'
  <2>1. \A i \in DOMAIN Request : Request[i] \in Range(Request)
    BY DEF Range
  <2>. QED
    BY <1>4, <1>5, <1>6, <2>1
<1>8. push'.answer = "duplicate" /\ push'.single => push'.todo[1].rec \in ever'
  <2>. SUFFICES ASSUME Verdict(Request) = "duplicate", push.single PROVE push.todo[1].rec \in ever
    BY <1>4, <1>5
  <2>1. PICK e \in log, i \in DOMAIN Request : e.counter = Request[i].counter
    BY DEF Verdict
  <2>2. i = 1 /\ Request[1] = push.todo[1] /\ 1 \in DOMAIN push.todo
    <3>1. DOMAIN Request = 1..Len(Request) /\ Len(Request) = 1
      BY <1>2, RequestIs
    <3>2. \A j \in 1..Len(Request) : j \in DOMAIN push.todo /\ Request[j] = push.todo[j]
      BY <1>2, RequestIs
    <3>. QED
      BY <2>1, <3>1, <3>2
  <2>3. push.todo[1] \in Offered
    BY <1>2, <2>2 DEF Range
  <2>4. e \in Offered /\ e.rec \in ever
    BY OffersAre
  <2>. QED
    BY <2>1, <2>2, <2>3, <2>4 DEF RailInv, Claims, OneRecord
<1>9. wire' \subseteq Seq(OfferType) /\ \A rows \in wire' : Range(rows) \subseteq Offered
  BY <1>1, OffersAre, CursorsOk
<1>. QED
  BY <1>1, <1>4, <1>5, <1>7, <1>8, <1>9, SamePushKeeps

LEMMA PushFailsKeeps ==
  ASSUME RailInv, PushFails
  PROVE  RailInv'
<1>1. PICK answer \in {"error", "auth", "refused"} :
        /\ push.pc = "sent" /\ push' = [push EXCEPT !.pc = "answered", !.answer = answer]
        /\ wire' \in IF answer = "error" THEN {wire, wire \union {Request}} ELSE {wire}
        /\ UNCHANGED <<records, kind, claim, counter, anchor, up, cursor, log, ever>>
  BY DEF PushFails, file, memory
<1>2. /\ push \in PushType /\ push.todo # <<>>
      /\ Range(Request) \subseteq Offered /\ Range(Request) \subseteq OfferType
  BY <1>1, PushFacts
<1>3. /\ push' \in PushType /\ push'.base = push.base /\ push'.todo = push.todo /\ push'.cursor = push.cursor
      /\ push'.answer \notin {"ok", "duplicate"}
  BY <1>1, <1>2 DEF PushType, Answers
<1>4. wire' \subseteq wire \cup {Request}
  BY <1>1
<1>5. Request \in Seq(OfferType)
  BY <1>2, RequestIs
<1>6. wire' \subseteq Seq(OfferType) /\ \A rows \in wire' : Range(rows) \subseteq Offered
  BY <1>2, <1>4, <1>5, OffersAre, CursorsOk
<1>7. log' \subseteq OfferType /\ \A x \in log' : x.rec \in ever' /\ x \in Offered
  BY <1>1, OffersAre
<1>. QED
  BY <1>1, <1>3, <1>6, <1>7, SamePushKeeps

LEMMA PushWaits ==
  ASSUME RailInv, PushAnswerLost \/ PushConflict \/ (PushUnauthorized /\ push.attempt < MaxRetries)
  PROVE  RailInv'
<1>0. push.pc = "answered"
  BY DEF PushAnswerLost, PushConflict, PushUnauthorized
<1>1. /\ push \in PushType /\ push.todo # <<>> /\ push.attempt \in Nat /\ push.todo \in Seq(OfferType)
      /\ push.base \in Nat /\ push.cursor \in CursorType
  BY <1>0, PushFacts
<1>2. /\ UNCHANGED <<records, kind, claim, counter, anchor, up, wire, log, ever>>
      /\ cursor' = cursor \/ cursor' = push.cursor
  BY DEF PushAnswerLost, PushConflict, PushUnauthorized, file, memory, broker
<1>3. \/ push' = [push EXCEPT !.answer = "error"]
      \/ push' = [push EXCEPT !.pc = "sleeping"]
      \/ push' = [pc |-> "sent", base |-> push.base, todo |-> push.todo, single |-> TRUE,
                  cursor |-> push.cursor, attempt |-> push.attempt, answer |-> "none"]
  BY <1>1, SyncAssumption DEF PushAnswerLost, PushConflict, PushUnauthorized, Send
<1>4. /\ push' \in PushType /\ push'.base = push.base /\ push'.todo = push.todo /\ push'.cursor = push.cursor
      /\ push'.pc # "answered" \/ push'.answer = "error"
  <2>1. CASE push' = [push EXCEPT !.answer = "error"]
    BY <1>1, <2>1 DEF PushType, Answers
  <2>2. CASE push' = [push EXCEPT !.pc = "sleeping"]
    BY <1>1, <2>2 DEF PushType
  <2>3. CASE push' = [pc |-> "sent", base |-> push.base, todo |-> push.todo, single |-> TRUE,
                      cursor |-> push.cursor, attempt |-> push.attempt, answer |-> "none"]
    BY <1>1, <2>3 DEF PushType, Answers
  <2>. QED
    BY <1>3, <2>1, <2>2, <2>3
<1>5. wire' \subseteq Seq(OfferType) /\ \A rows \in wire' : Range(rows) \subseteq Offered
  BY <1>2, OffersAre, CursorsOk
<1>6. log' \subseteq OfferType /\ \A x \in log' : x.rec \in ever' /\ x \in Offered
  BY <1>2, OffersAre
<1>. QED
  BY <1>0, <1>2, <1>4, <1>5, <1>6, SamePushKeeps

LEMMA PushRetriesKeeps ==
  ASSUME RailInv, PushRetries
  PROVE  RailInv'
<1>1. /\ push.pc = "sleeping" /\ UNCHANGED <<records, kind, anchor, up, log, wire, ever>>
      /\ \/ GoOn(ResumeIndex(cursor), cursor, push.attempt + 1)
         \/ push' = Idle /\ UNCHANGED <<cursor, counter, claim>>
  BY DEF PushRetries, broker
<1>2. push.attempt + 1 \in Nat
  <2>1. push.attempt \in Nat
    BY <1>1, PushFacts
  <2>. QED
    BY <2>1
<1>3. CASE GoOn(ResumeIndex(cursor), cursor, push.attempt + 1)
  BY <1>1, <1>2, <1>3, CursorsOk, GoOnKeeps
<1>4. CASE push' = Idle /\ UNCHANGED <<cursor, counter, claim>>
  BY <1>1, <1>4, CursorsOk, EndedPushKeeps
<1>. QED
  BY <1>1, <1>3, <1>4

\* What was sent is delivered: what comes after it, and the cursor that leads there.
Delivered(sent, c) ==
  /\ sent \in Nat /\ push.base < sent /\ sent <= Len(records) /\ Taken(sent)
  /\ c = CursorThrough(sent, push.cursor) /\ c \in CursorType /\ Covers(c)
  /\ anchor' = IF c.anchor = push.cursor.anchor THEN anchor ELSE c.anchor
  /\ \/ GoOn(sent, c, push.attempt)
     \/ /\ UNCHANGED <<counter, claim, cursor>> /\ Offered' \subseteq Offered
        /\ push' \in PushType /\ push'.pc = "sent" /\ push'.base = sent /\ push'.cursor = c
        /\ push'.todo # <<>> /\ sent + Len(push'.todo) <= Len(records)
        /\ \A i \in DOMAIN push'.todo : push'.todo[i].rec = records[sent + i]

LEMMA DeliveredIs ==
  ASSUME RailInv, PushDelivered
  PROVE  \E at, d : Delivered(at, d)
<1>. DEFINE req == Request
            m == Len(req)
            sent == push.base + m
            c == CursorThrough(sent, push.cursor)
            n == Len(push.todo)
            rest == SubSeq(push.todo, m + 1, n)
<1>1. /\ push.pc = "answered"
      /\ push.answer = "ok" \/ (push.answer = "duplicate" /\ push.single)
      /\ anchor' = IF c.anchor = push.cursor.anchor THEN anchor ELSE c.anchor
      /\ IF rest = <<>> THEN GoOn(sent, c, push.attempt)
         ELSE Send(sent, rest, TRUE, c, push.attempt) /\ UNCHANGED <<counter, claim, cursor>>
      /\ UNCHANGED <<records, kind, up, log, wire, ever>>
  BY DEF PushDelivered, broker
<1>2. /\ push \in PushType /\ Active /\ push.todo # <<>>
      /\ push.base \in Nat /\ push.todo \in Seq(OfferType) /\ push.cursor \in CursorType /\ push.attempt \in Nat
      /\ push.single \in BOOLEAN
      /\ Covers(push.cursor) /\ Taken(push.base) /\ push.base + n <= Len(records)
      /\ \A i \in DOMAIN push.todo : push.todo[i].rec = records[push.base + i]
      /\ Range(push.todo) \subseteq Offered
      /\ Offered = log \cup (UNION {Range(rows) : rows \in wire}) \cup Range(push.todo)
  BY <1>1, PushFacts
<1>3. /\ n \in Nat \ {0} /\ DOMAIN push.todo = 1..n /\ m = (IF push.single THEN 1 ELSE n)
      /\ DOMAIN req = 1..m
      /\ \A i \in 1..m : i \in DOMAIN push.todo /\ req[i] = push.todo[i]
  BY <1>2, RequestIs
<1>4. Typed
  BY DEF RailInv
<1>5. Len(records) \in Nat
  BY <1>4, RecordsAre
<1>. HIDE DEF n, m
<1>6. m \in Nat \ {0} /\ m <= n /\ sent \in Nat /\ sent <= Len(records)
  BY <1>2, <1>3, <1>5
<1>7. \A i \in 1..m : req[i].rec \in ever
  <2>1. CASE push.answer = "ok"
    BY <1>1, <1>2, <1>3, <2>1 DEF RailInv, PushIsPiece
  <2>2. CASE push.answer = "duplicate" /\ push.single
    <3>1. push.todo[1].rec \in ever
      BY <1>1, <1>2, <2>2 DEF RailInv, PushIsPiece
    <3>. QED
      BY <1>3, <2>2, <3>1
  <2>. QED
    BY <1>1, <2>1, <2>2
<1>. HIDE DEF req
<1>8. Taken(sent)
  <2>. SUFFICES ASSUME NEW i \in 1..sent, kind[records[i]] = "named" PROVE records[i] \in ever
    BY DEF Taken
  <2>1. CASE i <= push.base
    <3>1. i \in 1..push.base
      BY <1>2, <1>6, <2>1
    <3>. QED
      BY <1>2, <3>1 DEF Taken
  <2>2. CASE i > push.base
    <3>1. i - push.base \in 1..m /\ push.base + (i - push.base) = i
      BY <1>2, <1>6, <2>2
    <3>. QED
      BY <1>2, <1>3, <1>7, <3>1
  <2>. QED
    BY <1>2, <1>6, <2>1, <2>2
<1>. HIDE DEF sent
<1>9. c \in CursorType /\ Covers(c)
  BY <1>2, <1>4, <1>6, <1>8, CursorThroughIs
<1>. HIDE DEF c
<1>10. CASE rest = <<>>
  <2>1. GoOn(sent, c, push.attempt)
    BY <1>1, <1>10
  <2>2. push.base < sent
    BY <1>2, <1>6 DEF sent
  <2>3. c = CursorThrough(sent, push.cursor)
    BY DEF c
  <2>. QED
    BY <1>1, <1>6, <1>8, <1>9, <2>1, <2>2, <2>3 DEF Delivered
<1>11. CASE rest # <<>>
  <2>1. /\ push' = [pc |-> "sent", base |-> sent, todo |-> rest, single |-> TRUE,
                    cursor |-> c, attempt |-> push.attempt, answer |-> "none"]
        /\ UNCHANGED <<counter, claim, cursor>>
    BY <1>1, <1>11 DEF Send
  <2>2. /\ rest \in Seq(OfferType)
        /\ Len(rest) = IF m + 1 <= n THEN n - (m + 1) + 1 ELSE 0
        /\ \A i \in 1..(n - (m + 1) + 1) : rest[i] = push.todo[m + 1 + i - 1]
    <3>1. m + 1 \in Int /\ n \in Int /\ \A i \in (m + 1)..n : push.todo[i] \in OfferType
      BY <1>2, <1>3, <1>6
    <3>. QED
      BY <3>1, SubSeqProperties
  <2>. HIDE DEF rest
  <2>3. n - (m + 1) + 1 = n - m /\ \A i \in 1..(n - m) : m + 1 + i - 1 = m + i /\ m + i \in 1..n
    BY <1>3, <1>6
  <2>4. /\ Len(rest) = n - m /\ n - m \in Nat /\ DOMAIN rest = 1..(n - m)
        /\ \A i \in 1..(n - m) : rest[i] = push.todo[m + i]
    <3>1. Len(rest) \in Nat
      BY <2>2
    <3>2. Len(rest) = n - m /\ n - m \in Nat
      BY <1>3, <1>6, <2>2
    <3>. QED
      BY <2>2, <2>3, <3>2
  <2>5. /\ push' \in PushType /\ push'.pc = "sent" /\ push'.base = sent /\ push'.todo = rest /\ push'.cursor = c
    BY <1>2, <1>6, <1>9, <2>1, <2>2 DEF PushType, Answers
  <2>6. Range(rest) \subseteq Range(push.todo)
    <3>1. \A i \in 1..(n - m) : rest[i] \in Range(push.todo)
      BY <1>3, <2>3, <2>4 DEF Range
    <3>. QED
      BY <2>4, <3>1 DEF Range
  <2>7. Active'
    BY <2>5 DEF Active
  <2>8. Offered' \subseteq Offered
    <3>1. Offered' = log \cup (UNION {Range(rows) : rows \in wire}) \cup Range(rest)
      BY <1>1, <2>5, <2>7 DEF Offered
    <3>. QED
      BY <1>2, <2>6, <3>1
  <2>9. push'.todo # <<>> /\ sent + Len(push'.todo) <= Len(records)
    BY <1>2, <1>3, <1>5, <1>6, <1>11, <2>4, <2>5 DEF sent
  <2>10. \A i \in 1..(n - m) : rest[i].rec = records[sent + i]
    <3>. SUFFICES ASSUME NEW i \in 1..(n - m) PROVE rest[i].rec = records[sent + i]
      OBVIOUS
    <3>1. sent + i = push.base + (m + i)
      BY <1>2, <1>6 DEF sent
    <3>. QED
      BY <1>2, <1>3, <2>3, <2>4, <3>1, SMTT(30)
  <2>11. push.base < sent
    BY <1>2, <1>6 DEF sent
  <2>12. c = CursorThrough(sent, push.cursor)
    BY DEF c
  <2>. QED
    BY <1>1, <1>6, <1>8, <1>9, <2>1, <2>4, <2>5, <2>8, <2>9, <2>10, <2>11, <2>12 DEF Delivered
<1>. QED
  BY <1>10, <1>11

LEMMA PushDeliveredKeeps ==
  ASSUME RailInv, PushDelivered
  PROVE  RailInv'
<1>1. PICK sent, c : Delivered(sent, c)
  BY DeliveredIs
<1>2. /\ push.pc = "answered" /\ UNCHANGED <<records, kind, up, log, wire, ever>>
  BY DEF PushDelivered, broker
<1>3. push.attempt \in Nat
  BY <1>2, PushFacts
<1>4. /\ sent \in Nat /\ Taken(sent) /\ c \in CursorType /\ Covers(c)
      /\ anchor' = IF c.anchor = push.cursor.anchor THEN anchor ELSE c.anchor
  BY <1>1 DEF Delivered
<1>5. \E d \in CursorType : Covers(d) /\ anchor' = d.anchor
  BY <1>4, CursorsOk
<1>6. CASE GoOn(sent, c, push.attempt)
  BY <1>2, <1>3, <1>4, <1>5, <1>6, GoOnKeeps
<1>7. CASE ~GoOn(sent, c, push.attempt)
  <2>1. /\ UNCHANGED <<counter, claim, cursor>> /\ Offered' \subseteq Offered
        /\ push' \in PushType /\ push'.pc = "sent" /\ push'.base = sent /\ push'.cursor = c
        /\ push'.todo # <<>> /\ sent + Len(push'.todo) <= Len(records)
        /\ \A i \in DOMAIN push'.todo : push'.todo[i].rec = records[sent + i]
    BY <1>1, <1>7 DEF Delivered
  <2>2. PushIsPiece'
    <3>1. /\ \A k : k = sent => Taken(k)'
          /\ \A d : d = c => Covers(d)'
      BY <1>2, <1>4, CoversStay
    <3>2. Taken(push.base)' /\ Covers(push.cursor)'
      BY <2>1, <3>1 DEF Taken, Covers, ResumeIndex
    <3>. QED
      BY <1>2, <2>1, <3>2 DEF PushIsPiece
  <2>. QED
    BY <1>2, <1>5, <2>1, <2>2, StepKeeps, CursorsOk
<1>. QED
  BY <1>6, <1>7

LEMMA LateRequestKeeps ==
  ASSUME RailInv, LateRequest
  PROVE  RailInv'
<1>1. PICK rows \in wire :
        /\ wire' = wire \ {rows} /\ Take(rows)
        /\ UNCHANGED <<records, kind, claim, counter, anchor, up, cursor, push>>
  BY DEF LateRequest, file, memory, tasks
<1>2. Range(rows) \subseteq Offered /\ Range(rows) \subseteq OfferType
  BY OffersAre
<1>3. /\ ever \subseteq ever' /\ log' \subseteq OfferType
      /\ \A x \in log' : x.rec \in ever' /\ x \in Offered
  BY <1>1, <1>2, TakeIs
<1>4. wire' \subseteq Seq(OfferType) /\ \A r \in wire' : Range(r) \subseteq Offered
  BY <1>1, OffersAre, CursorsOk
<1>5. CASE push = Idle
  <2>1. ~Active'
    BY <1>1, <1>5 DEF Active, Idle
  <2>2. Offered' \subseteq Offered
    <3>. DEFINE W == UNION {Range(r) : r \in wire'}
    <3>1. Offered' = log' \cup W
      BY <2>1 DEF Offered
    <3>2. W \subseteq Offered
      BY <1>4
    <3>. HIDE DEF W
    <3>. QED
      BY <1>3, <3>1, <3>2
  <2>3. PushIsPiece'
    BY <2>1 DEF PushIsPiece
  <2>. QED
    BY <1>1, <1>3, <1>4, <2>2, <2>3, CursorsOk, StepKeeps
<1>6. CASE push # Idle
  <2>1. push \in PushType
    BY <1>6, CursorsOk
  <2>2. push.pc \in {"sent", "answered", "sleeping"}
    BY <2>1 DEF PushType
  <2>3. Request' = Request /\ Active
    BY <1>1, <2>1, <2>2 DEF Request, Active
  <2>4. /\ push.pc = "answered" /\ push.answer = "ok" => \A i \in DOMAIN Request : Request[i].rec \in ever
        /\ push.pc = "answered" /\ push.answer = "duplicate" /\ push.single => push.todo[1].rec \in ever
    BY <2>3 DEF RailInv, PushIsPiece
  <2>. QED
    BY <1>1, <1>3, <1>4, <2>1, <2>2, <2>3, <2>4, SamePushKeeps
<1>. QED
  BY <1>5, <1>6

LEMMA DropRowKeeps ==
  ASSUME RailInv, DropRow
  PROVE  RailInv'
<1>1. log' = {} /\ UNCHANGED <<records, kind, claim, counter, anchor, up, cursor, push, wire, ever>>
  BY DEF DropRow, file, memory, tasks
<1>2. Offered' \subseteq Offered
  BY <1>1 DEF Offered, Active
<1>3. PushIsPiece'
  BY <1>1 DEF RailInv, PushIsPiece, Active, Request, Taken, Covers, ResumeIndex
<1>. QED
  BY <1>1, <1>2, <1>3, CursorsOk, StepKeeps

-----------------------------------------------------------------------------
(* The records change.                                                      *)

\* What an append leaves as it was.
LEMMA AppendIs ==
  ASSUME Typed, AppendRecord
  PROVE  LET N == Len(records)
             K == Len(kind)
         IN  /\ K < MaxRecords /\ \E k \in Kinds[K + 1] : /\ kind' = Append(kind, k)
                                                          /\ Tidy /\ k = "unnamed" => records # <<>>
             /\ UNCHANGED <<claim, counter, anchor, up, cursor, push, boots, poll, wire, log, ever, reseeded>>
             /\ N \in Nat /\ DOMAIN records = 1..N /\ K \in Nat /\ DOMAIN kind = 1..K
             /\ \A p \in 1..N : records[p] \in 1..K
             /\ kind' \in Seq(AllKinds) /\ Len(kind') = K + 1 /\ \A r \in 1..K : kind'[r] = kind[r]
             /\ records' \in Seq(1..(K + 1)) /\ Len(records') = N + 1 /\ records'[N + 1] = K + 1
             /\ \A p \in 1..N : records'[p] = records[p]
             /\ DOMAIN records' = 1..(N + 1) /\ \A p \in 1..(N + 1) : p \in 1..N \/ p = N + 1
             /\ \A r \in 1..K : Name(r)' = Name(r)
<1>. DEFINE N == Len(records)
            K == Len(kind)
<1>1. PICK k \in Kinds[K + 1] :
        /\ kind' = Append(kind, k) /\ records' = Append(records, K + 1) /\ K < MaxRecords
        /\ Tidy /\ k = "unnamed" => records # <<>>
        /\ UNCHANGED <<claim, counter, anchor, up, cursor, push, boots, poll, wire, log, ever, reseeded>>
  BY DEF AppendRecord, file, memory, tasks, broker
<1>2. /\ N \in Nat /\ DOMAIN records = 1..N /\ K \in Nat /\ DOMAIN kind = 1..K
      /\ \A p \in 1..N : records[p] \in 1..K
  BY RecordsAre
<1>3. k \in AllKinds
  <2>1. K + 1 \in 1..MaxRecords
    BY <1>1, <1>2, SyncAssumption
  <2>. QED
    BY <1>1, <2>1, SyncAssumption
<1>4. /\ kind' \in Seq(AllKinds) /\ Len(kind') = K + 1
      /\ \A r \in 1..K : kind'[r] = kind[r]
  <2>1. kind \in Seq(AllKinds)
    BY DEF Typed
  <2>. QED
    BY <1>1, <1>3, <2>1, AppendProperties
<1>5. /\ records' \in Seq(1..(K + 1)) /\ Len(records') = N + 1 /\ records'[N + 1] = K + 1
      /\ \A p \in 1..N : records'[p] = records[p]
  <2>1. records \in Seq(1..K)
    BY DEF Typed
  <2>2. records \in Seq(1..(K + 1))
    <3>1. 1..K \subseteq 1..(K + 1)
      BY <1>2
    <3>. QED
      BY <2>1, <3>1, SeqMonotonic
  <2>3. K + 1 \in 1..(K + 1)
    BY <1>2
  <2>. QED
    BY <1>1, <2>2, <2>3, AppendProperties
<1>6. DOMAIN records' = 1..(N + 1)
  BY <1>2, <1>5
<1>. HIDE DEF N, K
<1>7. \A p \in 1..(N + 1) : p \in 1..N \/ p = N + 1
  BY <1>2
<1>8. \A r \in 1..K : Name(r)' = Name(r)
  BY <1>4 DEF Name
<1>. QED
  BY <1>1, <1>2, <1>4, <1>5, <1>6, <1>7, <1>8 DEF N, K

\* A good cursor covers the same records.
LEMMA AppendResume ==
  ASSUME Typed, AppendRecord, NEW c \in CursorType, Covers(c)
  PROVE  ResumeIndex(c)' = ResumeIndex(c) /\ ResumeIndex(c) \in 0..Len(records)
<1>. DEFINE N == Len(records)
            K == Len(kind)
<1>1. /\ N \in Nat /\ DOMAIN records = 1..N /\ K \in Nat
      /\ Len(records') = N + 1 /\ records'[N + 1] = K + 1
      /\ \A p \in 1..N : records'[p] = records[p]
      /\ DOMAIN records' = 1..(N + 1) /\ \A p \in 1..(N + 1) : p \in 1..N \/ p = N + 1
  BY AppendIs
<1>2. c.anchor \in Nat /\ c.skip \in Nat /\ c.anchor <= K
  BY DEF Covers, CursorType
<1>. HIDE DEF N, K
<1>3. \A p \in 1..(N + 1) : records'[p] = c.anchor => p \in 1..N /\ records[p] = c.anchor
  BY <1>1, <1>2
<1>4. \A p \in 1..N : records[p] = c.anchor => p + c.skip <= N
  BY <1>1 DEF Covers, N
<1>. DEFINE at == {i \in DOMAIN records : records[i] = c.anchor}
            later == {i \in DOMAIN records' : records'[i] = c.anchor}
<1>5. later = at
  BY <1>1, <1>3
<1>6. ResumeIndex(c)' = IF at = {} THEN 0 ELSE Min({Max(at) + c.skip, N + 1})
  <2>1. ResumeIndex(c)' = IF later = {} THEN 0 ELSE Min({Max(later) + c.skip, Len(records')})
    BY DEF ResumeIndex
  <2>. QED
    BY <1>1, <1>5, <2>1
<1>7. ResumeIndex(c) = IF at = {} THEN 0 ELSE Min({Max(at) + c.skip, N})
  BY DEF ResumeIndex, N
<1>8. CASE at = {}
  BY <1>1, <1>6, <1>7, <1>8
<1>9. CASE at # {}
  <2>. DEFINE m == Max(at)
  <2>1. m \in at
    <3>1. at \in SUBSET Nat /\ \A y \in at : y <= N
      BY <1>1
    <3>. QED
      BY <1>1, <1>9, <3>1, MaxIs
  <2>. HIDE DEF m
  <2>2. m \in Nat /\ m >= 1 /\ m + c.skip <= N
    BY <1>1, <1>4, <2>1
  <2>3. Min({m + c.skip, N + 1}) = m + c.skip /\ Min({m + c.skip, N}) = m + c.skip
    <3>1. m + c.skip \in Int /\ N \in Int /\ N + 1 \in Int /\ m + c.skip <= N + 1
      BY <1>1, <1>2, <2>2
    <3>. QED
      BY <2>2, <3>1, MinOfTwo
  <2>. QED
    BY <1>1, <1>2, <1>6, <1>7, <1>9, <2>2, <2>3 DEF m
<1>. QED
  BY <1>8, <1>9

\* The next record: no cursor reaches it and no claim knows it.
LEMMA AppendRecordKeeps ==
  ASSUME RailInv, AppendRecord
  PROVE  RailInv'
<1>. DEFINE N == Len(records)
            K == Len(kind)
<1>0. Typed
  BY DEF RailInv
<1>1. UNCHANGED <<claim, counter, anchor, up, cursor, push, wire, log, ever>>
  BY <1>0, AppendIs
<1>2. /\ Typed /\ N \in Nat /\ DOMAIN records = 1..N /\ K \in Nat /\ DOMAIN kind = 1..K
      /\ \A p \in 1..N : records[p] \in 1..K
  BY <1>0, AppendIs
<1>4. /\ kind' \in Seq(AllKinds) /\ Len(kind') = K + 1
      /\ \A r \in 1..K : kind'[r] = kind[r]
  BY <1>0, AppendIs
<1>5. /\ records' \in Seq(1..(K + 1)) /\ Len(records') = N + 1 /\ records'[N + 1] = K + 1
      /\ \A p \in 1..N : records'[p] = records[p]
  BY <1>0, AppendIs
<1>6. DOMAIN records' = 1..(N + 1)
  BY <1>0, AppendIs
<1>7. \A p \in 1..(N + 1) : p \in 1..N \/ p = N + 1
  BY <1>0, AppendIs
<1>8. \A r \in 1..K : Name(r)' = Name(r)
  BY <1>0, AppendIs
<1>. HIDE DEF N, K
<1>9. Typed'
  <2>1. Ascends(records')
    <3>1. ASSUME NEW i \in 1..(N + 1), NEW j \in 1..(N + 1), i < j PROVE records'[i] < records'[j]
      <4>1. i \in 1..N
        BY <1>2, <3>1
      <4>2. CASE j \in 1..N
        BY <1>2, <1>5, <3>1, <4>1, <4>2 DEF Typed, Ascends
      <4>3. CASE j = N + 1
        <5>1. records'[i] \in 1..K /\ records'[j] = K + 1
          BY <1>2, <1>5, <4>1, <4>3
        <5>. QED
          BY <1>2, <5>1
      <4>. QED
        BY <1>7, <4>2, <4>3
    <3>. QED
      BY <1>6, <3>1 DEF Ascends
  <2>2. records' \in Seq(1..Len(kind'))
    BY <1>4, <1>5
  <2>. QED
    BY <1>1, <1>2, <1>4, <2>1, <2>2 DEF Typed
<1>10. \A c \in CursorType : Covers(c) => Covers(c)'
  <2>. SUFFICES ASSUME NEW c \in CursorType, Covers(c) PROVE Covers(c)'
    OBVIOUS
  <2>1. c.anchor \in Nat /\ c.skip \in Nat /\ c.anchor <= K
    BY DEF Covers, CursorType, K
  <2>2. \A p \in 1..(N + 1) : records'[p] = c.anchor => p \in 1..N /\ records[p] = c.anchor
    BY <1>2, <1>5, <1>7, <2>1
  <2>3. \A p \in 1..N : records[p] = c.anchor => p + c.skip <= N
    BY <1>2 DEF Covers, N
  <2>4. ResumeIndex(c)' = ResumeIndex(c) /\ ResumeIndex(c) \in 0..N
    BY <1>0, AppendResume DEF N
  <2>5. Taken(ResumeIndex(c))'
    <3>1. \A i \in 1..ResumeIndex(c) : i \in 1..N /\ records'[i] = records[i] /\ kind'[records[i]] = kind[records[i]]
      BY <1>2, <1>4, <1>5, <2>4
    <3>2. Taken(ResumeIndex(c))
      BY DEF Covers
    <3>. QED
      BY <1>1, <2>4, <3>1, <3>2 DEF Taken
  <2>6. (c.anchor <= Len(kind))'
    BY <1>2, <1>4, <2>1
  <2>7. \A p \in DOMAIN records' : records'[p] = c.anchor => p + c.skip <= Len(records')
    BY <1>2, <1>5, <1>6, <2>1, <2>2, <2>3
  <2>. QED
    BY <2>5, <2>6, <2>7 DEF Covers
<1>11. \A n \in Nat : n <= N /\ Taken(n) => Taken(n)'
  <2>. SUFFICES ASSUME NEW n \in Nat, n <= N, Taken(n) PROVE Taken(n)'
    OBVIOUS
  <2>1. \A i \in 1..n : i \in 1..N /\ records'[i] = records[i] /\ kind'[records[i]] = kind[records[i]]
    BY <1>2, <1>4, <1>5
  <2>. QED
    BY <1>1, <2>1 DEF Taken
<1>12. CursorsCover'
  <2>1. Covers(cursor)'
    <3>1. cursor \in CursorType /\ Covers(cursor)
      BY CursorsOk
    <3>2. \A c : c = cursor => Covers(c)'
      BY <1>10, <3>1
    <3>. QED
      BY <1>1, <3>2 DEF Covers, Taken, ResumeIndex
  <2>2. Covers(Kept)'
    <3>1. Kept \in CursorType /\ Covers(Kept)
      BY <1>2 DEF RailInv, CursorsCover, Kept, CursorType, Typed
    <3>2. \A c : c = Kept => Covers(c)'
      BY <1>10, <3>1
    <3>. QED
      BY <1>1, <3>2 DEF Covers, Taken, ResumeIndex, Kept
  <2>. QED
    BY <1>1, <2>1, <2>2 DEF CursorsCover, RailInv
<1>13. PushIsPiece'
  <2>. SUFFICES ASSUME Active PROVE PushIsPiece'
    BY <1>1 DEF PushIsPiece, Active
  <2>1. push \in PushType
    BY ActiveIs, CursorsOk
  <2>2. /\ push.todo # <<>> /\ push.base + Len(push.todo) <= N /\ push.base \in Nat /\ Len(push.todo) \in Nat
        /\ DOMAIN push.todo = 1..Len(push.todo)
        /\ \A i \in DOMAIN push.todo : push.todo[i].rec = records[push.base + i]
        /\ Taken(push.base) /\ Covers(push.cursor) /\ push.cursor \in CursorType
        /\ push.pc = "answered" /\ push.answer = "ok" => \A i \in DOMAIN Request : Request[i].rec \in ever
        /\ push.pc = "answered" /\ push.answer = "duplicate" /\ push.single => push.todo[1].rec \in ever
    BY <2>1 DEF RailInv, PushIsPiece, PushType, N
  <2>3. \A i \in DOMAIN push.todo : push.todo[i].rec = records'[push.base + i]
    <3>1. \A i \in DOMAIN push.todo : push.base + i \in 1..N
      BY <1>2, <2>2
    <3>. QED
      BY <1>5, <2>2, <3>1
  <2>4. Taken(push.base)'
    <3>1. \A n : n = push.base => Taken(n)'
      BY <1>2, <1>11, <2>2
    <3>. QED
      BY <1>1, <3>1 DEF Taken
  <2>5. Covers(push.cursor)'
    <3>1. \A c : c = push.cursor => Covers(c)'
      BY <1>10, <2>2
    <3>. QED
      BY <1>1, <3>1 DEF Covers, Taken, ResumeIndex
  <2>6. push.base + Len(push.todo) <= Len(records')
    BY <1>2, <1>5, <2>2
  <2>7. Request' = Request
    BY <1>1 DEF Request
  <2>. QED
    BY <1>1, <2>2, <2>3, <2>4, <2>5, <2>6, <2>7 DEF PushIsPiece
<1>14. Claims'
  <2>1. Offered' = Offered /\ \A i, r : Meant(i, r)' = Meant(i, r)
    BY <1>1 DEF Offered, Active, Meant
  <2>2. /\ \A i \in DOMAIN claim.names : claim.names[i] \in 0..K
        /\ Numbered /\ OneRecord /\ Ahead /\ Behind
    BY DEF RailInv, Claims, Numbered, K
  <2>3. \A i \in DOMAIN claim.names, p \in 1..(N + 1) :
          claim.names[i] = records'[p] => p \in 1..N /\ claim.names[i] = records[p]
    BY <1>2, <1>5, <1>7, <2>2
  <2>4. Numbered'
    <3>1. \A i \in DOMAIN claim.names : claim.names[i] \in 0..(K + 1)
      BY <1>2, <2>2
    <3>. QED
      BY <1>1, <1>4, <2>1, <2>2, <3>1 DEF Numbered
  <2>5. OneRecord'
    BY <2>1, <2>2 DEF OneRecord
  <2>6. Ahead'
    <3>1. ASSUME NEW i \in DOMAIN claim.names, NEW p \in 1..(N + 1), claim.names[i] = records'[p],
                 NEW j \in i..Len(claim.names)
          PROVE  /\ p + (j - i) \in 1..N
                 /\ claim.names[j] = Name(records[p + (j - i)])
                 /\ Meant(j, records[p + (j - i)])
      <4>1. p \in DOMAIN records /\ claim.names[i] = records[p]
        BY <1>2, <2>3, <3>1
      <4>. QED
        BY <1>2, <2>2, <3>1, <4>1 DEF Ahead
    <3>2. \A q \in 1..N : q \in DOMAIN records' /\ records'[q] = records[q] /\ records[q] \in 1..K
      BY <1>2, <1>5, <1>6
    <3>3. \A q \in 1..N : \A r : r = records'[q] => Name(r)' = Name(records[q])
      BY <1>8, <3>2
    <3>4. \A j : \A q \in 1..N : \A r : r = records'[q] => Meant(j, r)' = Meant(j, records[q])
      BY <2>1, <3>2
    <3>5. ASSUME NEW i \in DOMAIN claim.names, NEW p \in 1..(N + 1), claim.names[i] = records'[p],
                 NEW j \in i..Len(claim.names)
          PROVE  /\ p + (j - i) \in DOMAIN records'
                 /\ \A r : r = records'[p + (j - i)] => claim.names[j] = Name(r)' /\ Meant(j, r)'
      <4>1. /\ p + (j - i) \in 1..N
            /\ claim.names[j] = Name(records[p + (j - i)])
            /\ Meant(j, records[p + (j - i)])
        BY <3>1, <3>5
      <4>. DEFINE q == p + (j - i)
      <4>. HIDE DEF q
      <4>. QED
        BY <3>2, <3>3, <3>4, <4>1 DEF q
    <3>6. claim' = claim
      BY <1>1
    <3>. QED
      BY <1>6, <3>5, <3>6 DEF Ahead
  <2>7. Behind'
    <3>1. ASSUME NEW i \in DOMAIN claim.names, NEW p \in 1..(N + 1), claim.names[i] = records'[p],
                 NEW d \in 1..(i - 1), p > d
          PROVE  /\ \A m \in (p - d)..(p - 1) : m \in 1..N
                 /\ (\A m \in (p - d)..(p - 1) : Name(records[m]) = None) => Meant(i - d, records[p - d])
                 /\ p - d \in 1..N
      <4>1. p \in 1..N /\ p \in DOMAIN records /\ claim.names[i] = records[p]
        BY <1>2, <2>3, <3>1
      <4>2. i \in Nat
        BY <1>2 DEF Typed, ClaimType
      <4>3. p - d \in 1..N /\ \A m \in (p - d)..(p - 1) : m \in 1..N
        BY <1>2, <3>1, <4>1, <4>2
      <4>. QED
        BY <2>2, <3>1, <4>1, <4>3 DEF Behind
    <3>2. \A q \in 1..N : records'[q] = records[q] /\ records[q] \in 1..K
      BY <1>2, <1>5
    <3>3. \A q \in 1..N : \A r : r = records'[q] => Name(r)' = Name(records[q])
      BY <1>8, <3>2
    <3>4. \A j : \A q \in 1..N : \A r : r = records'[q] => Meant(j, r)' = Meant(j, records[q])
      BY <2>1, <3>2
    <3>5. ASSUME NEW i \in DOMAIN claim.names, NEW p \in 1..(N + 1), claim.names[i] = records'[p],
                 NEW d \in 1..(i - 1), p > d,
                 \A m \in (p - d)..(p - 1) : \A r : r = records'[m] => Name(r)' = None
          PROVE  \A r : r = records'[p - d] => Meant(i - d, r)'
      <4>1. \A m \in (p - d)..(p - 1) : Name(records[m]) = None
        BY <3>1, <3>3, <3>5
      <4>2. p - d \in 1..N /\ Meant(i - d, records[p - d])
        BY <3>1, <3>5, <4>1
      <4>. QED
        BY <3>4, <4>2
    <3>6. claim' = claim
      BY <1>1
    <3>. QED
      BY <1>6, <3>5, <3>6 DEF Behind
  <2>. QED
    BY <2>4, <2>5, <2>6, <2>7 DEF Claims
<1>. QED
  BY <1>9, <1>12, <1>13, <1>14 DEF RailInv

\* A cursor whose anchor is not among the records covers nothing.
LEMMA LostAnchor ==
  ASSUME \A p \in DOMAIN records' : records'[p] # anchor', anchor' \in Nat, anchor' <= Len(kind')
  PROVE  Covers(Kept)'
<1>1. Kept'.anchor = anchor'
  BY DEF Kept
<1>2. ResumeIndex(Kept)' = 0
  <2>1. {i \in DOMAIN records' : records'[i] = Kept'.anchor} = {}
    BY <1>1
  <2>. QED
    BY <2>1 DEF ResumeIndex
<1>. QED
  BY <1>1, <1>2 DEF Covers, Taken

LEMMA LostCursor ==
  ASSUME \A p \in DOMAIN records' : records'[p] # cursor'.anchor, cursor'.anchor <= Len(kind')
  PROVE  Covers(cursor)'
<1>1. ResumeIndex(cursor)' = 0
  <2>1. {i \in DOMAIN records' : records'[i] = cursor'.anchor} = {}
    OBVIOUS
  <2>. QED
    BY <2>1 DEF ResumeIndex
<1>. QED
  BY <1>1 DEF Covers, Taken

\* A compaction takes every anchor and every claimed record away.
LEMMA CompactKeeps ==
  ASSUME Tidy, RailInv, Compact
  PROVE  RailInv'
<1>. DEFINE K == Len(kind)
<1>1. /\ kind' = Append(kind, "local") /\ records' = <<K + 1>> /\ push = Idle
      /\ UNCHANGED <<claim, counter, anchor, up, cursor, push, wire, log, ever>>
  BY DEF Compact, file, memory, tasks, broker
<1>2. Typed /\ K \in Nat /\ CursorsCover
  BY RecordsAre DEF RailInv
<1>3. kind' \in Seq(AllKinds) /\ Len(kind') = K + 1
  <2>1. kind \in Seq(AllKinds) /\ "local" \in AllKinds
    BY <1>2 DEF Typed, AllKinds
  <2>. QED
    BY <1>1, <2>1, AppendProperties
<1>4. DOMAIN records' = {1} /\ records'[1] = K + 1 /\ Len(records') = 1
  BY <1>1
<1>5. records' \in Seq(1..(K + 1))
  <2>1. K + 1 \in 1..(K + 1)
    BY <1>2
  <2>. QED
    BY <1>1, <2>1
<1>6. anchor' \in Nat /\ cursor'.anchor \in Nat /\ anchor' <= K /\ cursor'.anchor <= K
  BY <1>1, <1>2 DEF CursorsCover, Covers, Kept, Typed, CursorType
<1>7. \A i \in DOMAIN claim'.names : claim'.names[i] \in 0..K
  BY <1>1 DEF RailInv, Claims, Numbered
<1>. HIDE DEF K
<1>8. Typed'
  <2>1. Ascends(records')
    BY <1>4 DEF Ascends
  <2>. QED
    BY <1>1, <1>2, <1>3, <1>5, <2>1 DEF Typed
<1>9. \A p \in DOMAIN records' : records'[p] # anchor' /\ records'[p] # cursor'.anchor
  BY <1>2, <1>4, <1>6
<1>10. CursorsCover'
  <2>1. anchor' <= Len(kind') /\ cursor'.anchor <= Len(kind')
    BY <1>2, <1>3, <1>6
  <2>. QED
    BY <1>1, <1>2, <1>6, <1>9, <2>1, LostAnchor, LostCursor DEF CursorsCover
<1>11. ~Active'
  BY <1>1 DEF Active, Idle
<1>12. Offered' = Offered
  BY <1>1 DEF Offered, Active
<1>13. Claims'
  <2>1. \A i \in DOMAIN claim'.names, p \in DOMAIN records' : claim'.names[i] # records'[p]
    BY <1>2, <1>4, <1>7
  <2>2. Numbered'
    <3>1. \A i \in DOMAIN claim'.names : claim'.names[i] \in 0..(K + 1)
      BY <1>2, <1>7
    <3>2. Numbered /\ claim' = claim /\ counter' = counter
      BY <1>1 DEF RailInv, Claims
    <3>. QED
      BY <1>3, <1>12, <3>1, <3>2 DEF Numbered
  <2>3. OneRecord'
    BY <1>12 DEF RailInv, Claims, OneRecord
  <2>. QED
    BY <2>1, <2>2, <2>3 DEF Claims, Ahead, Behind
<1>. QED
  BY <1>8, <1>10, <1>11, <1>13 DEF RailInv, PushIsPiece

\* What is loaded: the named records, in their order.
LEMMA LoadedIs ==
  ASSUME Typed, NEW s \in Loaded
  PROVE  /\ s \in Seq(1..Len(kind)) /\ Ascends(s) /\ DOMAIN s = 1..Len(s) /\ Len(s) \in Nat
         /\ \A t \in DOMAIN s : /\ s[t] \in Nat /\ s[t] \in 1..Len(kind) /\ s[t] # None /\ Name(s[t]) # None
                                /\ \E p \in DOMAIN records : s[t] = records[p]
         /\ \A p \in DOMAIN records : Name(records[p]) # None => \E t \in DOMAIN s : s[t] = records[p]
         /\ \A t, u \in DOMAIN s : s[t] < s[u] => t < u
<1>. DEFINE kept == {r \in Range(records) : Name(r) # None}
            n == Cardinality(kept)
            K == Len(kind)
<1>1. /\ K \in Nat /\ DOMAIN records \subseteq Nat
      /\ \A p \in DOMAIN records : records[p] \in 1..K /\ records[p] # None
  BY RecordsAre
<1>2. kept \subseteq 1..K
  BY <1>1 DEF Range
<1>3. IsFiniteSet(kept) /\ n \in Nat
  <2>1. IsFiniteSet(1..K)
    <3>1. 1 \in Int /\ K \in Int
      BY <1>1
    <3>. QED
      BY <3>1, FS_Interval
  <2>2. IsFiniteSet(kept)
    BY <1>2, <2>1, FS_Subset
  <2>. QED
    BY <2>2, FS_CardinalityType
<1>4. s \in [1..n -> kept] /\ \A i, j \in DOMAIN s : i < j => s[i] < s[j]
  BY DEF Loaded
<1>5. \A r \in kept : Name(r) # None /\ \E p \in DOMAIN records : r = records[p]
  BY DEF Range
<1>6. \A p \in DOMAIN records : Name(records[p]) # None => records[p] \in kept
  BY DEF Range
<1>7. Cardinality(1..n) = n /\ 1..n \subseteq Nat
  <2>1. 1 \in Int /\ n \in Int
    BY <1>3
  <2>2. Cardinality(1..n) = IF 1 > n THEN 0 ELSE n - 1 + 1
    BY <2>1, FS_Interval
  <2>. HIDE DEF n
  <2>. QED
    BY <1>3, <2>2
<1>. HIDE DEF n, kept, K
<1>8. DOMAIN s = 1..n /\ \A t \in 1..n : s[t] \in kept /\ s[t] \in 1..K /\ s[t] \in Nat
  <2>1. DOMAIN s = 1..n /\ \A t \in 1..n : s[t] \in kept
    BY <1>4
  <2>2. \A r \in 1..K : r \in Nat
    BY <1>1
  <2>. QED
    BY <1>2, <2>1, <2>2, Zenon
<1>9. \A t, u \in 1..n : s[t] < s[u] => t < u
  <2>. SUFFICES ASSUME NEW t \in 1..n, NEW u \in 1..n, s[t] < s[u], ~(t < u) PROVE FALSE
    OBVIOUS
  <2>1. u < t \/ u = t
    BY <1>3
  <2>2. s[u] < s[t] \/ s[u] = s[t]
    BY <1>4, <1>8, <2>1
  <2>. QED
    BY <1>8, <2>2
<1>10. IsInjective(s)
  <2>. SUFFICES ASSUME NEW t \in 1..n, NEW u \in 1..n, s[t] = s[u], t # u PROVE FALSE
    BY <1>8 DEF IsInjective
  <2>1. t < u \/ u < t
    BY <1>3
  <2>2. s[t] < s[u] \/ s[u] < s[t]
    BY <1>4, <1>8, <2>1
  <2>. QED
    BY <1>8, <2>2
<1>11. s \in Surjection(1..n, kept)
  <2>1. s \in Injection(1..n, kept)
    BY <1>4, <1>10 DEF Injection
  <2>2. Cardinality(1..n) = Cardinality(kept)
    BY <1>7 DEF n
  <2>. QED
    BY <1>3, <2>1, <2>2, FS_Injection
<1>12. \A r \in kept : \E t \in 1..n : s[t] = r
  BY <1>11 DEF Surjection
<1>13. s \in Seq(1..K) /\ Len(s) = n
  <2>1. s \in [1..n -> 1..K]
    BY <1>2, <1>4
  <2>2. s \in Seq(1..K)
    <3>. DEFINE S == 1..K
    <3>1. s \in [1..n -> S] /\ n \in Nat
      BY <1>3, <2>1
    <3>. HIDE DEF S
    <3>2. s \in Seq(S)
      BY <3>1
    <3>. QED
      BY <3>2 DEF S
  <2>3. Len(s) \in Nat /\ DOMAIN s = 1..Len(s)
    BY <2>2
  <2>4. Len(s) = n
    <3>. DEFINE l == Len(s)
    <3>1. l \in Nat /\ 1..l = 1..n
      BY <1>8, <2>3
    <3>. HIDE DEF l
    <3>2. n <= l
      <4>1. n = 0 \/ n \in 1..l
        BY <1>3, <3>1
      <4>. QED
        BY <1>3, <3>1, <4>1
    <3>3. l <= n
      <4>1. l = 0 \/ l \in 1..n
        BY <1>3, <3>1
      <4>. QED
        BY <1>3, <3>1, <4>1
    <3>4. l = n
      BY <1>3, <3>1, <3>2, <3>3
    <3>. QED
      BY <3>4 DEF l
  <2>. QED
    BY <2>2, <2>4
<1>14. \A t \in 1..n : s[t] # None
  BY <1>8 DEF None
<1>15. Ascends(s)
  BY <1>4 DEF Ascends
<1>16. \A t \in 1..n : Name(s[t]) # None /\ \E p \in DOMAIN records : s[t] = records[p]
  BY <1>5, <1>8
<1>17. \A p \in DOMAIN records : Name(records[p]) # None => \E t \in 1..n : s[t] = records[p]
  BY <1>6, <1>12
<1>. QED
  BY <1>3, <1>8, <1>9, <1>13, <1>14, <1>15, <1>16, <1>17 DEF K

\* Named records that follow each other still do when they are loaded.
LEMMA LoadedRun ==
  ASSUME Typed, NEW s \in Loaded, NEW q \in DOMAIN s, NEW p \in DOMAIN records, s[q] = records[p],
         NEW n \in Nat, \A m \in 0..n : p + m \in DOMAIN records /\ Name(records[p + m]) # None
  PROVE  q + n \in DOMAIN s /\ s[q + n] = records[p + n]
<1>. DEFINE l == Len(s)
            N == Len(records)
            Fits(m) == q + m \in DOMAIN s /\ s[q + m] = records[p + m]
            bad == {m \in 0..n : ~Fits(m)}
<1>1. /\ DOMAIN s = 1..l /\ l \in Nat
      /\ \A t \in DOMAIN s : s[t] \in Nat /\ \E u \in DOMAIN records : s[t] = records[u]
      /\ \A u \in DOMAIN records : Name(records[u]) # None => \E t \in DOMAIN s : s[t] = records[u]
      /\ \A t, u \in DOMAIN s : s[t] < s[u] => t < u
      /\ \A t, u \in DOMAIN s : t < u => s[t] < s[u]
  BY LoadedIs DEF Ascends
<1>2. /\ N \in Nat /\ DOMAIN records = 1..N
      /\ \A u \in DOMAIN records : records[u] \in Nat
      /\ \A u, v \in DOMAIN records : /\ u < v => records[u] < records[v]
                                      /\ records[u] < records[v] => u < v
  BY RecordsAre
<1>0. q \in 1..l /\ p \in 1..N /\ q \in Nat /\ p \in Nat
  BY <1>1, <1>2, SMTT(30)
<1>. HIDE DEF l, N
<1>. SUFFICES ASSUME bad # {} PROVE FALSE
  <2>1. n \in 0..n
    OBVIOUS
  <2>. QED
    BY <2>1
<1>. DEFINE m == Min(bad)
<1>3. m \in bad /\ \A y \in bad : m <= y
  <2>1. bad \in SUBSET Nat
    OBVIOUS
  <2>. QED
    BY <2>1, MinIs
<1>. HIDE DEF m
<1>4. m \in 0..n /\ ~Fits(m)
  BY <1>3
<1>5. m # 0
  <2>1. q \in Nat /\ p \in Nat
    BY <1>0
  <2>2. Fits(0)
    BY <2>1
  <2>. QED
    BY <1>4, <2>2
<1>6. m - 1 \in 0..n /\ m - 1 \notin bad
  <2>1. ~(m <= m - 1) /\ m - 1 \in 0..n
    BY <1>4, <1>5
  <2>. QED
    BY <1>3, <2>1
<1>7. Fits(m - 1)
  BY <1>6
<1>. HIDE DEF bad
<1>. DEFINE a == q + (m - 1)
            b == p + (m - 1)
<1>8. /\ a \in DOMAIN s /\ s[a] = records[b]
      /\ m \in Nat /\ a + 1 = q + m /\ b + 1 = p + m /\ a \in Nat /\ b \in Nat
  <2>1. a \in DOMAIN s /\ s[a] = records[b]
    BY <1>7
  <2>2. m \in Nat /\ m >= 1
    BY <1>4, <1>5
  <2>3. a + 1 = q + m /\ b + 1 = p + m /\ a \in Nat /\ b \in Nat
    BY ONLY <1>0, <2>2
  <2>. QED
    BY <2>1, <2>2, <2>3
<1>9. b \in DOMAIN records /\ b + 1 \in DOMAIN records /\ Name(records[b + 1]) # None
  BY <1>4, <1>6, <1>8
<1>10. ~(a + 1 \in DOMAIN s /\ s[a + 1] = records[b + 1])
  BY <1>4, <1>8
<1>. HIDE DEF a, b
<1>11. PICK t \in DOMAIN s : s[t] = records[b + 1]
  BY <1>1, <1>9
<1>12. s[a] < s[t]
  BY <1>2, <1>8, <1>9, <1>11
<1>13. a < t /\ t \in Nat
  BY <1>1, <1>8, <1>11, <1>12
<1>14. a + 1 \in DOMAIN s
  <2>1. t \in 1..l
    BY <1>1, <1>11
  <2>2. a + 1 \in 1..l
    BY <1>1, <1>8, <1>13, <2>1
  <2>. QED
    BY <1>1, <2>2
<1>15. a + 1 # t
  BY <1>10, <1>11, <1>14
<1>16. s[a] < s[a + 1] /\ s[a + 1] < s[t]
  <2>1. a < a + 1 /\ a + 1 < t
    BY <1>8, <1>13, <1>15
  <2>. QED
    BY <1>1, <1>8, <1>11, <1>14, <2>1
<1>17. PICK u \in DOMAIN records : s[a + 1] = records[u]
  BY <1>1, <1>14
<1>18. b < u /\ u < b + 1
  BY <1>2, <1>8, <1>9, <1>11, <1>16, <1>17
<1>. QED
  BY <1>2, <1>8, <1>18

\* A crash offers nothing new.
LEMMA CrashOffers ==
  ASSUME RailInv, Crash
  PROVE  wire' \subseteq Seq(OfferType) /\ Offered' \subseteq Offered /\ ~Active'
<1>1. /\ push' = Idle /\ log' = log
      /\ wire' \in IF push.pc = "sent" THEN {wire, wire \union {Request}} ELSE {wire}
  BY DEF Crash
<1>2. Typed
  BY DEF RailInv
<1>3. ~Active'
  BY <1>1 DEF Active, Idle
<1>4. wire \subseteq Seq(OfferType)
  BY <1>2 DEF Typed
<1>5. CASE push.pc = "sent"
  <2>1. Request \in Seq(OfferType) /\ Range(Request) \subseteq Offered
    BY <1>5, PushFacts, RequestIs
  <2>2. \A rows \in wire' : Range(rows) \subseteq Offered
    BY <1>1, <2>1, OffersAre
  <2>3. Offered' \subseteq Offered
    <3>. DEFINE W == UNION {Range(rows) : rows \in wire'}
    <3>1. Offered' = log \cup W
      BY <1>1, <1>3 DEF Offered
    <3>2. W \subseteq Offered /\ log \subseteq Offered
      BY <2>2, OffersAre
    <3>. HIDE DEF W
    <3>. QED
      BY <3>1, <3>2
  <2>. QED
    BY <1>1, <1>3, <1>4, <2>1, <2>3
<1>6. CASE push.pc # "sent"
  <2>1. wire' = wire
    BY <1>1, <1>6
  <2>2. Offered' \subseteq Offered
    BY <1>1, <1>3, <2>1 DEF Offered
  <2>. QED
    BY <1>3, <1>4, <2>1, <2>2
<1>. QED
  BY <1>5, <1>6

\* The anchor that was loaded leads to itself.
LEMMA LoadedAnchor ==
  ASSUME Typed, records' \in Loaded, anchor' = anchor
  PROVE  /\ \A t \in DOMAIN records' : records'[t] = anchor => ResumeIndex(Kept)' = t
         /\ (\A t \in DOMAIN records' : records'[t] # anchor) => ResumeIndex(Kept)' = 0
<1>1. /\ Ascends(records') /\ DOMAIN records' = 1..Len(records') /\ Len(records') \in Nat
      /\ \A t \in DOMAIN records' : records'[t] \in Nat
  BY LoadedIs
<1>2. Kept'.anchor = anchor /\ Kept'.skip = 0
  BY DEF Kept
<1>3. ASSUME NEW t \in DOMAIN records', records'[t] = anchor PROVE ResumeIndex(Kept)' = t
  <2>1. {i \in DOMAIN records' : records'[i] = anchor} = {t}
    <3>1. \A i \in DOMAIN records' : records'[i] = anchor => i = t
      <4>. SUFFICES ASSUME NEW i \in DOMAIN records', records'[i] = anchor, i # t PROVE FALSE
        OBVIOUS
      <4>1. i < t \/ t < i
        BY <1>1
      <4>2. records'[i] < records'[t] \/ records'[t] < records'[i]
        BY <1>1, <4>1 DEF Ascends
      <4>. QED
        BY <1>1, <1>3, <4>2
    <3>. QED
      BY <1>3, <3>1
  <2>2. Max({t}) = t
    <3>1. {t} \in SUBSET Nat /\ {t} # {} /\ t \in Nat /\ \A y \in {t} : y <= t
      BY <1>1
    <3>2. Max({t}) \in {t}
      BY <3>1, MaxIs
    <3>. QED
      BY <3>2
  <2>3. Min({t + 0, Len(records')}) = t
    <3>1. t + 0 \in Int /\ Len(records') \in Int /\ t + 0 <= Len(records') /\ t + 0 = t
      BY <1>1
    <3>. QED
      BY <3>1, MinOfTwo
  <2>4. ResumeIndex(Kept)' = Min({Max({t}) + 0, Len(records')})
    <3>1. {i \in DOMAIN records' : records'[i] = Kept'.anchor} = {t}
      BY <1>2, <2>1
    <3>. QED
      BY <1>2, <3>1 DEF ResumeIndex
  <2>. QED
    BY <2>2, <2>3, <2>4
<1>4. ASSUME \A t \in DOMAIN records' : records'[t] # anchor PROVE ResumeIndex(Kept)' = 0
  <2>1. {i \in DOMAIN records' : records'[i] = Kept'.anchor} = {}
    BY <1>2, <1>4
  <2>. QED
    BY <2>1 DEF ResumeIndex
<1>. QED
  BY <1>3, <1>4

\* The named records are loaded in their order: the claim still lies along them.
LEMMA CrashKeeps ==
  ASSUME Tidy, RailInv, Crash
  PROVE  RailInv'
<1>1. /\ records' \in Loaded /\ cursor' = NoCursor /\ push' = Idle /\ up' = FALSE
      /\ wire' \in IF push.pc = "sent" THEN {wire, wire \union {Request}} ELSE {wire}
      /\ UNCHANGED <<kind, counter, claim, anchor, log, ever>>
      /\ \A r \in Range(records) : Name(r) = None => ~\E i \in DOMAIN claim.names : i > 1 /\ claim.names[i] = None
  BY DEF Crash, file
<1>2. Typed /\ CursorsCover /\ Claims
  BY DEF RailInv
<1>3. /\ records' \in Seq(1..Len(kind)) /\ Ascends(records')
      /\ DOMAIN records' = 1..Len(records') /\ Len(records') \in Nat
      /\ \A t \in DOMAIN records' : /\ records'[t] \in Nat /\ records'[t] \in 1..Len(kind)
                                    /\ records'[t] # None /\ Name(records'[t]) # None
                                    /\ \E p \in DOMAIN records : records'[t] = records[p]
      /\ \A p \in DOMAIN records : Name(records[p]) # None => \E t \in DOMAIN records' : records'[t] = records[p]
      /\ \A t, u \in DOMAIN records' : records'[t] < records'[u] => t < u
  BY <1>1, <1>2, LoadedIs
<1>4. wire' \subseteq Seq(OfferType) /\ Offered' \subseteq Offered /\ ~Active'
  BY CrashOffers
<1>5. Typed'
  <2>1. NoCursor \in CursorType
    BY <1>2, NoCursorCovers
  <2>. QED
    BY <1>1, <1>2, <1>3, <1>4, <2>1 DEF Typed
<1>6. CursorsCover'
  <2>1. Covers(cursor)'
    <3>1. cursor'.anchor = None
      BY <1>1 DEF NoCursor
    <3>2. cursor'.anchor <= Len(kind')
      BY <1>1, <1>2, <3>1, RecordsAre DEF None
    <3>. QED
      BY <1>3, <3>1, <3>2, LostCursor
  <2>2. anchor \in Nat /\ anchor <= Len(kind) /\ Taken(ResumeIndex(Kept)) /\ Kept \in CursorType
        /\ Kept.anchor = anchor /\ Kept.skip = 0
    BY <1>2 DEF CursorsCover, Covers, Kept, Typed, CursorType
  <2>3. Covers(Kept)'
    <3>1. CASE \A t \in DOMAIN records' : records'[t] # anchor
      BY <1>1, <2>2, <3>1, LostAnchor
    <3>2. ASSUME NEW t \in DOMAIN records', records'[t] = anchor
          PROVE  Covers(Kept)'
      <4>1. PICK p \in DOMAIN records : records'[t] = records[p]
        BY <1>3
      <4>2. /\ Len(records) \in Nat /\ DOMAIN records = 1..Len(records) /\ p \in Nat
            /\ \A u \in DOMAIN records : records[u] \in Nat
            /\ \A u, v \in DOMAIN records : u < v => records[u] < records[v]
        BY <1>2, RecordsAre
      <4>3. ResumeIndex(Kept) = p
        BY <1>2, <2>2, <3>2, <4>1, <4>2, ResumeIndexIs
      <4>5. ResumeIndex(Kept)' = t
        BY <1>1, <1>2, <3>2, LoadedAnchor
      <4>6. \A i \in 1..t : kind[records'[i]] = "named" => records'[i] \in ever
        <5>. SUFFICES ASSUME NEW i \in 1..t, kind[records'[i]] = "named" PROVE records'[i] \in ever
          OBVIOUS
        <5>1. i \in DOMAIN records' /\ t \in Nat
          BY <1>3
        <5>2. PICK u \in DOMAIN records : records'[i] = records[u]
          BY <1>3, <5>1
        <5>3. i = t \/ records'[i] < records'[t]
          BY <1>3, <5>1, SMTT(30) DEF Ascends
        <5>4. u <= p
          <6>1. u \in Nat
            BY <4>2
          <6>2. p < u => records[p] < records[u]
            BY <4>2
          <6>. QED
            BY <4>1, <4>2, <5>2, <5>3, <6>1, <6>2
        <5>5. u \in 1..p
          BY <4>2, <5>4
        <5>. QED
          BY <2>2, <4>3, <5>2, <5>5 DEF Taken
      <4>7. /\ (Kept.anchor <= Len(kind))'
            /\ \A i \in DOMAIN records' : i + Kept'.skip <= Len(records')
            /\ Taken(ResumeIndex(Kept))'
        <5>1. Kept'.anchor = anchor /\ Kept'.skip = 0
          BY <1>1 DEF Kept
        <5>2. Taken(ResumeIndex(Kept))'
          BY <1>1, <4>5, <4>6 DEF Taken
        <5>. QED
          BY <1>1, <1>3, <2>2, <5>1, <5>2
      <4>. QED
        BY <4>7 DEF Covers
    <3>. QED
      BY <3>1, <3>2
  <2>. QED
    BY <1>1, <1>2, <2>1, <2>3 DEF CursorsCover
<1>7. Claims'
  <2>1. Numbered'
    BY <1>1, <1>2, <1>4 DEF Claims, Numbered
  <2>2. OneRecord'
    BY <1>2, <1>4 DEF Claims, OneRecord
  <2>3. /\ \A r : Name(r)' = Name(r)
        /\ \A i, r : Meant(i, r) => Meant(i, r)'
    BY <1>1, <1>4 DEF Name, Meant
  <2>4. DOMAIN claim.names = 1..Len(claim.names) /\ Len(claim.names) \in Nat
    BY <1>2 DEF Typed, ClaimType
  <2>5. ASSUME NEW i \in DOMAIN claim.names, NEW q \in DOMAIN records', claim.names[i] = records'[q],
               NEW j \in i..Len(claim.names)
        PROVE  /\ q + (j - i) \in DOMAIN records'
               /\ \A r : r = records'[q + (j - i)] => claim.names[j] = Name(r) /\ Meant(j, r)
    <3>1. PICK p \in DOMAIN records : records'[q] = records[p]
      BY <1>3
    <3>2. \A l \in i..Len(claim.names) : /\ p + (l - i) \in DOMAIN records
                                         /\ claim.names[l] = Name(records[p + (l - i)])
                                         /\ Meant(l, records[p + (l - i)])
      BY <1>2, <2>5, <3>1 DEF Claims, Ahead
    <3>3. claim.names[i] # None
      BY <1>3, <2>5
    <3>4. \A l \in i..Len(claim.names) : Name(records[p + (l - i)]) # None
      <4>. SUFFICES ASSUME NEW l \in i..Len(claim.names), Name(records[p + (l - i)]) = None PROVE FALSE
        OBVIOUS
      <4>1. p + (l - i) \in DOMAIN records /\ claim.names[l] = None
        BY <3>2
      <4>2. records[p + (l - i)] \in Range(records)
        BY <4>1 DEF Range
      <4>3. l \in DOMAIN claim.names /\ ~(l > 1)
        BY <1>1, <2>4, <4>1, <4>2
      <4>4. l = i
        BY <2>4, <4>3
      <4>. QED
        BY <3>3, <4>1, <4>4
    <3>5. \A m \in 0..(j - i) : p + m \in DOMAIN records /\ Name(records[p + m]) # None
      <4>. SUFFICES ASSUME NEW m \in 0..(j - i) PROVE p + m \in DOMAIN records /\ Name(records[p + m]) # None
        OBVIOUS
      <4>1. i + m \in i..Len(claim.names) /\ p + ((i + m) - i) = p + m
        <5>1. p \in Nat
          BY <1>2, RecordsAre
        <5>. QED
          BY <2>4, <5>1
      <4>. QED
        BY <3>2, <3>4, <4>1
    <3>6. j - i \in Nat
      BY <2>4
    <3>7. q + (j - i) \in DOMAIN records' /\ records'[q + (j - i)] = records[p + (j - i)]
      BY <1>1, <1>2, <3>1, <3>5, <3>6, LoadedRun
    <3>. QED
      BY <3>2, <3>7
  <2>6. Ahead'
    <3>1. claim' = claim
      BY <1>1
    <3>2. ASSUME NEW i \in DOMAIN claim.names, NEW q \in DOMAIN records', claim.names[i] = records'[q],
                 NEW j \in i..Len(claim.names)
          PROVE  /\ q + (j - i) \in DOMAIN records'
                 /\ \A r : r = records'[q + (j - i)] => claim.names[j] = Name(r)' /\ Meant(j, r)'
      BY <2>3, <2>5, <3>2
    <3>. QED
      BY <3>1, <3>2 DEF Ahead
  <2>7. Behind'
    <3>1. claim' = claim
      BY <1>1
    <3>2. \A m \in DOMAIN records' : \A r : r = records'[m] => Name(r)' # None
      BY <1>3, <2>3
    <3>3. ASSUME NEW i \in DOMAIN claim.names, NEW q \in DOMAIN records',
                 NEW d \in 1..(i - 1), q > d
          PROVE  q - 1 \in (q - d)..(q - 1) /\ q - 1 \in DOMAIN records'
      BY <1>3, <2>4, <3>3, SMTT(30)
    <3>. QED
      BY <3>1, <3>2, <3>3 DEF Behind
  <2>. QED
    BY <2>1, <2>2, <2>6, <2>7 DEF Claims
<1>8. PushIsPiece'
  BY <1>4 DEF PushIsPiece
<1>. QED
  BY <1>5, <1>6, <1>7, <1>8 DEF RailInv

-----------------------------------------------------------------------------
(* The theorem.                                                             *)

LEMMA InitRails ==
  ASSUME Init
  PROVE  RailInv
<1>1. /\ records = <<>> /\ kind = <<>> /\ counter = 0 /\ claim = NoClaim /\ anchor = 0
      /\ up = FALSE /\ cursor = NoCursor /\ push = Idle /\ log = {} /\ wire = {}
  BY DEF Init, None
<1>2. <<>> \in Seq(Nat) /\ <<>> \in Seq(AllKinds) /\ <<>> \in Seq(1..Len(kind)) /\ Len(<<>>) = 0
      /\ DOMAIN <<>> = {}
  BY EmptySeq
<1>3. Typed
  <2>1. claim \in ClaimType /\ Len(claim.names) = Len(claim.counters)
    BY <1>1, <1>2 DEF ClaimType, NoClaim
  <2>2. cursor \in CursorType
    BY <1>1 DEF CursorType, NoCursor, None
  <2>3. Ascends(records)
    BY <1>1, <1>2 DEF Ascends
  <2>. QED
    BY <1>1, <1>2, <2>1, <2>2, <2>3 DEF Typed
<1>4. CursorsCover
  <2>1. Covers(NoCursor)
    BY <1>3, NoCursorCovers
  <2>2. Kept = NoCursor
    BY <1>1 DEF Kept, NoCursor, None
  <2>. QED
    BY <1>1, <2>1, <2>2 DEF CursorsCover
<1>5. ~Active
  BY <1>1 DEF Active, Idle
<1>6. Offered = {}
  BY <1>1, <1>5 DEF Offered
<1>7. DOMAIN claim.names = {}
  BY <1>1, <1>2 DEF NoClaim
<1>. QED
  BY <1>3, <1>4, <1>5, <1>6, <1>7 DEF RailInv, PushIsPiece, Claims, Numbered, OneRecord, Ahead, Behind

LEMMA StepRails ==
  ASSUME Tidy, RailInv, [Next]_vars
  PROVE  RailInv'
<1>1. CASE TickBoots
  BY <1>1, BootsQuiet DEF TickBoots
<1>2. CASE TickPolls \/ Restart \/ StartFails \/ SignOut \/ SignIn \/ UNCHANGED vars
  BY <1>2, OthersQuiet
<1>3. CASE PollAnswered
  BY <1>3, PollAnsweredKeeps
<1>4. CASE Pushes
  <2>1. CASE PushUnauthorized
    <3>1. push.pc = "answered"
      BY <2>1 DEF PushUnauthorized
    <3>2. push.attempt \in Nat /\ MaxRetries \in Nat
      BY <3>1, PushFacts, SyncAssumption
    <3>3. push.attempt >= MaxRetries \/ push.attempt < MaxRetries
      BY <3>2
    <3>. QED
      BY <2>1, <3>3, PushEnds, PushWaits
  <2>2. CASE PushHandled
    BY <2>2, PushHandledKeeps
  <2>3. CASE PushDelivered
    BY <2>3, PushDeliveredKeeps
  <2>4. CASE PushConflict
    BY <2>4, PushWaits
  <2>5. CASE PushGivesUp \/ PushRejected
    BY <2>5, PushEnds
  <2>6. CASE PushRetries
    BY <2>6, PushRetriesKeeps
  <2>. QED
    BY <1>4, <2>1, <2>2, <2>3, <2>4, <2>5, <2>6 DEF Pushes
<1>5. CASE PushFails
  BY <1>5, PushFailsKeeps
<1>6. CASE PushAnswerLost
  BY <1>6, PushWaits
<1>7. ASSUME NEW b \in Bootstrap, Boots(b) \/ BootFails(b)
      PROVE  RailInv'
  BY <1>7, BootsQuiet, BootDoneKeeps DEF Boots
<1>8. CASE LateRequest
  BY <1>8, LateRequestKeeps
<1>9. CASE DropRow
  BY <1>9, DropRowKeeps
<1>10. CASE AppendRecord
  BY <1>10, AppendRecordKeeps
<1>11. CASE Compact
  BY <1>11, CompactKeeps
<1>12. CASE Crash
  BY <1>12, CrashKeeps
<1>. QED
  BY <1>1, <1>2, <1>3, <1>4, <1>5, <1>6, <1>7, <1>8, <1>9, <1>10, <1>11, <1>12 DEF Next

LEMMA RailsCover ==
  ASSUME RailInv
  PROVE  NothingSkipped
<1>1. Taken(ResumeIndex(cursor)) /\ Taken(ResumeIndex([anchor |-> anchor, skip |-> 0]))
  BY DEF RailInv, CursorsCover, Covers, Kept
<1>. QED
  BY <1>1 DEF NothingSkipped, Taken

\* The invariant of the rail, from which the promises follow.
THEOREM RailsHold ==
  ASSUME Tidy
  PROVE  Spec => []RailInv
<1>1. Init => RailInv
  BY InitRails
<1>2. RailInv /\ [Next]_vars => RailInv'
  BY StepRails
<1>. QED
  BY <1>1, <1>2, PTL DEF Spec

\* In the sessions Tidy describes, whatever is lost, late, repeated or dropped and
\* however often the process crashes, no cursor passes a named record that the broker
\* did not take (cursor.ts:44-47, session-crypto.ts:165-171).
THEOREM NoRecordIsSteppedOver ==
  ASSUME Tidy
  PROVE  Spec => []NothingSkipped
<1>1. RailInv => NothingSkipped
  BY RailsCover
<1>2. Spec => []RailInv
  BY RailsHold
<1>. QED
  BY <1>1, <1>2, PTL

-----------------------------------------------------------------------------
(* Once.  A record that is offered again has its counter from the claim, so *)
(* the claim must still hold it: for what is not done with, it does.        *)

\* The records that are done with: those before the push, or those the cursor covers.
Done == IF Active THEN push.base ELSE ResumeIndex(IF up THEN cursor ELSE Kept)

KnownRecs == \A x \in Offered : x.rec \in 1..Len(kind)
First == records # <<>> => Name(records[1]) # None
AnchorNamed == anchor # None => Name(anchor) # None
DownQuiet == ~up => push = Idle /\ poll = "none" /\ \A b \in Bootstrap : boots[b].pc = "idle"
SmallClaim ==
  /\ Len(claim.names) <= BatchLimit
  /\ \A i \in DOMAIN claim.names : claim.names[i] # None => kind[claim.names[i]] = "named"
Steady == KnownRecs /\ First /\ AnchorNamed /\ DownQuiet /\ SmallClaim

OneCounter ==
  \A x, y \in Offered : x.rec = y.rec /\ kind[x.rec] = "named" => x.counter = y.counter

\* What was offered and is not done with has its counter in the claim.
Remembered(d) ==
  \A x \in Offered, p \in DOMAIN records : records[p] = x.rec /\ kind[x.rec] = "named" /\ p > d =>
    \E i \in DOMAIN claim.names : claim.names[i] = x.rec /\ claim.counters[i] = x.counter

\* Back from a record the claim knows, the claim and the records agree, until there
\* are only local records between there and what is done with.
Aligned(i, p, m) ==
  /\ m \in DOMAIN records /\ Syncable(records[m])
  /\ i - (p - m) \in DOMAIN claim.names /\ claim.names[i - (p - m)] = Name(records[m])
LinedFrom(e, i, p, d) ==
  /\ p <= e + i
  /\ \A m \in (e + 1)..(p - 1) : Aligned(i, p, m)
  /\ \A m \in (d + 1)..e : ~Syncable(records[m])
Lined(d) ==
  \A i \in DOMAIN claim.names, p \in DOMAIN records : claim.names[i] = records[p] /\ p > d =>
    \E e \in 0..(p - 1) : LinedFrom(e, i, p, d)

\* The anchor is the last named record that is done with.
LastAnchor(d) ==
  \A m \in DOMAIN records : m > ResumeIndex(Kept) /\ m <= d => kind[records[m]] # "named"

Fresh(d) == OneCounter /\ Remembered(d) /\ Lined(d)

Between ==
  Active => /\ ResumeIndex(push.cursor) <= push.base
            /\ \A m \in (ResumeIndex(push.cursor) + 1)..push.base : ~Syncable(records[m])
            /\ push.pc = "sleeping" => cursor = push.cursor

OnceInv ==
  /\ Steady
  /\ ~reseeded => Between /\ \A d : d = Done => Fresh(d) /\ LastAnchor(d)

\* What is done with grows, and the rest stays fresh.
LEMMA FreshLater ==
  ASSUME NEW d \in Nat, NEW n \in Nat, d <= n, Fresh(d), Typed
  PROVE  Fresh(n)
<1>1. \A p \in DOMAIN records : p \in Nat /\ (p > n => p > d)
  BY RecordsAre
<1>2. Remembered(n)
  BY <1>1 DEF Fresh, Remembered
<1>3. Lined(n)
  <2>. SUFFICES ASSUME NEW i \in DOMAIN claim.names, NEW p \in DOMAIN records, claim.names[i] = records[p], p > n
                PROVE  \E e \in 0..(p - 1) : LinedFrom(e, i, p, n)
    BY DEF Lined
  <2>1. PICK e \in 0..(p - 1) : LinedFrom(e, i, p, d)
    BY <1>1 DEF Fresh, Lined
  <2>2. \A m \in (n + 1)..e : m \in (d + 1)..e
    BY <1>1
  <2>3. \A m \in (n + 1)..e : ~Syncable(records[m])
    BY <2>1, <2>2 DEF LinedFrom
  <2>. QED
    BY <2>1, <2>3 DEF LinedFrom
<1>. QED
  BY <1>2, <1>3 DEF Fresh

\* Back over local records as well.
LEMMA FreshBack ==
  ASSUME NEW d \in Nat, NEW n \in Nat, n <= d, Fresh(d), LastAnchor(d), Typed, SmallClaim,
         \A m \in (n + 1)..d : ~Syncable(records[m])
  PROVE  Fresh(n) /\ LastAnchor(n)
<1>1. \A p \in DOMAIN records : p \in Nat /\ records[p] # None
  BY RecordsAre
<1>2. ASSUME NEW p \in DOMAIN records, p > n, kind[records[p]] = "named" PROVE p > d
  <2>1. p <= d => p \in (n + 1)..d
    BY <1>1, <1>2
  <2>. QED
    BY <1>1, <1>2, <2>1 DEF Syncable
<1>3. Remembered(n)
  BY <1>2 DEF Fresh, Remembered
<1>4. Lined(n)
  <2>. SUFFICES ASSUME NEW i \in DOMAIN claim.names, NEW p \in DOMAIN records, claim.names[i] = records[p], p > n
                PROVE  \E e \in 0..(p - 1) : LinedFrom(e, i, p, n)
    BY DEF Lined
  <2>1. p > d
    BY <1>1, <1>2 DEF SmallClaim
  <2>2. PICK e \in 0..(p - 1) : LinedFrom(e, i, p, d)
    BY <2>1 DEF Fresh, Lined
  <2>3. \A m \in (n + 1)..e : m \in (n + 1)..d \/ m \in (d + 1)..e
    BY <1>1
  <2>4. \A m \in (n + 1)..e : ~Syncable(records[m])
    BY <2>2, <2>3 DEF LinedFrom
  <2>. QED
    BY <2>2, <2>4 DEF LinedFrom
<1>5. LastAnchor(n)
  BY <1>1 DEF LastAnchor
<1>. QED
  BY <1>3, <1>4, <1>5 DEF Fresh

\* With nothing else on its way, what is fresh stays so.
LEMMA FreshStays ==
  ASSUME UNCHANGED <<records, kind, claim>>, Offered' \subseteq Offered
  PROVE  \A d : Fresh(d) => Fresh(d)'
<1>. SUFFICES ASSUME NEW d, Fresh(d) PROVE Fresh(d)'
  OBVIOUS
<1>1. OneCounter'
  BY DEF Fresh, OneCounter
<1>2. Remembered(d)'
  BY DEF Fresh, Remembered
<1>3. Lined(d)'
  BY DEF Fresh, Lined, LinedFrom, Aligned, Syncable, Name
<1>. QED
  BY <1>1, <1>2, <1>3 DEF Fresh

LEMMA OnceStays ==
  ASSUME OnceInv, UNCHANGED <<records, kind, claim>>, Offered' \subseteq Offered, DownQuiet',
         anchor' = anchor \/ (reseeded' = TRUE /\ anchor' = None),
         ~reseeded' => ~reseeded /\ Between' /\ \E d : Done' = d /\ Fresh(d) /\ LastAnchor(d)
  PROVE  OnceInv'
<1>1. Steady'
  <2>1. KnownRecs'
    BY DEF OnceInv, Steady, KnownRecs
  <2>2. First'
    BY DEF OnceInv, Steady, First, Name
  <2>3. AnchorNamed'
    BY DEF OnceInv, Steady, AnchorNamed, Name
  <2>4. SmallClaim'
    BY DEF OnceInv, Steady, SmallClaim
  <2>. QED
    BY <2>1, <2>2, <2>3, <2>4 DEF Steady
<1>2. ASSUME ~reseeded' PROVE Between' /\ \A d : d = Done' => Fresh(d)' /\ LastAnchor(d)'
  <2>1. anchor' = anchor /\ Between'
    BY <1>2
  <2>2. PICK d : Done' = d /\ Fresh(d) /\ LastAnchor(d)
    BY <1>2
  <2>3. Fresh(d)'
    BY <2>2, FreshStays
  <2>4. LastAnchor(d)'
    BY <2>1, <2>2 DEF LastAnchor, ResumeIndex, Kept
  <2>. QED
    BY <2>1, <2>2, <2>3, <2>4
<1>. QED
  BY <1>1, <1>2 DEF OnceInv

-----------------------------------------------------------------------------
(* A batch that is offered again.                                           *)

\* The claim lies on a record that is not done with and was offered: back to the
\* batch, if the batch reaches it.
LEMMA OldOfferLies ==
  ASSUME Typed, NEW b, NEW idx \in Nat, Batch(b, idx), Fresh(idx),
         NEW x \in Offered, NEW p \in DOMAIN records, records[p] = x.rec, kind[x.rec] = "named", p > b.before
  PROVE  \E i \in DOMAIN claim.names :
           /\ claim.names[i] = x.rec /\ claim.counters[i] = x.counter /\ p <= b.before + i
           /\ \A m \in (b.before + 1)..(p - 1) : Aligned(i, p, m)
<1>1. /\ b.before \in Nat /\ idx <= b.before /\ Len(b.recs) \in Nat \ {0}
      /\ \A j \in 1..Len(b.recs) : b.before + j \in DOMAIN records
      /\ Syncable(records[b.before + 1])
  <2>1. DOMAIN b.recs = 1..Len(b.recs) /\ Len(b.recs) \in Nat \ {0} /\ b.before \in Nat
        /\ \A j \in 1..Len(b.recs) : b.before + j \in DOMAIN records
    BY BatchIs
  <2>2. 1 \in DOMAIN b.recs
    BY <2>1
  <2>. QED
    BY <2>1, <2>2 DEF Batch
<1>2. p \in Nat /\ \A i \in DOMAIN claim.names : i \in Nat
  BY RecordsAre DEF Typed, ClaimType
<1>3. Fresh(b.before)
  BY <1>1, FreshLater
<1>4. PICK i \in DOMAIN claim.names : claim.names[i] = x.rec /\ claim.counters[i] = x.counter
  BY <1>3 DEF Fresh, Remembered
<1>5. PICK e \in 0..(p - 1) : LinedFrom(e, i, p, b.before)
  BY <1>3, <1>4 DEF Fresh, Lined
<1>6. e <= b.before
  <2>1. e > b.before => b.before + 1 \in (b.before + 1)..e
    BY <1>1, <1>2
  <2>2. b.before + 1 \in (b.before + 1)..e => FALSE
    BY <1>1, <1>5 DEF LinedFrom
  <2>. QED
    BY <1>1, <1>2, <2>1, <2>2
<1>7. p <= b.before + i
  BY <1>1, <1>2, <1>5, <1>6 DEF LinedFrom
<1>8. \A m \in (b.before + 1)..(p - 1) : Aligned(i, p, m)
  <2>1. \A m \in (b.before + 1)..(p - 1) : m \in (e + 1)..(p - 1)
    BY <1>1, <1>2, <1>6
  <2>. QED
    BY <1>5, <2>1 DEF LinedFrom
<1>. QED
  BY <1>4, <1>7, <1>8

\* What was offered before is in the batch with the counter it had.
LEMMA BatchKeepsCounters ==
  ASSUME Typed, Ahead, NEW b, NEW idx \in Nat, Batch(b, idx), Fresh(idx), NEW cf, Keeps(NamesOf(b), cf),
         NEW x \in Offered, NEW j \in 1..Len(b.recs), records[b.before + j] = x.rec, kind[x.rec] = "named"
  PROVE  x.counter = cf.counters[j]
<1>. DEFINE p == b.before + j
            names == NamesOf(b)
            n == Len(b.recs)
            named == {l \in 1..n : names[l] # None}
            f == Min(named)
<1>1. /\ b.before \in Nat /\ n \in Nat /\ names \in Seq(Nat) /\ DOMAIN names = 1..n /\ j \in 1..n
      /\ \A l \in 1..n : /\ b.before + l \in DOMAIN records
                         /\ names[l] = Name(records[b.before + l])
                         /\ names[l] # None => names[l] = records[b.before + l]
  BY BatchIs
<1>2. p \in DOMAIN records /\ p > b.before /\ records[p] = x.rec
  BY <1>1
<1>3. PICK i \in DOMAIN claim.names :
        /\ claim.names[i] = x.rec /\ claim.counters[i] = x.counter /\ p <= b.before + i
        /\ \A m \in (b.before + 1)..(p - 1) : Aligned(i, p, m)
  BY <1>2, OldOfferLies
<1>4. j \in named /\ named \in SUBSET Nat
  <2>1. x.rec # None
    BY <1>2, RecordsAre
  <2>. QED
    BY <1>1, <1>2, <2>1 DEF Name
<1>5. f \in named /\ \A l \in named : f <= l
  BY <1>4, MinIs
<1>6. f \in 1..n /\ names[f] # None /\ f <= j /\ \A l \in 1..(f - 1) : names[l] = None
  <2>1. f \in 1..n /\ names[f] # None /\ f <= j
    BY <1>4, <1>5
  <2>2. ASSUME NEW l \in 1..(f - 1), names[l] # None PROVE FALSE
    <3>. HIDE DEF f, n
    <3>0. n \in Nat /\ f \in 1..n /\ l \in 1..(f - 1)
      BY <1>1, <2>1, <2>2
    <3>1. l \in 1..n /\ ~(f <= l)
      BY ONLY <3>0
    <3>. QED
      BY <1>5, <2>2, <3>1
  <2>. QED
    BY <2>1, <2>2
<1>. HIDE DEF f, named, n
<1>7. i \in Nat /\ j <= i
  <2>1. i \in Nat
    BY DEF Typed, ClaimType
  <2>2. p = b.before + j /\ b.before \in Nat /\ j \in Nat
    <3>1. b.before \in Nat /\ n \in Nat /\ j \in 1..n
      BY ONLY <1>1, Zenon
    <3>2. j \in Nat
      BY ONLY <3>1
    <3>. QED
      BY ONLY <3>1, <3>2, Zenon DEF p
  <2>3. p <= b.before + i
    BY <1>3
  <2>. HIDE DEF p
  <2>. QED
    BY ONLY <2>1, <2>2, <2>3
<1>. DEFINE g == i - (j - f)
<1>8. g \in Nat /\ f <= g /\ g - f + j = i /\ i - (p - (b.before + f)) = g
  <2>1. b.before \in Nat /\ n \in Nat /\ j \in 1..n /\ f \in 1..n /\ f <= j /\ i \in Nat /\ j <= i
    BY ONLY <1>1, <1>6, <1>7, Zenon
  <2>2. p = b.before + j /\ g = i - (j - f)
    BY DEF p, g
  <2>. HIDE DEF p, g
  <2>. QED
    BY ONLY <2>1, <2>2
<1>9. g \in DOMAIN claim.names /\ claim.names[g] = names[f]
  <2>1. CASE f = j
    <3>1. g = i
      BY <1>1, <1>7, <2>1
    <3>. QED
      BY <1>1, <1>2, <1>3, <1>6, <2>1, <3>1
  <2>2. CASE f # j
    <3>1. b.before + f \in (b.before + 1)..(p - 1)
      <4>1. b.before \in Nat /\ n \in Nat /\ j \in 1..n /\ f \in 1..n /\ f <= j
        BY ONLY <1>1, <1>6, Zenon
      <4>. HIDE DEF p
      <4>2. p = b.before + j
        BY DEF p
      <4>. QED
        BY ONLY <4>1, <4>2, <2>2
    <3>2. Aligned(i, p, b.before + f)
      BY <1>3, <3>1
    <3>. QED
      BY <1>1, <1>6, <1>8, <3>2 DEF Aligned
  <2>. QED
    BY <2>1, <2>2
<1>. HIDE DEF g, p
<1>10. \A l \in DOMAIN claim.names : claim.names[l] = names[f] => l = g
  <2>. SUFFICES ASSUME NEW l \in DOMAIN claim.names, claim.names[l] = names[f] PROVE l = g
    OBVIOUS
  <2>. DEFINE q == b.before + f
  <2>1. q \in DOMAIN records /\ claim.names[g] = records[q] /\ claim.names[l] = records[q] /\ q \in Nat
    BY <1>1, <1>6, <1>9, RecordsAre, SMTT(30)
  <2>. HIDE DEF q
  <2>2. l \in Nat
    BY SMTT(30) DEF Typed, ClaimType
  <2>3. g <= l => q + (l - g) = q
    BY <1>9, <2>1, OneLine
  <2>4. l <= g => q + (g - l) = q
    BY <1>9, <2>1, OneLine
  <2>. QED
    BY <1>8, <2>1, <2>2, <2>3, <2>4
<1>11. f \in DOMAIN names /\ j \in DOMAIN names /\ f <= g /\ g - f + j \in DOMAIN claim.names
  BY <1>1, <1>3, <1>6, <1>8
<1>12. cf.counters[j] = claim.counters[g - f + j]
  BY <1>6, <1>9, <1>10, <1>11 DEF Keeps
<1>. QED
  BY <1>3, <1>8, <1>12

\* The batch reaches every record that was offered and is not done with.
LEMMA OldOffersInBatch ==
  ASSUME Typed, SmallClaim, NEW b, NEW idx \in Nat, Batch(b, idx), Fresh(idx),
         NEW x \in Offered, NEW p \in DOMAIN records, records[p] = x.rec, kind[x.rec] = "named", p > b.before
  PROVE  \E j \in 1..Len(b.recs) : p = b.before + j
<1>. DEFINE n == Len(b.recs)
<1>1. /\ b.before \in Nat /\ n \in Nat \ {0} /\ p \in Nat /\ DOMAIN records = 1..Len(records)
      /\ Len(records) \in Nat
  BY BatchIs, RecordsAre
<1>2. PICK i \in DOMAIN claim.names :
        /\ claim.names[i] = x.rec /\ claim.counters[i] = x.counter /\ p <= b.before + i
        /\ \A m \in (b.before + 1)..(p - 1) : Aligned(i, p, m)
  BY OldOfferLies
<1>3. i \in Nat /\ i <= BatchLimit /\ BatchLimit \in Nat
  BY SyncAssumption, SMTT(30) DEF Typed, ClaimType, SmallClaim
<1>. HIDE DEF n
<1>4. p <= b.before + n
  <2>. SUFFICES ASSUME p > b.before + n PROVE FALSE
    BY <1>1
  <2>1. b.before + n # Len(records)
    BY <1>1
  <2>2. Syncable(records[b.before + n + 1])
    <3>1. CASE p = b.before + n + 1
      BY <3>1 DEF Syncable
    <3>2. CASE p # b.before + n + 1
      <4>1. b.before + n + 1 \in (b.before + 1)..(p - 1)
        BY <1>1, <3>2
      <4>. QED
        BY <1>2, <4>1 DEF Aligned
    <3>. QED
      BY <3>1, <3>2
  <2>3. n # BatchLimit
    BY <1>1, <1>2, <1>3
  <2>. QED
    BY <2>1, <2>2, <2>3 DEF Batch, n
<1>5. p - b.before \in 1..n /\ p = b.before + (p - b.before)
  BY <1>1, <1>4
<1>. QED
  BY <1>5 DEF n

\* The records of a batch from its first name on have the counters that the claim
\* has for them afterwards.
LEMMA BatchIsClaimed ==
  ASSUME Typed, Ahead, NEW b, NEW idx \in Nat, Batch(b, idx), NEW cf, NEW k, Tags(NamesOf(b), cf, k),
         NEW j \in 1..Len(b.recs), kind[records[b.before + j]] = "named"
  PROVE  \E i \in DOMAIN cf.claim.names : /\ cf.claim.names[i] = records[b.before + j]
                                          /\ cf.claim.counters[i] = cf.counters[j]
<1>. DEFINE names == NamesOf(b)
            n == Len(b.recs)
<1>1. /\ b.before \in Nat /\ n \in Nat \ {0} /\ Len(names) = n /\ DOMAIN names = 1..n /\ j \in 1..n
      /\ \A l \in 1..n : /\ b.before + l \in DOMAIN records
                         /\ names[l] = Name(records[b.before + l])
                         /\ names[l] # None => names[l] = records[b.before + l]
  BY BatchIs
<1>2. names[j] = records[b.before + j] /\ names[j] # None
  <2>1. records[b.before + j] # None
    BY <1>1, RecordsAre
  <2>. QED
    BY <1>1, <2>1 DEF Name
<1>. HIDE DEF names, n
<1>3. CASE k < n
  <2>1. ~\A i \in DOMAIN names : names[i] = None
    BY <1>1, <1>2
  <2>2. cf.claim = [names |-> names, counters |-> cf.counters]
    BY <1>1, <1>3, <2>1 DEF Tags, names
  <2>3. cf.claim.names = names /\ cf.claim.counters = cf.counters
    BY <2>2
  <2>. QED
    BY <1>1, <1>2, <2>3
<1>4. CASE k = n
  <2>1. cf.claim = claim
    BY <1>1, <1>4 DEF Tags, names
  <2>2. PICK f, i \in Nat : Lies(names, f, i, k) /\ \A l \in 1..k : cf.counters[l] = claim.counters[i - f + l]
    BY <1>1, <1>4 DEF Tags, names
  <2>3. /\ f \in 1..n /\ i \in DOMAIN claim.names /\ f <= i /\ names[f] # None /\ claim.names[i] = names[f]
        /\ \A l \in 1..(f - 1) : names[l] = None
        /\ i - f + j \in DOMAIN claim.names /\ cf.counters[j] = claim.counters[i - f + j]
    BY <1>1, <1>4, <2>2 DEF Lies
  <2>4. f <= j
    <3>1. ~(j \in 1..(f - 1))
      BY <1>2, <2>3
    <3>. QED
      BY <1>1, <2>3, <3>1
  <2>5. claim.names[i] = records[b.before + f] /\ b.before + f \in DOMAIN records
    BY <1>1, <2>3
  <2>6. i - f + j \in i..Len(claim.names) /\ (b.before + f) + ((i - f + j) - i) = b.before + j
    <3>1. DOMAIN claim.names = 1..Len(claim.names) /\ Len(claim.names) \in Nat
      BY DEF Typed, ClaimType
    <3>. QED
      BY <1>1, <2>2, <2>3, <2>4, <3>1, SMTT(30)
  <2>7. claim.names[i - f + j] = Name(records[b.before + j])
    BY <2>3, <2>5, <2>6 DEF Ahead
  <2>. QED
    BY <1>1, <1>2, <2>1, <2>3, <2>7
<1>5. k = n \/ k < n
  BY <1>1 DEF Tags, names
<1>. QED
  BY <1>3, <1>4, <1>5

\* A batch that is offered has known records and the claim stays small.
LEMMA BatchSteady ==
  ASSUME Typed, Steady, NEW b, NEW idx \in Nat, Batch(b, idx), NEW cf, NEW k, Tags(NamesOf(b), cf, k),
         claim' = cf.claim, UNCHANGED <<records, kind>>,
         \A x \in Offered' : \/ x \in Offered
                             \/ \E j \in 1..Len(b.recs) : /\ x.counter = cf.counters[j]
                                                          /\ x.rec = records[b.before + j]
  PROVE  KnownRecs' /\ SmallClaim'
<1>. DEFINE n == Len(b.recs)
            B == b.before
            names == NamesOf(b)
            Now(x, j) == x.counter = cf.counters[j] /\ x.rec = records[B + j]
<1>1. /\ B \in Nat /\ n \in Nat \ {0} /\ idx <= B /\ n <= BatchLimit
      /\ Len(names) = n /\ DOMAIN names = 1..n
      /\ \A j \in 1..n : /\ B + j \in DOMAIN records /\ Syncable(records[B + j])
                         /\ names[j] = Name(records[B + j])
                         /\ names[j] # None => names[j] = records[B + j]
  <2>1. DOMAIN b.recs = 1..n /\ names \in Seq(Nat)
    BY BatchIs
  <2>2. idx <= B /\ n <= BatchLimit /\ \A j \in 1..n : Syncable(records[B + j])
    BY <2>1 DEF Batch
  <2>3. /\ B \in Nat /\ n \in Nat \ {0} /\ Len(names) = n /\ DOMAIN names = 1..n
        /\ \A j \in 1..n : /\ B + j \in DOMAIN records
                           /\ names[j] = Name(records[B + j])
                           /\ names[j] # None => names[j] = records[B + j]
    BY BatchIs
  <2>. QED
    BY <2>2, <2>3
<1>2. /\ \A p \in DOMAIN records : p \in Nat /\ records[p] # None /\ records[p] \in 1..Len(kind)
                                   /\ kind[records[p]] \in AllKinds
      /\ \A p, q \in DOMAIN records : records[p] = records[q] => p = q
  BY RecordsAre
<1>3. KnownRecs /\ SmallClaim
  BY DEF Steady
<1>4. \A x \in Offered' : x \in Offered \/ \E j \in 1..n : Now(x, j)
  OBVIOUS
<1>. HIDE DEF n, B
<1>5. \/ cf.claim = claim
      \/ cf.claim = [names |-> names, counters |-> cf.counters]
      \/ cf.claim = NoClaim
  BY DEF Tags
<1>6. KnownRecs'
  BY <1>1, <1>2, <1>3, <1>4 DEF KnownRecs
<1>7. SmallClaim'
  <2>1. CASE cf.claim = claim
    BY <1>3, <2>1 DEF SmallClaim
  <2>2. CASE cf.claim = [names |-> names, counters |-> cf.counters]
    <3>. HIDE DEF names
    <3>1. claim'.names = names
      BY <2>2
    <3>2. \A i \in 1..n : names[i] # None => kind[names[i]] = "named"
      BY <1>1, <1>2 DEF Name, Syncable, AllKinds
    <3>. QED
      BY <1>1, <3>1, <3>2 DEF SmallClaim
  <2>3. CASE cf.claim = NoClaim
    BY <2>3, SyncAssumption DEF NoClaim, SmallClaim
  <2>. QED
    BY <1>5, <2>1, <2>2, <2>3
<1>. QED
  BY <1>6, <1>7

\* A batch that is offered leaves what is not done with fresh.
LEMMA BatchFresh ==
  ASSUME Typed, Ahead, Steady, NEW b, NEW idx \in Nat, Batch(b, idx), Fresh(idx),
         NEW cf, NEW k, Tags(NamesOf(b), cf, k), Keeps(NamesOf(b), cf),
         claim' = cf.claim, UNCHANGED <<records, kind>>,
         \A x \in Offered' : \/ x \in Offered
                             \/ \E j \in 1..Len(b.recs) : /\ x.counter = cf.counters[j]
                                                          /\ x.rec = records[b.before + j]
  PROVE  \A d : d = b.before => Fresh(d)'
<1>. DEFINE n == Len(b.recs)
            B == b.before
            names == NamesOf(b)
            Now(x, j) == x.counter = cf.counters[j] /\ x.rec = records[B + j]
<1>1. /\ B \in Nat /\ n \in Nat \ {0} /\ idx <= B /\ n <= BatchLimit
      /\ Len(names) = n /\ DOMAIN names = 1..n
      /\ \A j \in 1..n : /\ B + j \in DOMAIN records /\ Syncable(records[B + j])
                         /\ names[j] = Name(records[B + j])
                         /\ names[j] # None => names[j] = records[B + j]
  <2>1. DOMAIN b.recs = 1..n /\ names \in Seq(Nat)
    BY BatchIs
  <2>2. idx <= B /\ n <= BatchLimit /\ \A j \in 1..n : Syncable(records[B + j])
    BY <2>1 DEF Batch
  <2>3. /\ B \in Nat /\ n \in Nat \ {0} /\ Len(names) = n /\ DOMAIN names = 1..n
        /\ \A j \in 1..n : /\ B + j \in DOMAIN records
                           /\ names[j] = Name(records[B + j])
                           /\ names[j] # None => names[j] = records[B + j]
    BY BatchIs
  <2>. QED
    BY <2>2, <2>3
<1>2. /\ \A p \in DOMAIN records : p \in Nat /\ records[p] # None /\ records[p] \in 1..Len(kind)
                                   /\ kind[records[p]] \in AllKinds
      /\ \A p, q \in DOMAIN records : records[p] = records[q] => p = q
  BY RecordsAre
<1>3. KnownRecs /\ SmallClaim
  BY DEF Steady
<1>4. \A x \in Offered, j \in 1..n : x.rec = records[B + j] /\ kind[x.rec] = "named" => x.counter = cf.counters[j]
  BY BatchKeepsCounters
<1>5. \A x \in Offered' : x \in Offered \/ \E j \in 1..n : Now(x, j)
  OBVIOUS
<1>. HIDE DEF n, B
<1>6. OneCounter'
  <2>. SUFFICES ASSUME NEW x \in Offered', NEW y \in Offered', x.rec = y.rec, kind[x.rec] = "named"
                PROVE  x.counter = y.counter
    BY DEF OneCounter
  <2>1. CASE x \in Offered /\ y \in Offered
    BY <2>1 DEF Fresh, OneCounter
  <2>2. ASSUME x \in Offered, NEW j \in 1..n, Now(y, j) PROVE x.counter = y.counter
    BY <1>4, <2>2
  <2>3. ASSUME y \in Offered, NEW j \in 1..n, Now(x, j) PROVE x.counter = y.counter
    BY <1>4, <2>3
  <2>4. ASSUME NEW i \in 1..n, Now(x, i), NEW j \in 1..n, Now(y, j) PROVE x.counter = y.counter
    <3>1. B + i = B + j
      BY <1>1, <1>2, <2>4
    <3>2. i = j
      BY <1>1, <3>1
    <3>. QED
      BY <2>4, <3>2
  <2>. QED
    BY <1>5, <2>1, <2>2, <2>3, <2>4
<1>7. \A d : d = B => Remembered(d)'
  <2>. SUFFICES ASSUME NEW x \in Offered', NEW p \in DOMAIN records, records[p] = x.rec,
                       kind[x.rec] = "named", p > B
                PROVE  \E i \in DOMAIN cf.claim.names :
                         cf.claim.names[i] = x.rec /\ cf.claim.counters[i] = x.counter
    BY DEF Remembered
  <2>1. \E j \in 1..n : Now(x, j)
    <3>1. CASE x \in Offered
      <4>1. PICK j \in 1..n : p = B + j
        BY <1>3, <3>1, OldOffersInBatch DEF B, n
      <4>. QED
        BY <1>4, <3>1, <4>1
    <3>. QED
      BY <1>5, <3>1
  <2>2. PICK j \in 1..n : Now(x, j)
    BY <2>1
  <2>3. kind[records[B + j]] = "named"
    BY <2>2
  <2>4. \E i \in DOMAIN cf.claim.names : /\ cf.claim.names[i] = records[B + j]
                                         /\ cf.claim.counters[i] = cf.counters[j]
    BY <2>3, BatchIsClaimed DEF B, n
  <2>. QED
    BY <2>2, <2>4
<1>8. \/ cf.claim = claim
      \/ cf.claim = [names |-> names, counters |-> cf.counters]
      \/ cf.claim = NoClaim
  BY DEF Tags
<1>9. \A d : d = B => Lined(d)'
  <2>. SUFFICES ASSUME NEW i \in DOMAIN claim'.names, NEW p \in DOMAIN records, claim'.names[i] = records[p], p > B
                PROVE  \E e \in 0..(p - 1) : \A d : d = B => LinedFrom(e, i, p, d)'
    BY DEF Lined
  <2>1. CASE cf.claim = claim
    <3>1. Lined(B)
      BY <1>1, FreshLater DEF Fresh
    <3>2. PICK e \in 0..(p - 1) : LinedFrom(e, i, p, B)
      BY <2>1, <3>1 DEF Lined
    <3>3. \A d : d = B => LinedFrom(e, i, p, d)'
      BY <2>1, <3>2 DEF LinedFrom, Aligned, Syncable, Name
    <3>. QED
      BY <3>3
  <2>2. CASE cf.claim = [names |-> names, counters |-> cf.counters]
    <3>. HIDE DEF names
    <3>1. claim'.names = names
      BY <2>2
    <3>2. i \in 1..n /\ names[i] = records[p] /\ p \in Nat
      BY <1>1, <1>2, <3>1
    <3>3. p = B + i
      BY <1>1, <1>2, <3>2
    <3>4. ASSUME NEW m \in (B + 1)..(p - 1) PROVE Aligned(i, p, m)'
      <4>1. m - B \in 1..n /\ i - (p - m) = m - B /\ B + (m - B) = m
        BY <1>1, <3>2, <3>3
      <4>2. m \in DOMAIN records /\ Syncable(records[m]) /\ m - B \in DOMAIN names /\ names[m - B] = Name(records[m])
        BY <1>1, <4>1
      <4>. QED
        BY <3>1, <4>1, <4>2 DEF Aligned, Syncable, Name
    <3>5. B \in 0..(p - 1) /\ p <= B + i
      BY <1>1, <3>2, <3>3
    <3>6. \A m \in (B + 1)..B : FALSE
      BY <1>1
    <3>7. \A d : d = B => LinedFrom(B, i, p, d)'
      BY <3>4, <3>5, <3>6 DEF LinedFrom
    <3>. QED
      BY <3>5, <3>7
  <2>3. CASE cf.claim = NoClaim
    BY <2>3 DEF NoClaim
  <2>. QED
    BY <1>8, <2>1, <2>2, <2>3
<1>. QED
  BY <1>6, <1>7, <1>9 DEF Fresh, B

\* A push that goes on, after everything before idx was done with.
LEMMA GoOnOnce ==
  ASSUME RailInv, Steady, NEW idx \in Nat, NEW c \in CursorType, ResumeIndex(c) = idx, NEW attempt \in Nat,
         GoOn(idx, c, attempt), UNCHANGED <<records, kind, log, wire, reseeded>>, up' = TRUE,
         AnchorNamed', ~reseeded => Fresh(idx) /\ \A d : d = idx => LastAnchor(d)'
  PROVE  OnceInv'
<1>1. Typed /\ Ahead /\ KnownRecs /\ First /\ SmallClaim
  BY DEF RailInv, Claims, Steady
<1>2. First' /\ DownQuiet'
  BY <1>1 DEF First, DownQuiet, Name
<1>3. CASE push' = Idle /\ cursor' = c /\ UNCHANGED <<counter, claim>>
  <2>1. ~Active'
    BY <1>3 DEF Active, Idle
  <2>2. Offered' \subseteq Offered
    BY <2>1 DEF Offered
  <2>3. KnownRecs' /\ SmallClaim'
    BY <1>1, <1>3, <2>2 DEF KnownRecs, SmallClaim
  <2>4. Done' = idx
    BY <1>3, <2>1 DEF Done, ResumeIndex
  <2>5. ASSUME ~reseeded PROVE \A d : d = idx => Fresh(d)' /\ LastAnchor(d)'
    BY <1>3, <2>2, <2>5, FreshStays
  <2>. QED
    BY <1>2, <2>1, <2>3, <2>4, <2>5 DEF OnceInv, Steady, Between
<1>4. CASE Sends(idx, c, attempt)
  <2>1. PICK b, cf, k : SendsBatch(b, cf, k, idx, c)
    BY <1>1, <1>4, SendsIs
  <2>2. /\ Batch(b, idx) /\ Tags(NamesOf(b), cf, k) /\ Keeps(NamesOf(b), cf) /\ claim' = cf.claim
        /\ push'.pc = "sent" /\ push'.base = b.before /\ push'.cursor = c
        /\ \A x \in Offered' : \/ x \in Offered
                               \/ \E j \in 1..Len(b.recs) : /\ x.counter = cf.counters[j]
                                                            /\ x.rec = records[b.before + j]
    BY <2>1 DEF SendsBatch
  <2>3. KnownRecs' /\ SmallClaim'
    BY <1>1, <2>2, BatchSteady
  <2>4. Active' /\ Done' = b.before
    BY <2>2 DEF Active, Done
  <2>5. /\ idx <= b.before /\ b.before \in Nat
        /\ \A m \in (idx + 1)..b.before : ~Syncable(records[m])
    BY <2>2 DEF Batch
  <2>6. Between'
    <3>1. ResumeIndex(push.cursor)' = idx
      BY <2>2 DEF ResumeIndex
    <3>. QED
      BY <2>2, <2>5, <3>1 DEF Between, Syncable
  <2>7. ASSUME ~reseeded PROVE \A d : d = b.before => Fresh(d)' /\ LastAnchor(d)'
    <3>1. \A d : d = b.before => Fresh(d)'
      BY <1>1, <2>2, <2>7, BatchFresh
    <3>2. \A m \in DOMAIN records : m \in Nat
      BY <1>1, RecordsAre
    <3>3. \A d : d = idx => \A m \in DOMAIN records : m > ResumeIndex(Kept)' /\ m <= d => kind[records[m]] # "named"
      BY <2>7 DEF LastAnchor
    <3>4. ASSUME NEW m \in DOMAIN records, m > ResumeIndex(Kept)', m <= b.before PROVE kind[records[m]] # "named"
      <4>1. m <= idx \/ m \in (idx + 1)..b.before
        BY <2>5, <3>2, <3>4
      <4>. QED
        BY <2>5, <3>3, <3>4, <4>1 DEF Syncable
    <3>5. \A d : d = b.before => LastAnchor(d)'
      BY <3>4 DEF LastAnchor
    <3>. QED
      BY <3>1, <3>5
  <2>. QED
    BY <1>2, <2>3, <2>4, <2>6, <2>7 DEF OnceInv, Steady
<1>. QED
  BY <1>1, <1>3, <1>4, GoOnIs

-----------------------------------------------------------------------------
(* The steps.                                                               *)

\* Only a process that runs has something under way.
LEMMA BusyIsUp ==
  ASSUME RailInv, OnceInv, push # Idle \/ poll # "none" \/ \E b \in Bootstrap : boots[b].pc # "idle"
  PROVE  up = TRUE
BY DEF RailInv, Typed, OnceInv, Steady, DownQuiet

LEMMA DoneIs ==
  ASSUME RailInv
  PROVE  /\ Done \in Nat /\ Done <= Len(records) /\ Kept \in CursorType
         /\ ResumeIndex(Kept) \in Nat /\ ResumeIndex(cursor) \in Nat
         /\ Active => Done = push.base
         /\ ~Active /\ up = TRUE => Done = ResumeIndex(cursor)
<1>1. Typed /\ Len(records) \in Nat /\ cursor \in CursorType /\ Kept \in CursorType
  BY RecordsAre DEF RailInv, Typed, Kept, CursorType
<1>2. ResumeIndex(Kept) \in 0..Len(records) /\ ResumeIndex(cursor) \in 0..Len(records)
  BY <1>1, ResumeIndexIs
<1>3. Active => push.base \in Nat /\ push.base <= Len(records)
  <2>. SUFFICES ASSUME Active PROVE push.base \in Nat /\ push.base <= Len(records)
    OBVIOUS
  <2>1. push \in PushType
    BY <1>1, ActiveIs DEF Typed
  <2>2. push.base \in Nat /\ Len(push.todo) \in Nat /\ push.base + Len(push.todo) <= Len(records)
    BY <2>1 DEF PushType, RailInv, PushIsPiece
  <2>. QED
    BY <1>1, <2>2
<1>. QED
  BY <1>1, <1>2, <1>3 DEF Done

\* Steps the push does not notice.
LEMMA QuietOnce ==
  ASSUME OnceInv, UNCHANGED <<records, kind, claim, push, log, wire>>, DownQuiet',
         \/ reseeded' = TRUE /\ (anchor' = anchor \/ anchor' = None)
         \/ UNCHANGED <<reseeded, anchor, cursor, up>>
  PROVE  OnceInv'
<1>1. Offered' \subseteq Offered
  BY DEF Offered, Active
<1>2. CASE reseeded' = TRUE
  BY <1>1, <1>2, OnceStays
<1>3. CASE UNCHANGED <<reseeded, anchor, cursor, up>>
  <2>1. Done' = Done /\ (Between => Between')
    BY <1>3 DEF Done, Between, Active, ResumeIndex, Kept, Syncable
  <2>. QED
    BY <1>1, <1>3, <2>1, OnceStays DEF OnceInv
<1>. QED
  BY <1>2, <1>3

LEMMA BootsOnce ==
  ASSUME RailInv, OnceInv, NEW b \in Bootstrap,
         \/ BootStart(b) /\ up = TRUE
         \/ BootProbe(b) \/ BootRegister(b) \/ BootRegistered(b) \/ BootShares(b) \/ BootFails(b) \/ BootRefused(b)
  PROVE  OnceInv'
<1>1. /\ UNCHANGED <<records, kind, claim, push, log, wire, up>>
      /\ \/ reseeded' = TRUE /\ anchor' = None
         \/ UNCHANGED <<reseeded, anchor, cursor>>
  BY DEF BootStart, TryBootstrap, BootProbe, BootRegister, BootRegistered, BootShares, BootFails, BootRefused,
         StopDeleted, file, memory, broker
<1>2. up = TRUE
  <2>1. (BootStart(b) /\ up = TRUE) \/ boots[b].pc # "idle"
    BY DEF BootProbe, BootRegister, BootRegistered, BootShares, BootFails, BootRefused
  <2>. QED
    BY <2>1, BusyIsUp
<1>3. DownQuiet'
  BY <1>1, <1>2 DEF DownQuiet
<1>. QED
  BY <1>1, <1>3, QuietOnce

LEMMA OthersOnce ==
  ASSUME RailInv, OnceInv, TickPolls \/ Restart \/ StartFails \/ SignOut \/ SignIn \/ UNCHANGED vars
  PROVE  OnceInv'
<1>1. UNCHANGED <<records, kind, claim, push, log, wire, reseeded, anchor>>
  BY DEF TickPolls, Restart, StartFails, SignOut, SignIn, vars, file, memory, tasks, broker
<1>2. CASE Restart
  <2>1. /\ ~up /\ up' = TRUE /\ cursor' = Kept
    BY <1>2 DEF Restart, Kept
  <2>2. push = Idle /\ ~Active
    BY <2>1 DEF OnceInv, Steady, DownQuiet, Active, Idle
  <2>3. ~Active'
    BY <1>1, <2>2 DEF Active
  <2>4. Done' = Done
    BY <1>1, <2>1, <2>2, <2>3 DEF Done, ResumeIndex
  <2>5. DownQuiet' /\ Between' /\ Offered' \subseteq Offered
    BY <1>1, <2>1, <2>3 DEF DownQuiet, Between, Offered, Active
  <2>. QED
    BY <1>1, <2>4, <2>5, OnceStays DEF OnceInv
<1>3. CASE TickPolls
  <2>1. UNCHANGED <<cursor, up>> /\ up
    BY <1>3 DEF TickPolls, Ticking, memory
  <2>. QED
    BY <1>1, <2>1, QuietOnce DEF DownQuiet
<1>4. CASE StartFails \/ SignOut \/ SignIn \/ UNCHANGED vars
  <2>1. UNCHANGED <<cursor, up, poll, boots>>
    BY <1>4 DEF StartFails, SignOut, SignIn, vars, memory, tasks
  <2>. QED
    BY <1>1, <2>1, QuietOnce DEF DownQuiet, OnceInv, Steady
<1>. QED
  BY <1>2, <1>3, <1>4

LEMMA LastAnchorStays ==
  ASSUME UNCHANGED <<records, kind, anchor>>
  PROVE  /\ \A d : LastAnchor(d) => LastAnchor(d)'
         /\ AnchorNamed => AnchorNamed'
BY DEF LastAnchor, ResumeIndex, Kept, AnchorNamed, Name

LEMMA PushOutgoingOnce ==
  ASSUME RailInv, OnceInv, PushOutgoing, up = TRUE,
         UNCHANGED <<records, kind, anchor, up, log, wire, reseeded>>
  PROVE  OnceInv'
<1>1. CASE UNCHANGED <<push, cursor, counter, claim>>
  BY <1>1, QuietOnce DEF DownQuiet
<1>2. CASE push = Idle /\ GoOn(ResumeIndex(cursor), cursor, 0)
  <2>1. ~Active
    BY <1>2 DEF Active, Idle
  <2>2. /\ ResumeIndex(cursor) \in Nat /\ Done = ResumeIndex(cursor) /\ cursor \in CursorType
    BY <2>1, DoneIs, CursorsOk
  <2>3. ~reseeded => Fresh(Done) /\ LastAnchor(Done)
    BY DEF OnceInv
  <2>4. Steady /\ AnchorNamed'
    BY LastAnchorStays DEF OnceInv, Steady
  <2>5. ~reseeded => \A d : d = Done => LastAnchor(d)'
    BY <2>3, LastAnchorStays
  <2>. QED
    BY <1>2, <2>2, <2>3, <2>4, <2>5, GoOnOnce
<1>. QED
  BY <1>1, <1>2 DEF PushOutgoing

LEMMA BootDoneOnce ==
  ASSUME RailInv, OnceInv, NEW b \in Bootstrap, BootDone(b)
  PROVE  OnceInv'
<1>1. PushOutgoing /\ UNCHANGED <<records, kind, anchor, up, log, wire, reseeded>> /\ boots[b].pc = "greet"
  BY DEF BootDone, broker
<1>2. up = TRUE
  BY <1>1, BusyIsUp
<1>. QED
  BY <1>1, <1>2, PushOutgoingOnce

LEMMA PollAnsweredOnce ==
  ASSUME RailInv, OnceInv, PollAnswered
  PROVE  OnceInv'
<1>1. poll # "none" /\ UNCHANGED <<records, kind, up, log, wire>>
  BY DEF PollAnswered, broker
<1>2. up = TRUE
  BY <1>1, BusyIsUp
<1>3. DownQuiet'
  BY <1>1, <1>2 DEF DownQuiet
<1>4. \/ PushOutgoing /\ UNCHANGED <<anchor, reseeded>>
      \/ UNCHANGED <<push, claim>> /\ reseeded' = TRUE /\ anchor' = None
      \/ UNCHANGED <<push, claim, anchor, cursor, reseeded>>
  BY DEF PollAnswered, Reseed
<1>5. CASE PushOutgoing /\ UNCHANGED <<anchor, reseeded>>
  BY <1>1, <1>2, <1>5, PushOutgoingOnce
<1>. QED
  BY <1>1, <1>3, <1>4, <1>5, QuietOnce

\* A push whose state alone changes.
LEMMA SamePushOnce ==
  ASSUME RailInv, OnceInv, push.pc \in {"sent", "answered", "sleeping"},
         UNCHANGED <<records, kind, claim, anchor, up, reseeded>>, Offered' \subseteq Offered,
         push'.pc \in {"sent", "answered", "sleeping"}, push'.base = push.base, push'.cursor = push.cursor,
         push'.pc = "sleeping" => cursor' = push.cursor
  PROVE  OnceInv'
<1>0. push # Idle
  BY DEF Idle
<1>1. up = TRUE
  BY <1>0, BusyIsUp
<1>2. Active /\ Active' /\ DownQuiet'
  BY <1>1 DEF Active, DownQuiet
<1>3. Done' = Done /\ (Between => Between')
  BY <1>2 DEF Done, Between, ResumeIndex, Syncable
<1>. QED
  BY <1>2, <1>3, OnceStays DEF OnceInv

LEMMA PushHandledOnce ==
  ASSUME RailInv, OnceInv, PushHandled
  PROVE  OnceInv'
<1>1. /\ push.pc = "sent" /\ push' = [push EXCEPT !.pc = "answered", !.answer = Verdict(Request)]
      /\ Take(Request) /\ UNCHANGED <<records, kind, claim, anchor, up, reseeded, wire>>
  BY DEF PushHandled, file, memory
<1>2. push \in PushType /\ Range(Request) \subseteq Offered /\ Range(Request) \subseteq OfferType /\ Active
  BY <1>1, PushFacts
<1>3. push'.pc = "answered" /\ push'.base = push.base /\ push'.todo = push.todo /\ push'.cursor = push.cursor
  BY <1>1, <1>2 DEF PushType
<1>4. \A x \in log' : x \in Offered
  BY <1>1, <1>2, TakeIs
<1>5. Offered' \subseteq Offered
  BY <1>1, <1>2, <1>3, <1>4 DEF Offered, Active
<1>. QED
  BY <1>1, <1>3, <1>5, SamePushOnce

LEMMA PushFailsOnce ==
  ASSUME RailInv, OnceInv, PushFails
  PROVE  OnceInv'
<1>1. /\ push.pc = "sent" /\ \E answer : push' = [push EXCEPT !.pc = "answered", !.answer = answer]
      /\ wire' \in {wire, wire \union {Request}}
      /\ UNCHANGED <<records, kind, claim, anchor, up, reseeded, log>>
  BY DEF PushFails, file, memory
<1>2. push \in PushType /\ Range(Request) \subseteq Offered /\ Active
  BY <1>1, PushFacts
<1>3. push'.pc = "answered" /\ push'.base = push.base /\ push'.todo = push.todo /\ push'.cursor = push.cursor
  BY <1>1, <1>2 DEF PushType
<1>4. \A rows \in wire' : Range(rows) \subseteq Offered
  BY <1>1, <1>2, OffersAre
<1>5. Offered' \subseteq Offered
  BY <1>1, <1>2, <1>3, <1>4 DEF Offered, Active
<1>. QED
  BY <1>1, <1>3, <1>5, SamePushOnce

LEMMA PushWaitsOnce ==
  ASSUME RailInv, OnceInv, PushAnswerLost \/ PushConflict \/ (PushUnauthorized /\ push.attempt < MaxRetries)
  PROVE  OnceInv'
<1>1. push.pc = "answered" /\ UNCHANGED <<records, kind, claim, anchor, up, reseeded, log, wire>>
  BY DEF PushAnswerLost, PushConflict, PushUnauthorized, file, memory, broker
<1>2. push \in PushType /\ Active
  BY <1>1, PushFacts
<1>3. /\ push'.pc \in {"sent", "answered", "sleeping"} /\ push'.base = push.base
      /\ push'.todo = push.todo /\ push'.cursor = push.cursor
      /\ push'.pc = "sleeping" => cursor' = push.cursor
  <2>1. CASE PushAnswerLost
    BY <1>1, <1>2, <2>1 DEF PushAnswerLost, PushType
  <2>2. CASE PushConflict
    BY <2>2 DEF PushConflict, Send
  <2>3. CASE PushUnauthorized /\ push.attempt < MaxRetries
    <3>1. ~(push.attempt >= MaxRetries)
      BY <1>2, <2>3, SyncAssumption DEF PushType
    <3>2. push' = [push EXCEPT !.pc = "sleeping"] /\ cursor' = push.cursor
      BY <2>3, <3>1 DEF PushUnauthorized
    <3>. QED
      BY <1>2, <3>2 DEF PushType
  <2>. QED
    BY <2>1, <2>2, <2>3
<1>4. Offered' \subseteq Offered
  BY <1>1, <1>2, <1>3 DEF Offered, Active
<1>. QED
  BY <1>1, <1>3, <1>4, SamePushOnce

\* What the cursor of a push does not cover is fresh too.
LEMMA CursorFresh ==
  ASSUME RailInv, OnceInv, Active, ~reseeded
  PROVE  /\ ResumeIndex(push.cursor) \in Nat
         /\ Fresh(ResumeIndex(push.cursor)) /\ LastAnchor(ResumeIndex(push.cursor))
<1>1. Typed /\ SmallClaim /\ Between
  BY DEF RailInv, OnceInv, Steady
<1>2. push \in PushType
  BY <1>1, ActiveIs DEF Typed
<1>3. ResumeIndex(push.cursor) \in Nat
  <2>1. push.cursor \in CursorType
    BY <1>2 DEF PushType
  <2>2. ResumeIndex(push.cursor) \in 0..Len(records) /\ Len(records) \in Nat
    BY <1>1, <2>1, ResumeIndexIs, RecordsAre
  <2>. QED
    BY <2>2
<1>4. Done = push.base /\ push.base \in Nat
  BY <1>2, DoneIs DEF PushType
<1>5. Fresh(push.base) /\ LastAnchor(push.base)
  BY <1>4 DEF OnceInv
<1>6. /\ ResumeIndex(push.cursor) <= push.base
      /\ \A m \in (ResumeIndex(push.cursor) + 1)..push.base : ~Syncable(records[m])
  BY <1>1 DEF Between
<1>. QED
  BY <1>1, <1>3, <1>4, <1>5, <1>6, FreshBack

\* A push that ends: the next one starts from its cursor.
LEMMA EndedPushOnce ==
  ASSUME RailInv, OnceInv, push.pc \in {"answered", "sleeping"},
         UNCHANGED <<records, kind, claim, up, log, wire>>, push' = Idle,
         \/ reseeded' = TRUE /\ anchor' = None
         \/ UNCHANGED <<anchor, reseeded>> /\ (~reseeded => cursor' = push.cursor)
  PROVE  OnceInv'
<1>1. Active /\ push # Idle /\ ~Active'
  BY DEF Active, Idle
<1>2. up = TRUE /\ up' = TRUE
  BY <1>1, BusyIsUp
<1>3. DownQuiet' /\ Between'
  BY <1>1, <1>2 DEF DownQuiet, Between
<1>4. Offered' \subseteq Offered
  BY <1>1 DEF Offered
<1>5. ASSUME ~reseeded, UNCHANGED <<anchor, reseeded>>, cursor' = push.cursor
      PROVE  \E d : Done' = d /\ Fresh(d) /\ LastAnchor(d)
  <2>1. Done' = ResumeIndex(push.cursor)
    BY <1>1, <1>2, <1>5 DEF Done, ResumeIndex
  <2>. QED
    BY <1>1, <1>5, <2>1, CursorFresh
<1>6. CASE reseeded' = TRUE /\ anchor' = None
  BY <1>3, <1>4, <1>6, OnceStays
<1>7. CASE UNCHANGED <<anchor, reseeded>> /\ (~reseeded => cursor' = push.cursor)
  <2>1. ~reseeded' => ~reseeded /\ \E d : Done' = d /\ Fresh(d) /\ LastAnchor(d)
    BY <1>5, <1>7
  <2>. QED
    BY <1>3, <1>4, <1>7, <2>1, OnceStays
<1>. QED
  BY <1>6, <1>7

LEMMA PushEndsOnce ==
  ASSUME RailInv, OnceInv,
         PushGivesUp \/ PushRejected \/ (PushUnauthorized /\ push.attempt >= MaxRetries)
  PROVE  OnceInv'
<1>1. push.pc = "answered" /\ push' = Idle /\ UNCHANGED <<records, kind, claim, up, log, wire>>
  BY DEF PushGivesUp, PushRejected, PushUnauthorized, file, broker
<1>2. \/ reseeded' = TRUE /\ anchor' = None
      \/ UNCHANGED <<anchor, reseeded>> /\ cursor' = push.cursor
  BY DEF PushGivesUp, PushRejected, PushUnauthorized, Reseed, StopDeleted, file
<1>. QED
  BY <1>1, <1>2, EndedPushOnce

LEMMA PushRetriesOnce ==
  ASSUME RailInv, OnceInv, PushRetries
  PROVE  OnceInv'
<1>1. push.pc = "sleeping" /\ UNCHANGED <<records, kind, anchor, up, log, wire, reseeded>>
  BY DEF PushRetries, broker
<1>2. Active /\ push # Idle
  BY <1>1 DEF Active, Idle
<1>3. up = TRUE /\ up' = TRUE
  BY <1>1, <1>2, BusyIsUp
<1>4. ~reseeded => cursor = push.cursor
  BY <1>1, <1>2 DEF OnceInv, Between
<1>5. CASE push' = Idle /\ UNCHANGED <<cursor, claim>>
  BY <1>1, <1>4, <1>5, EndedPushOnce
<1>6. CASE GoOn(ResumeIndex(cursor), cursor, push.attempt + 1)
  <2>1. cursor \in CursorType /\ ResumeIndex(cursor) \in Nat
    BY CursorsOk
  <2>2. push.attempt + 1 \in Nat
    BY <1>1, PushFacts
  <2>3. ~reseeded => Fresh(ResumeIndex(cursor)) /\ LastAnchor(ResumeIndex(cursor))
    BY <1>2, <1>4, CursorFresh
  <2>4. Steady /\ AnchorNamed'
    BY <1>1, LastAnchorStays DEF OnceInv, Steady
  <2>5. ~reseeded => \A d : d = ResumeIndex(cursor) => LastAnchor(d)'
    BY <1>1, <2>3, LastAnchorStays
  <2>. QED
    BY <1>1, <1>3, <1>6, <2>1, <2>2, <2>3, <2>4, <2>5, GoOnOnce
<1>. QED
  BY <1>5, <1>6 DEF PushRetries

LEMMA LateRequestOnce ==
  ASSUME RailInv, OnceInv, LateRequest
  PROVE  OnceInv'
<1>1. PICK rows \in wire : /\ wire' = wire \ {rows} /\ Take(rows)
                           /\ UNCHANGED <<records, kind, claim, anchor, cursor, up, reseeded, push, boots, poll>>
  BY DEF LateRequest, file, memory, tasks
<1>2. Range(rows) \subseteq Offered /\ Range(rows) \subseteq OfferType
  BY OffersAre
<1>3. \A x \in log' : x \in Offered
  BY <1>1, <1>2, TakeIs
<1>4. Offered' \subseteq Offered
  BY <1>1, <1>3 DEF Offered, Active
<1>5. DownQuiet' /\ Done' = Done /\ (Between => Between')
  BY <1>1 DEF DownQuiet, OnceInv, Steady, Done, Between, Active, ResumeIndex, Kept, Syncable
<1>. QED
  BY <1>1, <1>4, <1>5, OnceStays DEF OnceInv

LEMMA DropRowOnce ==
  ASSUME RailInv, OnceInv, DropRow
  PROVE  OnceInv'
<1>1. log' = {} /\ UNCHANGED <<records, kind, claim, anchor, cursor, up, reseeded, push, boots, poll, wire>>
  BY DEF DropRow, file, memory, tasks
<1>2. Offered' \subseteq Offered
  BY <1>1 DEF Offered, Active
<1>3. DownQuiet' /\ Done' = Done /\ (Between => Between')
  BY <1>1 DEF DownQuiet, OnceInv, Steady, Done, Between, Active, ResumeIndex, Kept, Syncable
<1>. QED
  BY <1>1, <1>2, <1>3, OnceStays DEF OnceInv

\* The cursor after a delivery leads to what was sent, and the anchor is its last name.
LEMMA DeliveredAnchor ==
  ASSUME RailInv, OnceInv, push.pc = "answered", NEW sent, NEW c, Delivered(sent, c),
         UNCHANGED <<records, kind>>
  PROVE  /\ ResumeIndex(c) = sent /\ AnchorNamed'
         /\ ~reseeded => \A d : d = sent => LastAnchor(d)'
<1>1. /\ sent \in Nat /\ push.base < sent /\ sent <= Len(records) /\ Taken(sent)
      /\ c = CursorThrough(sent, push.cursor) /\ c \in CursorType
      /\ anchor' = IF c.anchor = push.cursor.anchor THEN anchor ELSE c.anchor
  BY DEF Delivered
<1>2. Typed /\ First /\ AnchorNamed /\ (~reseeded => Between)
  BY DEF RailInv, OnceInv, Steady
<1>3. push.cursor \in CursorType /\ Covers(push.cursor) /\ Active /\ push.base \in Nat
  BY PushFacts
<1>4. /\ Len(records) \in Nat /\ DOMAIN records = 1..Len(records)
      /\ \A p \in DOMAIN records : p \in Nat /\ records[p] \in Nat /\ records[p] # None
      /\ \A p, q \in DOMAIN records : records[p] = records[q] => p = q
  BY <1>2, RecordsAre
<1>5. /\ ResumeIndex(c) = sent
      /\ \E p \in 1..sent : /\ c.anchor = records[p] /\ Name(records[p]) # None
                            /\ \A i \in (p + 1)..sent : Name(records[i]) = None
  <2>1. 1 \in 1..sent /\ records # <<>>
    BY <1>1, <1>3, <1>4
  <2>2. Name(records[1]) # None
    BY <1>2, <2>1 DEF First
  <2>. QED
    BY <1>1, <1>2, <1>3, <2>1, <2>2, CursorThroughIs
<1>6. PICK p \in 1..sent : /\ c.anchor = records[p] /\ Name(records[p]) # None
                           /\ \A i \in (p + 1)..sent : Name(records[i]) = None
  BY <1>5
<1>7. p \in DOMAIN records /\ p \in Nat
  BY <1>1, <1>4
<1>8. AnchorNamed'
  BY <1>1, <1>2, <1>6 DEF AnchorNamed, Name
<1>9. ASSUME ~reseeded, NEW m \in DOMAIN records, m > ResumeIndex(Kept)', m <= sent
      PROVE  kind[records[m]] # "named"
  <2>1. m > p => kind[records[m]] # "named"
    <3>. SUFFICES ASSUME m > p PROVE Name(records[m]) = None
      BY <1>4 DEF Name
    <3>1. m \in (p + 1)..sent
      BY <1>1, <1>4, <1>7, <1>9
    <3>. QED
      BY <1>6, <3>1
  <2>2. CASE c.anchor # push.cursor.anchor
    <3>1. anchor' = records[p]
      BY <1>1, <1>6, <2>2
    <3>2. Kept' = [anchor |-> records[p], skip |-> 0]
      BY <3>1 DEF Kept
    <3>3. ResumeIndex([anchor |-> records[p], skip |-> 0]) = p
      <4>1. [anchor |-> records[p], skip |-> 0] \in CursorType
        BY <1>4, <1>7 DEF CursorType
      <4>2. p + 0 <= Len(records) /\ p + 0 = p
        BY <1>1, <1>4, <1>7
      <4>. QED
        BY <1>2, <1>7, <4>1, <4>2, ResumeIndexIs
    <3>4. ResumeIndex(Kept)' = p
      BY <3>2, <3>3 DEF ResumeIndex
    <3>. QED
      BY <1>4, <1>7, <1>9, <2>1, <3>4
  <2>3. CASE c.anchor = push.cursor.anchor
    <3>1. anchor' = anchor
      BY <1>1, <2>3
    <3>2. ResumeIndex(Kept)' = ResumeIndex(Kept)
      BY <3>1 DEF ResumeIndex, Kept
    <3>3. p <= push.base
      <4>1. ResumeIndex(push.cursor) <= push.base
        BY <1>2, <1>3, <1>9 DEF Between
      <4>2. ResumeIndex(push.cursor) = IF p + push.cursor.skip <= Len(records) THEN p + push.cursor.skip ELSE Len(records)
        BY <1>2, <1>3, <1>6, <1>7, <2>3, ResumeIndexIs
      <4>3. push.cursor.skip \in Nat
        BY <1>3 DEF CursorType
      <4>. QED
        BY <1>1, <1>3, <1>4, <1>7, <4>1, <4>2, <4>3
    <3>4. LastAnchor(push.base)
      BY <1>3, <1>9, DoneIs DEF OnceInv
    <3>5. m <= push.base => kind[records[m]] # "named"
      BY <1>9, <3>2, <3>4 DEF LastAnchor
    <3>. QED
      BY <1>3, <1>4, <1>7, <2>1, <3>3, <3>5
  <2>. QED
    BY <2>2, <2>3
<1>10. ~reseeded => \A d : d = sent => LastAnchor(d)'
  BY <1>9 DEF LastAnchor
<1>. QED
  BY <1>5, <1>8, <1>10

LEMMA PushDeliveredOnce ==
  ASSUME RailInv, OnceInv, PushDelivered
  PROVE  OnceInv'
<1>1. PICK sent, c : Delivered(sent, c)
  BY DeliveredIs
<1>2. push.pc = "answered" /\ UNCHANGED <<records, kind, up, log, wire, reseeded, boots, poll>>
  BY DEF PushDelivered, broker
<1>3. push.attempt \in Nat /\ Active /\ push.base \in Nat /\ push # Idle
  BY <1>2, PushFacts DEF Active, Idle
<1>4. /\ ResumeIndex(c) = sent /\ AnchorNamed'
      /\ ~reseeded => \A d : d = sent => LastAnchor(d)'
  BY <1>1, <1>2, DeliveredAnchor
<1>5. up = TRUE /\ up' = TRUE
  BY <1>2, <1>3, BusyIsUp
<1>6. sent \in Nat /\ push.base < sent /\ c \in CursorType
  BY <1>1 DEF Delivered
<1>7. ~reseeded => Fresh(sent)
  <2>. SUFFICES ASSUME ~reseeded PROVE Fresh(sent)
    OBVIOUS
  <2>1. Fresh(push.base) /\ Typed
    BY <1>3, DoneIs DEF OnceInv, RailInv
  <2>2. push.base <= sent
    BY <1>3, <1>6
  <2>. QED
    BY <1>3, <1>6, <2>1, <2>2, FreshLater
<1>8. Steady
  BY DEF OnceInv
<1>9. CASE GoOn(sent, c, push.attempt)
  BY <1>2, <1>3, <1>4, <1>5, <1>6, <1>7, <1>8, <1>9, GoOnOnce
<1>10. CASE ~GoOn(sent, c, push.attempt)
  <2>1. /\ claim' = claim /\ Offered' \subseteq Offered
        /\ push'.pc = "sent" /\ push'.base = sent /\ push'.cursor = c
    BY <1>1, <1>10 DEF Delivered
  <2>2. Active' /\ Done' = sent
    BY <2>1 DEF Active, Done
  <2>3. Steady'
    <3>1. KnownRecs' /\ SmallClaim' /\ First' /\ DownQuiet'
      BY <1>2, <1>5, <1>8, <2>1 DEF Steady, KnownRecs, SmallClaim, First, Name, DownQuiet
    <3>. QED
      BY <1>4, <3>1 DEF Steady
  <2>4. Between'
    <3>1. ResumeIndex(push.cursor)' = sent
      BY <1>2, <1>4, <2>1 DEF ResumeIndex
    <3>2. \A m \in (sent + 1)..sent : FALSE
      BY <1>6
    <3>. QED
      BY <1>6, <2>1, <3>1, <3>2 DEF Between
  <2>5. ~reseeded => \A d : d = sent => Fresh(d)'
    BY <1>2, <1>7, <2>1, FreshStays
  <2>. QED
    BY <1>2, <1>4, <2>2, <2>3, <2>4, <2>5 DEF OnceInv
<1>. QED
  BY <1>9, <1>10

\* The next record was not offered and no claim knows it.
LEMMA AppendOnce ==
  ASSUME Tidy, RailInv, OnceInv, AppendRecord
  PROVE  OnceInv'
<1>. DEFINE N == Len(records)
            K == Len(kind)
<1>1. Typed /\ KnownRecs /\ First /\ AnchorNamed /\ DownQuiet /\ SmallClaim
  BY DEF RailInv, OnceInv, Steady
<1>2. /\ UNCHANGED <<claim, anchor, up, cursor, push, boots, poll, wire, log, reseeded>>
      /\ N \in Nat /\ DOMAIN records = 1..N /\ K \in Nat
      /\ \A p \in 1..N : records[p] \in 1..K /\ records'[p] = records[p]
      /\ \A r \in 1..K : kind'[r] = kind[r] /\ Name(r)' = Name(r)
      /\ Len(kind') = K + 1 /\ records'[N + 1] = K + 1
      /\ DOMAIN records' = 1..(N + 1) /\ \A p \in 1..(N + 1) : p \in 1..N \/ p = N + 1
  BY <1>1, AppendIs
<1>3. Offered' = Offered /\ Active' = Active
  BY <1>2 DEF Offered, Active
<1>4. /\ \A x \in Offered : x.rec \in 1..K
      /\ \A i \in DOMAIN claim.names : claim.names[i] \in 0..K
  BY <1>1 DEF KnownRecs, RailInv, Claims, Numbered
<1>. HIDE DEF N, K
<1>5. \A x \in Offered, p \in 1..(N + 1) : records'[p] = x.rec => p \in 1..N /\ records[p] = x.rec
  BY <1>2, <1>4
<1>6. \A i \in DOMAIN claim.names, p \in 1..(N + 1) :
        claim.names[i] = records'[p] => p \in 1..N /\ claim.names[i] = records[p]
  BY <1>2, <1>4
<1>7. /\ \A c : c = cursor => ResumeIndex(c)' = ResumeIndex(c)
      /\ \A c : c = Kept => ResumeIndex(c)' = ResumeIndex(c)
      /\ Active => \A c : c = push.cursor => ResumeIndex(c)' = ResumeIndex(c)
  <2>1. cursor \in CursorType /\ Covers(cursor) /\ Kept \in CursorType /\ Covers(Kept)
    BY CursorsOk, DoneIs DEF RailInv, CursorsCover
  <2>2. Active => push.cursor \in CursorType /\ Covers(push.cursor)
    BY <1>1, ActiveIs DEF Typed, PushType, RailInv, PushIsPiece
  <2>. QED
    BY <1>1, <2>1, <2>2, AppendResume
<1>8. Done' = Done /\ ResumeIndex(Kept)' = ResumeIndex(Kept)
  <2>1. ResumeIndex(cursor)' = ResumeIndex(cursor)
    BY <1>2, <1>7 DEF ResumeIndex
  <2>2. ResumeIndex(Kept)' = ResumeIndex(Kept)
    BY <1>2, <1>7 DEF ResumeIndex, Kept
  <2>3. Done' = IF Active THEN push.base ELSE IF up THEN ResumeIndex(cursor)' ELSE ResumeIndex(Kept)'
    BY <1>2, <1>3 DEF Done, ResumeIndex, Kept
  <2>. QED
    BY <2>1, <2>2, <2>3 DEF Done
<1>9. Done \in Nat /\ Done <= N
  BY DoneIs DEF N
<1>10. Steady'
  <2>1. KnownRecs'
    BY <1>2, <1>3, <1>4 DEF KnownRecs
  <2>2. First'
    <3>1. CASE records = <<>>
      <4>1. PICK k \in Kinds[K + 1] : kind' = Append(kind, k) /\ (Tidy /\ k = "unnamed" => records # <<>>)
        BY <1>1, AppendIs DEF K
      <4>2. kind'[K + 1] = k
        <5>1. kind \in Seq(AllKinds \cup {k})
          BY <1>1, SeqMonotonic DEF Typed
        <5>. QED
          BY <4>1, <5>1, AppendProperties DEF K
      <4>3. N = 0
        BY <3>1 DEF N
      <4>4. \A r : r = records'[1] => r = K + 1 /\ Name(r)' # None
        BY <1>2, <3>1, <4>1, <4>2, <4>3 DEF Name, None
      <4>. QED
        BY <4>4 DEF First
    <3>2. CASE records # <<>>
      <4>1. N # 0
        BY <1>1, <3>2, EmptySeq DEF N, Typed
      <4>2. 1 \in 1..N
        BY <1>2, <4>1
      <4>3. \A r : r = records'[1] => Name(r)' # None
        BY <1>1, <1>2, <3>2, <4>2 DEF First
      <4>. QED
        BY <4>3 DEF First
    <3>. QED
      BY <3>1, <3>2
  <2>3. AnchorNamed'
    <3>1. anchor # None => anchor \in 1..K
      BY <1>1, <1>2 DEF RailInv, CursorsCover, Covers, Kept, Typed, None, K
    <3>2. \A r : r = anchor /\ r # None => Name(r)' # None
      BY <1>1, <1>2, <3>1 DEF AnchorNamed
    <3>. QED
      BY <1>2, <3>2 DEF AnchorNamed
  <2>4. DownQuiet'
    BY <1>1, <1>2 DEF DownQuiet
  <2>5. SmallClaim'
    BY <1>1, <1>2, <1>4 DEF SmallClaim, None
  <2>. QED
    BY <2>1, <2>2, <2>3, <2>4, <2>5 DEF Steady
<1>11. Between => Between'
  <2>. SUFFICES ASSUME Between, Active PROVE Between'
    BY <1>3 DEF Between
  <2>1. ResumeIndex(push.cursor)' = ResumeIndex(push.cursor)
    BY <1>2, <1>7 DEF ResumeIndex
  <2>2. push.base = Done /\ ResumeIndex(push.cursor) \in Nat
    <3>1. push.cursor \in CursorType
      BY <1>1, ActiveIs DEF Typed, PushType
    <3>2. ResumeIndex(push.cursor) \in 0..Len(records)
      BY <1>1, <3>1, ResumeIndexIs
    <3>. QED
      BY <1>2, <3>2, DoneIs DEF N
  <2>3. \A m \in (ResumeIndex(push.cursor) + 1)..push.base : m \in 1..N
    BY <1>2, <1>9, <2>2
  <2>4. \A m \in 1..N : records'[m] = records[m] /\ kind'[records[m]] = kind[records[m]]
    BY <1>2
  <2>. QED
    BY <1>2, <2>1, <2>3, <2>4 DEF Between, Syncable
<1>12. Fresh(Done) => \A d : d = Done => Fresh(d)'
  <2>. SUFFICES ASSUME NEW d \in Nat, d <= N, Fresh(d) PROVE Fresh(d)'
    BY <1>9
  <2>1. \A x \in Offered : kind'[x.rec] = kind[x.rec]
    BY <1>2, <1>4
  <2>2. OneCounter'
    BY <1>3, <2>1 DEF Fresh, OneCounter
  <2>3. Remembered(d)'
    BY <1>2, <1>3, <1>5, <2>1 DEF Fresh, Remembered
  <2>4. Lined(d)'
    <3>. SUFFICES ASSUME NEW i \in DOMAIN claim.names, NEW p \in 1..(N + 1), claim.names[i] = records'[p], p > d
                  PROVE  \E e \in 0..(p - 1) : LinedFrom(e, i, p, d)'
      BY <1>2 DEF Lined
    <3>1. p \in 1..N /\ claim.names[i] = records[p]
      BY <1>6
    <3>2. PICK e \in 0..(p - 1) : LinedFrom(e, i, p, d)
      BY <1>2, <3>1 DEF Fresh, Lined
    <3>3. \A m \in 1..N : /\ records'[m] = records[m] /\ kind'[records[m]] = kind[records[m]]
                          /\ \A r : r = records'[m] => Name(r)' = Name(records[m])
      BY <1>2
    <3>4. \A m \in (e + 1)..(p - 1) : m \in 1..N
      BY <1>2, <3>1
    <3>5. \A m \in (d + 1)..e : m \in 1..N
      BY <1>2, <3>1
    <3>6. ASSUME NEW m \in (e + 1)..(p - 1) PROVE Aligned(i, p, m)'
      <4>1. m \in 1..N /\ Aligned(i, p, m)
        BY <3>2, <3>4 DEF LinedFrom
      <4>2. i - (p - m) \in DOMAIN claim.names /\ claim.names[i - (p - m)] = Name(records[m]) /\ Syncable(records[m])
        BY <4>1 DEF Aligned
      <4>3. m \in DOMAIN records' /\ Syncable(records[m])'
        BY <1>2, <3>3, <4>1, <4>2 DEF Syncable
      <4>4. \A r : r = records'[m] => Name(r)' = Name(records[m])
        BY <3>3, <4>1
      <4>5. claim' = claim
        BY <1>2
      <4>. QED
        BY <4>2, <4>3, <4>4, <4>5 DEF Aligned
    <3>7. \A m \in (d + 1)..e : ~Syncable(records[m])'
      BY <3>2, <3>3, <3>5 DEF LinedFrom, Syncable
    <3>8. LinedFrom(e, i, p, d)'
      BY <3>2, <3>6, <3>7 DEF LinedFrom
    <3>. QED
      BY <3>8
  <2>. QED
    BY <2>2, <2>3, <2>4 DEF Fresh
<1>13. LastAnchor(Done) => \A d : d = Done => LastAnchor(d)'
  <2>1. \A m \in 1..N : records'[m] = records[m] /\ kind'[records[m]] = kind[records[m]]
    BY <1>2
  <2>2. \A m \in 1..(N + 1) : m <= Done => m \in 1..N
    BY <1>2, <1>9
  <2>. QED
    BY <1>2, <1>8, <2>1, <2>2 DEF LastAnchor
<1>. QED
  BY <1>2, <1>8, <1>10, <1>11, <1>12, <1>13 DEF OnceInv

\* A compaction takes every record away that was offered.
LEMMA CompactOnce ==
  ASSUME Tidy, RailInv, OnceInv, Compact
  PROVE  OnceInv'
<1>. DEFINE K == Len(kind)
<1>1. /\ kind' = Append(kind, "local") /\ records' = <<K + 1>> /\ push = Idle
      /\ UNCHANGED <<claim, anchor, up, push, boots, poll, wire, log>>
  BY DEF Compact, file, memory, tasks, broker
<1>2. Typed /\ KnownRecs /\ AnchorNamed /\ DownQuiet /\ SmallClaim /\ K \in Nat
  BY RecordsAre DEF RailInv, OnceInv, Steady
<1>3. Len(kind') = K + 1 /\ kind'[K + 1] = "local" /\ \A r \in 1..K : kind'[r] = kind[r]
  <2>1. kind \in Seq(AllKinds) /\ "local" \in AllKinds
    BY <1>2 DEF Typed, AllKinds
  <2>. QED
    BY <1>1, <2>1, AppendProperties
<1>4. DOMAIN records' = {1} /\ records'[1] = K + 1
  BY <1>1, <1>2
<1>5. Offered' = Offered /\ ~Active'
  BY <1>1 DEF Offered, Active, Idle
<1>6. /\ \A x \in Offered : x.rec \in 1..K
      /\ \A i \in DOMAIN claim.names : claim.names[i] \in 0..K
  BY <1>2 DEF KnownRecs, RailInv, Claims, Numbered
<1>. HIDE DEF K
<1>7. Steady'
  <2>1. KnownRecs'
    BY <1>2, <1>3, <1>5, <1>6 DEF KnownRecs
  <2>2. First'
    BY <1>2, <1>3, <1>4 DEF First, Name, None
  <2>3. AnchorNamed'
    <3>1. anchor # None => anchor \in 1..K
      BY <1>2 DEF RailInv, CursorsCover, Covers, Kept, Typed, None, K
    <3>. QED
      BY <1>1, <1>2, <1>3, <3>1 DEF AnchorNamed, Name
  <2>4. DownQuiet' /\ SmallClaim'
    BY <1>1, <1>2, <1>3, <1>6 DEF DownQuiet, SmallClaim, None
  <2>. QED
    BY <2>1, <2>2, <2>3, <2>4 DEF Steady
<1>8. ASSUME ~reseeded PROVE \A d : Fresh(d)' /\ LastAnchor(d)'
  <2>1. OneCounter
    BY <1>8 DEF OnceInv, Fresh
  <2>2. OneCounter'
    BY <1>3, <1>5, <1>6, <2>1 DEF OneCounter
  <2>3. \A d : Remembered(d)'
    <3>1. \A x \in Offered : x.rec # K + 1
      BY <1>2, <1>6
    <3>. QED
      BY <1>4, <1>5, <3>1 DEF Remembered
  <2>4. \A d : Lined(d)'
    <3>1. \A i \in DOMAIN claim.names : claim.names[i] # K + 1
      BY <1>2, <1>6
    <3>. QED
      BY <1>1, <1>4, <3>1 DEF Lined
  <2>5. \A d : LastAnchor(d)'
    BY <1>3, <1>4 DEF LastAnchor
  <2>. QED
    BY <2>2, <2>3, <2>4, <2>5 DEF Fresh
<1>9. Between' /\ reseeded' = reseeded
  BY <1>5 DEF Between, Compact
<1>. QED
  BY <1>7, <1>8, <1>9 DEF OnceInv

\* Where the anchor that was loaded leads to: what is loaded after it came after it.
LEMMA LoadedAfter ==
  ASSUME Typed, AnchorNamed, records' \in Loaded, anchor' = anchor,
         NEW q \in DOMAIN records', q > ResumeIndex(Kept)',
         NEW p \in DOMAIN records, records'[q] = records[p]
  PROVE  p > ResumeIndex(Kept)
<1>1. /\ Ascends(records') /\ DOMAIN records' = 1..Len(records') /\ Len(records') \in Nat
      /\ \A t \in DOMAIN records' : records'[t] \in Nat
      /\ \A m \in DOMAIN records : Name(records[m]) # None => \E t \in DOMAIN records' : records'[t] = records[m]
  BY LoadedIs
<1>2. /\ \A m \in DOMAIN records : m \in Nat /\ records[m] # None /\ m >= 1
      /\ \A m, n \in DOMAIN records : records[m] < records[n] => m < n
      /\ Kept \in CursorType /\ Kept.anchor = anchor /\ Kept.skip = 0 /\ Len(records) \in Nat
      /\ DOMAIN records = 1..Len(records)
  BY RecordsAre DEF Typed, Kept, CursorType
<1>3. CASE \A m \in DOMAIN records : records[m] # anchor
  <2>1. ResumeIndex(Kept) = 0
    BY <1>2, <1>3, ResumeIndexIs
  <2>. QED
    BY <1>2, <2>1
<1>4. ASSUME NEW m \in DOMAIN records, records[m] = anchor PROVE p > ResumeIndex(Kept)
  <2>1. ResumeIndex(Kept) = m
    <3>1. m + Kept.skip = m /\ m <= Len(records)
      BY <1>2
    <3>. QED
      BY <1>2, <1>4, <3>1, ResumeIndexIs
  <2>2. PICK t \in DOMAIN records' : records'[t] = anchor
    BY <1>1, <1>2, <1>4 DEF AnchorNamed
  <2>3. ResumeIndex(Kept)' = t
    BY <2>2, LoadedAnchor
  <2>4. records'[t] < records'[q]
    BY <1>1, <2>3 DEF Ascends
  <2>5. records[m] < records[p]
    BY <1>4, <2>2, <2>4
  <2>. QED
    BY <1>2, <2>1, <2>5
<1>. QED
  BY <1>3, <1>4

\* No claim that survives a crash has a record without a name between two others.
NoGap ==
  \A r \in Range(records) : Name(r) = None => ~\E i \in DOMAIN claim.names : i > 1 /\ claim.names[i] = None

\* From e on, back from p, the records and the claim agree and have names.
NamedFrom(e, i, p, d) ==
  /\ p <= e + i
  /\ \A m \in (e + 1)..(p - 1) : Aligned(i, p, m) /\ Name(records[m]) # None
  /\ \A m \in (d + 1)..e : Name(records[m]) # None => ~Syncable(records[m])

LEMMA NoGapNames ==
  ASSUME Typed, NoGap, NEW d \in Nat, NEW i \in DOMAIN claim.names, NEW p \in DOMAIN records,
         NEW e \in 0..(p - 1), LinedFrom(e, i, p, d)
  PROVE  \E f \in 0..(p - 1) : NamedFrom(f, i, p, d)
<1>1. i \in Nat /\ p \in Nat /\ \A j \in DOMAIN claim.names : j \in Nat /\ j >= 1
  <2>1. DOMAIN claim.names = 1..Len(claim.names) /\ Len(claim.names) \in Nat
    BY DEF Typed, ClaimType
  <2>. QED
    BY <2>1, RecordsAre
<1>2. ASSUME NEW m \in (e + 1)..(p - 1), Name(records[m]) = None PROVE m = e + 1
  <2>1. Aligned(i, p, m) /\ p <= e + i
    BY <1>2 DEF LinedFrom
  <2>2. /\ m \in DOMAIN records /\ i - (p - m) \in DOMAIN claim.names
        /\ claim.names[i - (p - m)] = None
    BY <1>2, <2>1 DEF Aligned
  <2>3. records[m] \in Range(records)
    BY <2>2 DEF Range
  <2>4. ~(i - (p - m) > 1)
    BY <1>2, <2>2, <2>3 DEF NoGap
  <2>. QED
    BY <1>1, <2>1, <2>2, <2>4
<1>3. CASE \A m \in (e + 1)..(p - 1) : Name(records[m]) # None
  BY <1>3 DEF LinedFrom, NamedFrom
<1>4. ASSUME NEW m \in (e + 1)..(p - 1), Name(records[m]) = None
      PROVE  \E f \in 0..(p - 1) : NamedFrom(f, i, p, d)
  <2>. DEFINE f == e + 1
  <2>1. m = f /\ f \in 0..(p - 1) /\ p <= f + i /\ f \in Nat
    BY <1>1, <1>2, <1>4 DEF LinedFrom
  <2>2. ASSUME NEW n \in (f + 1)..(p - 1) PROVE Aligned(i, p, n) /\ Name(records[n]) # None
    <3>1. n \in (e + 1)..(p - 1) /\ n # e + 1
      BY <1>1
    <3>. QED
      BY <1>2, <3>1 DEF LinedFrom
  <2>3. ASSUME NEW n \in (d + 1)..f, Name(records[n]) # None PROVE ~Syncable(records[n])
    <3>1. n \in (d + 1)..e
      BY <1>1, <1>4, <2>1, <2>3
    <3>. QED
      BY <3>1 DEF LinedFrom
  <2>. HIDE DEF f
  <2>4. NamedFrom(f, i, p, d)
    BY <2>1, <2>2, <2>3 DEF NamedFrom
  <2>. QED
    BY <2>1, <2>4
<1>. QED
  BY <1>3, <1>4

\* What was lined up still is when the records are loaded again.
LEMMA LoadedLined ==
  ASSUME Typed, SmallClaim, AnchorNamed, NoGap, records' \in Loaded, UNCHANGED <<kind, claim, anchor>>,
         NEW d \in Nat, Lined(d), LastAnchor(d),
         NEW i \in DOMAIN claim.names, NEW q \in DOMAIN records', claim.names[i] = records'[q],
         q > ResumeIndex(Kept)'
  PROVE  \E e \in 0..(q - 1) : \A n : n = ResumeIndex(Kept)' => LinedFrom(e, i, q, n)'
<1>1. /\ Ascends(records') /\ DOMAIN records' = 1..Len(records') /\ Len(records') \in Nat
      /\ \A t \in DOMAIN records' : /\ records'[t] \in Nat /\ records'[t] # None /\ Name(records'[t]) # None
                                    /\ \E p \in DOMAIN records : records'[t] = records[p]
      /\ \A p \in DOMAIN records : Name(records[p]) # None => \E t \in DOMAIN records' : records'[t] = records[p]
      /\ \A t, u \in DOMAIN records' : records'[t] < records'[u] => t < u
  BY LoadedIs
<1>2. /\ \A m \in DOMAIN records : m \in Nat /\ records[m] \in Nat /\ kind[records[m]] \in AllKinds
      /\ \A m, n \in DOMAIN records : records[m] < records[n] => m < n
      /\ DOMAIN records = 1..Len(records) /\ Len(records) \in Nat /\ i \in Nat
  BY RecordsAre DEF Typed, ClaimType
<1>3. PICK p \in DOMAIN records : records'[q] = records[p]
  BY <1>1
<1>4. p > d
  <2>1. p > ResumeIndex(Kept)
    BY <1>3, LoadedAfter
  <2>2. kind[records[p]] = "named"
    BY <1>1, <1>3 DEF SmallClaim
  <2>. QED
    BY <1>2, <2>1, <2>2 DEF LastAnchor
<1>5. PICK f \in 0..(p - 1) : NamedFrom(f, i, p, d)
  <2>1. PICK e \in 0..(p - 1) : LinedFrom(e, i, p, d)
    BY <1>3, <1>4 DEF Lined
  <2>. QED
    BY <2>1, NoGapNames
<1>6. f \in Nat /\ p \in Nat /\ f + 1 <= p /\ p - (f + 1) \in Nat
  BY <1>2
<1>7. \A m \in 0..(p - (f + 1)) : (f + 1) + m \in DOMAIN records /\ Name(records[(f + 1) + m]) # None
  <2>. SUFFICES ASSUME NEW m \in 0..(p - (f + 1))
                PROVE  (f + 1) + m \in DOMAIN records /\ Name(records[(f + 1) + m]) # None
    OBVIOUS
  <2>1. (f + 1) + m \in 1..p /\ ((f + 1) + m = p \/ (f + 1) + m \in (f + 1)..(p - 1))
    BY <1>6
  <2>2. (f + 1) + m \in DOMAIN records
    BY <1>2, <2>1
  <2>. QED
    BY <1>1, <1>3, <1>5, <2>1, <2>2 DEF NamedFrom
<1>8. f + 1 \in DOMAIN records /\ Name(records[f + 1]) # None
  <2>1. 0 \in 0..(p - (f + 1)) /\ (f + 1) + 0 = f + 1
    BY <1>6
  <2>. QED
    BY <1>7, <2>1
<1>9. PICK t \in DOMAIN records' : records'[t] = records[f + 1]
  BY <1>1, <1>8
<1>10. \A n \in 0..(p - (f + 1)) : t + n \in DOMAIN records' /\ records'[t + n] = records[(f + 1) + n]
  <2>. SUFFICES ASSUME NEW n \in 0..(p - (f + 1))
                PROVE  t + n \in DOMAIN records' /\ records'[t + n] = records[(f + 1) + n]
    OBVIOUS
  <2>1. n \in Nat /\ \A m \in 0..n : m \in 0..(p - (f + 1))
    BY <1>6
  <2>2. \A m \in 0..n : (f + 1) + m \in DOMAIN records /\ Name(records[(f + 1) + m]) # None
    BY <1>7, <2>1
  <2>. QED
    BY <1>8, <1>9, <2>1, <2>2, LoadedRun
<1>11. t \in Nat /\ t >= 1 /\ q \in Nat /\ q = t + (p - (f + 1))
  <2>1. p - (f + 1) \in 0..(p - (f + 1)) /\ (f + 1) + (p - (f + 1)) = p
    BY <1>6
  <2>2. t + (p - (f + 1)) \in DOMAIN records' /\ records'[t + (p - (f + 1))] = records'[q]
    BY <1>3, <1>10, <2>1
  <2>3. \A u, v \in DOMAIN records' : records'[u] = records'[v] => u = v
    <3>. SUFFICES ASSUME NEW u \in DOMAIN records', NEW v \in DOMAIN records', records'[u] = records'[v], u # v
                  PROVE  FALSE
      OBVIOUS
    <3>1. u < v \/ v < u
      BY <1>1
    <3>2. records'[u] < records'[v] \/ records'[v] < records'[u]
      BY <1>1, <3>1 DEF Ascends
    <3>3. records'[u] \in Nat /\ records'[v] \in Nat
      BY <1>1
    <3>. QED
      BY <3>2, <3>3
  <2>. QED
    BY <1>1, <2>2, <2>3
<1>. DEFINE e == t - 1
<1>12. e \in 0..(q - 1) /\ q <= e + i
  BY <1>2, <1>5, <1>6, <1>11 DEF NamedFrom
<1>13. ASSUME NEW m \in (e + 1)..(q - 1) PROVE Aligned(i, q, m)'
  <2>. DEFINE n == m - t
              u == (f + 1) + n
  <2>0. i \in Nat /\ m \in Int /\ t <= m /\ m <= q - 1
    BY <1>2, <1>11
  <2>1. n \in 0..(p - (f + 1)) /\ t + n = m /\ u \in (f + 1)..(p - 1) /\ i - (q - m) = i - (p - u)
    BY <2>0, <1>6, <1>11
  <2>. HIDE DEF n, u
  <2>2. m \in DOMAIN records' /\ records'[m] = records[u]
    BY <1>10, <2>1 DEF u
  <2>3. Aligned(i, p, u)
    BY <1>5, <2>1 DEF NamedFrom
  <2>4. Syncable(records[u]) /\ i - (q - m) \in DOMAIN claim.names /\ claim.names[i - (q - m)] = Name(records[u])
    BY <2>1, <2>3 DEF Aligned
  <2>. QED
    BY <2>2, <2>4 DEF Aligned, Syncable, Name
<1>14. ASSUME NEW m \in Nat, m > ResumeIndex(Kept)', m <= e, m >= 1 PROVE ~Syncable(records[m])'
  <2>1. m \in DOMAIN records' /\ m < t
    BY <1>1, <1>11, <1>14
  <2>2. PICK u \in DOMAIN records : records'[m] = records[u]
    BY <1>1, <2>1
  <2>3. u > ResumeIndex(Kept)
    BY <1>14, <2>1, <2>2, LoadedAfter
  <2>4. u <= f
    <3>1. records[u] < records[f + 1]
      BY <1>1, <1>9, <2>1, <2>2 DEF Ascends
    <3>2. u < f + 1
      BY <1>2, <1>8, <3>1
    <3>. QED
      BY <1>2, <1>6, <3>2
  <2>5. Name(records[u]) # None
    BY <1>1, <2>1, <2>2
  <2>6. ~Syncable(records[u])
    <3>1. CASE u <= d
      <4>1. kind[records[u]] # "named"
        BY <2>3, <3>1 DEF LastAnchor
      <4>. QED
        BY <1>2, <2>5, <4>1 DEF Syncable, Name, AllKinds
    <3>2. CASE u > d
      <4>1. u \in (d + 1)..f
        BY <1>2, <1>6, <2>4, <3>2
      <4>. QED
        BY <1>5, <2>5, <4>1 DEF NamedFrom
    <3>. QED
      BY <1>2, <3>1, <3>2
  <2>. QED
    BY <2>2, <2>6 DEF Syncable
<1>. HIDE DEF e
<1>15. ResumeIndex(Kept)' \in Nat
  BY <1>1, LoadedAnchor
<1>16. \A n : n = ResumeIndex(Kept)' => \A m \in (n + 1)..e : m \in Nat /\ m > ResumeIndex(Kept)' /\ m <= e /\ m >= 1
  BY <1>15
<1>17. \A n : n = ResumeIndex(Kept)' => LinedFrom(e, i, q, n)'
  BY <1>12, <1>13, <1>14, <1>16 DEF LinedFrom
<1>. QED
  BY <1>12, <1>17

LEMMA CrashOnce ==
  ASSUME Tidy, RailInv, OnceInv, Crash
  PROVE  OnceInv'
<1>1. /\ records' \in Loaded /\ push' = Idle /\ up' = FALSE /\ poll' = "none" /\ NoGap
      /\ boots' = [b \in Bootstrap |-> NoBoot]
      /\ UNCHANGED <<kind, claim, anchor, reseeded>>
  BY DEF Crash, file, NoGap
<1>2. Typed /\ KnownRecs /\ AnchorNamed /\ SmallClaim
  BY DEF RailInv, OnceInv, Steady
<1>3. Offered' \subseteq Offered /\ ~Active'
  BY CrashOffers
<1>4. /\ DOMAIN records' = 1..Len(records') /\ Len(records') \in Nat /\ records' \in Seq(1..Len(kind))
      /\ \A t \in DOMAIN records' : /\ records'[t] \in Nat /\ records'[t] # None /\ Name(records'[t]) # None
                                    /\ \E p \in DOMAIN records : records'[t] = records[p]
  BY <1>1, <1>2, LoadedIs
<1>5. Steady'
  <2>1. KnownRecs' /\ AnchorNamed' /\ SmallClaim'
    BY <1>1, <1>2, <1>3 DEF KnownRecs, AnchorNamed, SmallClaim, Name
  <2>2. First'
    <3>. SUFFICES ASSUME records' # <<>> PROVE \A r : r = records'[1] => Name(r)' # None
      BY DEF First
    <3>1. Len(records') # 0
      BY <1>4, EmptySeq
    <3>2. 1 \in DOMAIN records'
      BY <1>4, <3>1
    <3>. QED
      BY <1>1, <1>4, <3>2 DEF Name
  <2>3. DownQuiet'
    BY <1>1 DEF DownQuiet, NoBoot
  <2>. QED
    BY <2>1, <2>2, <2>3 DEF Steady
<1>6. Done' = ResumeIndex(Kept)'
  BY <1>1, <1>3 DEF Done, ResumeIndex, Kept
<1>7. ASSUME ~reseeded PROVE \A n : n = ResumeIndex(Kept)' => Fresh(n)' /\ LastAnchor(n)'
  <2>. DEFINE d == Done
  <2>1. Fresh(d) /\ LastAnchor(d) /\ d \in Nat
    BY <1>7, DoneIs DEF OnceInv
  <2>. HIDE DEF d
  <2>2. OneCounter'
    BY <1>1, <1>3, <2>1 DEF Fresh, OneCounter
  <2>3. \A n : n = ResumeIndex(Kept)' => Remembered(n)'
    <3>1. ASSUME NEW x \in Offered', NEW q \in DOMAIN records', records'[q] = x.rec, kind[x.rec] = "named",
                 q > ResumeIndex(Kept)'
          PROVE  \E i \in DOMAIN claim.names : claim.names[i] = x.rec /\ claim.counters[i] = x.counter
      <4>1. PICK p \in DOMAIN records : records'[q] = records[p]
        BY <1>4, <3>1
      <4>2. p > ResumeIndex(Kept)
        BY <1>1, <1>2, <3>1, <4>1, LoadedAfter
      <4>3. p > d
        <5>1. p \in Nat
          BY <1>2, RecordsAre
        <5>2. ~(p <= d)
          BY <2>1, <3>1, <4>1, <4>2 DEF LastAnchor
        <5>. QED
          BY <2>1, <5>1, <5>2
      <4>. QED
        BY <1>3, <2>1, <3>1, <4>1, <4>3 DEF Fresh, Remembered
    <3>. QED
      BY <1>1, <3>1 DEF Remembered
  <2>4. \A n : n = ResumeIndex(Kept)' => Lined(n)'
    <3>1. ASSUME NEW i \in DOMAIN claim.names, NEW q \in DOMAIN records', claim.names[i] = records'[q],
                 q > ResumeIndex(Kept)'
          PROVE  \E e \in 0..(q - 1) : \A n : n = ResumeIndex(Kept)' => LinedFrom(e, i, q, n)'
      BY <1>1, <1>2, <2>1, <3>1, LoadedLined DEF Fresh
    <3>2. claim' = claim
      BY <1>1
    <3>. QED
      BY <3>1, <3>2 DEF Lined
  <2>5. \A n : n = ResumeIndex(Kept)' => LastAnchor(n)'
    <3>1. \A m \in DOMAIN records' : m \in Nat
      BY <1>4
    <3>2. ResumeIndex(Kept)' \in Nat
      BY <1>1, <1>2, <1>4, LoadedAnchor
    <3>3. \A m \in DOMAIN records' : ~(m > ResumeIndex(Kept)' /\ m <= ResumeIndex(Kept)')
      BY <3>1, <3>2
    <3>. QED
      BY <3>3 DEF LastAnchor
  <2>. QED
    BY <2>2, <2>3, <2>4, <2>5 DEF Fresh
<1>8. Between'
  BY <1>3 DEF Between
<1>. QED
  BY <1>1, <1>5, <1>6, <1>7, <1>8 DEF OnceInv

-----------------------------------------------------------------------------
(* The second theorem.                                                      *)

LEMMA InitOnce ==
  ASSUME Init
  PROVE  OnceInv
<1>1. /\ records = <<>> /\ claim = NoClaim /\ anchor = 0 /\ up = FALSE /\ push = Idle /\ poll = "none"
      /\ log = {} /\ wire = {} /\ \A b \in Bootstrap : boots[b].pc = "idle"
  BY DEF Init, None, NoBoot
<1>2. DOMAIN records = {} /\ DOMAIN claim.names = {} /\ Len(claim.names) = 0 /\ ~Active /\ Offered = {}
  BY <1>1 DEF NoClaim, Active, Idle, Offered
<1>3. Steady
  BY <1>1, <1>2, SyncAssumption DEF Steady, KnownRecs, First, AnchorNamed, DownQuiet, SmallClaim, None
<1>4. \A d : Fresh(d) /\ LastAnchor(d)
  BY <1>2 DEF Fresh, OneCounter, Remembered, Lined, LastAnchor
<1>. QED
  BY <1>2, <1>3, <1>4 DEF OnceInv, Between

LEMMA StepOnce ==
  ASSUME Tidy, RailInv, OnceInv, [Next]_vars
  PROVE  OnceInv'
<1>1. CASE TickBoots
  <2>1. up = TRUE
    BY <1>1 DEF TickBoots, Ticking, RailInv, Typed
  <2>. QED
    BY <1>1, <2>1, BootsOnce DEF TickBoots
<1>2. CASE TickPolls \/ Restart \/ StartFails \/ SignOut \/ SignIn \/ UNCHANGED vars
  BY <1>2, OthersOnce
<1>3. CASE PollAnswered
  BY <1>3, PollAnsweredOnce
<1>4. CASE Pushes
  <2>1. CASE PushUnauthorized
    <3>1. push.pc = "answered"
      BY <2>1 DEF PushUnauthorized
    <3>2. push.attempt \in Nat /\ MaxRetries \in Nat
      BY <3>1, PushFacts, SyncAssumption
    <3>3. push.attempt >= MaxRetries \/ push.attempt < MaxRetries
      BY <3>2
    <3>. QED
      BY <2>1, <3>3, PushEndsOnce, PushWaitsOnce
  <2>2. CASE PushHandled
    BY <2>2, PushHandledOnce
  <2>3. CASE PushDelivered
    BY <2>3, PushDeliveredOnce
  <2>4. CASE PushConflict
    BY <2>4, PushWaitsOnce
  <2>5. CASE PushGivesUp \/ PushRejected
    BY <2>5, PushEndsOnce
  <2>6. CASE PushRetries
    BY <2>6, PushRetriesOnce
  <2>. QED
    BY <1>4, <2>1, <2>2, <2>3, <2>4, <2>5, <2>6 DEF Pushes
<1>5. CASE PushFails
  BY <1>5, PushFailsOnce
<1>6. CASE PushAnswerLost
  BY <1>6, PushWaitsOnce
<1>7. ASSUME NEW b \in Bootstrap, Boots(b) \/ BootFails(b)
      PROVE  OnceInv'
  BY <1>7, BootsOnce, BootDoneOnce DEF Boots
<1>8. CASE LateRequest
  BY <1>8, LateRequestOnce
<1>9. CASE DropRow
  BY <1>9, DropRowOnce
<1>10. CASE AppendRecord
  BY <1>10, AppendOnce
<1>11. CASE Compact
  BY <1>11, CompactOnce
<1>12. CASE Crash
  BY <1>12, CrashOnce
<1>. QED
  BY <1>1, <1>2, <1>3, <1>4, <1>5, <1>6, <1>7, <1>8, <1>9, <1>10, <1>11, <1>12 DEF Next

LEMMA OnceDelivers ==
  ASSUME RailInv, OnceInv
  PROVE  DeliveredOnce
<1>. SUFFICES ASSUME ~reseeded, NEW x \in log, NEW y \in log,
                     x.rec = y.rec /\ x.rec # None /\ kind[x.rec] = "named"
              PROVE  x = y
  BY DEF DeliveredOnce
<1>1. OneCounter
  BY DEF OnceInv, Fresh
<1>2. x \in Offered /\ y \in Offered /\ x \in OfferType /\ y \in OfferType
  BY OffersAre
<1>3. x.counter = y.counter
  BY <1>1, <1>2 DEF OneCounter
<1>. QED
  BY <1>2, <1>3 DEF OfferType

\* In the sessions Tidy describes, and until the cursor was reset for a row that had
\* gone, the broker holds no named record twice: a record that is offered again has
\* the counter it had, whether the answer was lost, the batch was split, the request
\* came late or the process crashed in between (session-crypto.ts:165-171).
THEOREM NoRecordIsStoredTwice ==
  ASSUME Tidy
  PROVE  Spec => []DeliveredOnce
<1>1. Init => OnceInv
  BY InitOnce
<1>2. RailInv /\ OnceInv /\ [Next]_vars => OnceInv'
  BY StepOnce
<1>3. RailInv /\ OnceInv => DeliveredOnce
  BY OnceDelivers
<1>4. Spec => []RailInv
  BY RailsHold
<1>. QED
  BY <1>1, <1>2, <1>3, <1>4, PTL DEF Spec

==============================================================================
