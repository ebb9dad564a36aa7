--------------------------- MODULE TurnLoop_proofs ---------------------------
(***************************************************************************)
(* What the turns of a host may do to each other, for every number of      *)
(* turns, rounds and calls: one that was taken over changes nothing the    *)
(* queue is told, goes no further than it had set out to, and drops no     *)
(* input.                                                                  *)
(***************************************************************************)
EXTENDS TurnLoop, FiniteSetTheorems, SequenceTheorems, TLAPS

-----------------------------------------------------------------------------
(* Places of a sequence, and what stands at them.                           *)

\* The intervals from 1 are ordered as their ends are.
LEMMA MinIs ==
  ASSUME NEW S \in SUBSET Nat, S # {}
  PROVE  Min(S) \in S /\ \A y \in S : Min(S) <= y
<1>. DEFINE T == {1..x : x \in S}
<1>1. T \subseteq FiniteSubsetsOf(Nat) /\ T # {}
  <2>1. ASSUME NEW x \in S
        PROVE  1..x \in SUBSET Nat /\ IsFiniteSet(1..x)
    <3>1. 1 \in Int /\ x \in Int
      OBVIOUS
    <3>2. IsFiniteSet(1..x)
      BY <3>1, FS_Interval
    <3>. QED
      BY <3>2
  <2>. QED
    BY <2>1 DEF FiniteSubsetsOf
<1>2. PICK I \in T : \A J \in T : <<J, I>> \notin StrictSubsetOrdering(Nat)
  BY <1>1, FS_StrictSubsetOrderingWellFounded, WFMin
<1>3. PICK x \in S : I = 1..x
  BY <1>2
<1>4. ASSUME NEW y \in S, y < x
      PROVE  FALSE
  <2>1. 1..y \subseteq 1..x /\ x \in 1..x /\ x \notin 1..y
    BY <1>4
  <2>2. 1..y \in SUBSET Nat /\ 1..x \in SUBSET Nat /\ 1..y \in T
    OBVIOUS
  <2>3. <<1..y, 1..x>> \in StrictSubsetOrdering(Nat)
    BY <2>1, <2>2 DEF StrictSubsetOrdering
  <2>. QED
    BY <1>2, <1>3, <2>2, <2>3
<1>5. \A y \in S : x <= y
  BY <1>4
<1>. QED
  BY <1>5 DEF Min

LEMMA MaxIs ==
  ASSUME NEW S \in SUBSET Nat, S # {}, NEW n \in Nat, \A y \in S : y <= n
  PROVE  Max(S) \in S /\ \A y \in S : y <= Max(S)
<1>. DEFINE F == {i \in Nat : n - i \in S}
<1>1. PICK z \in S : TRUE
  OBVIOUS
<1>2. n - z \in F /\ n - z \in Nat
  OBVIOUS
<1>3. F # {} /\ F \subseteq Nat
  BY <1>2
<1>. DEFINE m == Min(F)
<1>4. m \in F /\ \A i \in F : m <= i
  BY <1>3, MinIs
<1>5. m \in Nat /\ n - m \in S
  BY <1>4
<1>6. \A y \in S : n - y \in F
  OBVIOUS
<1>7. ASSUME NEW y \in S PROVE y <= n - m
  <2>1. m <= n - y
    BY <1>4, <1>6
  <2>. QED
    BY <1>5, <2>1
<1>. HIDE DEF m, F
<1>. QED
  BY <1>5, <1>7 DEF Max

\* How many places of I are not after i.
Rank(I, i) == Cardinality({j \in I : j <= i})

LEMMA RankGrows ==
  ASSUME NEW I \in SUBSET Nat, IsFiniteSet(I), NEW i \in I, NEW k \in I, i < k
  PROVE  Rank(I, i) < Rank(I, k)
<1>. DEFINE A == {j \in I : j <= i}
            B == {j \in I : j <= k}
<1>1. A \in SUBSET I /\ B \in SUBSET I
  OBVIOUS
<1>2. IsFiniteSet(A) /\ IsFiniteSet(B)
  BY <1>1, FS_Subset
<1>3. A \in SUBSET B /\ k \in B /\ k \notin A
  <2>1. i \in Nat /\ k \in Nat
    OBVIOUS
  <2>2. ASSUME NEW j \in I, j <= i PROVE j <= k
    <3>1. j \in Nat
      OBVIOUS
    <3>. QED
      BY <2>1, <2>2, <3>1
  <2>3. k <= k /\ ~(k <= i)
    BY <2>1
  <2>. QED
    BY <2>2, <2>3, Zenon
<1>4. Cardinality(A) <= Cardinality(B) /\ Cardinality(A) # Cardinality(B)
  <2>1. Cardinality(A) <= Cardinality(B) /\ (Cardinality(B) = Cardinality(A) => B = A)
    BY <1>2, <1>3, FS_Subset
  <2>. QED
    BY <1>3, <2>1
<1>5. Cardinality(A) \in Nat /\ Cardinality(B) \in Nat
  BY <1>2, FS_CardinalityType
<1>. QED
  BY <1>4, <1>5 DEF Rank

LEMMA RankIn ==
  ASSUME NEW I \in SUBSET Nat, IsFiniteSet(I), NEW i \in I
  PROVE  Cardinality(I) \in Nat /\ Rank(I, i) \in 1..Cardinality(I)
<1>. DEFINE A == {j \in I : j <= i}
<1>1. A \in SUBSET I /\ i \in A
  OBVIOUS
<1>2. IsFiniteSet(A) /\ Cardinality(A) <= Cardinality(I)
  BY <1>1, FS_Subset
<1>3. Cardinality(A) \in Nat /\ Cardinality(I) \in Nat
  BY <1>2, FS_CardinalityType
<1>4. Cardinality(A) # 0
  BY <1>1, <1>2, FS_EmptySet
<1>5. Rank(I, i) = Cardinality(A)
  BY DEF Rank
<1>. HIDE DEF A
<1>. QED
  BY <1>2, <1>3, <1>4, <1>5

\* Every rank up to the size of I is a place's.
LEMMA RankReaches ==
  ASSUME NEW I \in SUBSET Nat, IsFiniteSet(I), NEW n \in 1..Cardinality(I)
  PROVE  \E i \in I : Rank(I, i) = n
<1>. DEFINE f == [i \in I |-> Rank(I, i)]
            T == 1..Cardinality(I)
<1>1. Cardinality(I) \in Nat
  BY FS_CardinalityType
<1>2. f \in [I -> T]
  BY RankIn
<1>3. ASSUME NEW i \in I, NEW k \in I, f[i] = f[k]
      PROVE  i = k
  <2>1. Rank(I, i) \in Nat /\ Rank(I, k) \in Nat /\ Rank(I, i) = Rank(I, k)
    BY <1>1, <1>3, RankIn
  <2>2. ~(i < k) /\ ~(k < i)
    BY <2>1, RankGrows
  <2>. QED
    BY <2>2
<1>4. f \in Injection(I, T)
  BY <1>2, <1>3 DEF Injection, IsInjective
<1>5. IsFiniteSet(T) /\ Cardinality(T) = Cardinality(I)
  <2>1. 1 \in Int /\ Cardinality(I) \in Int
    BY <1>1
  <2>2. IsFiniteSet(1..Cardinality(I))
        /\ Cardinality(1..Cardinality(I)) =
             IF 1 > Cardinality(I) THEN 0 ELSE Cardinality(I) - 1 + 1
    BY <2>1, FS_Interval
  <2>. QED
    BY <1>1, <2>2
<1>6. f \in Surjection(I, T)
  BY <1>4, <1>5, FS_Injection
<1>. QED
  BY <1>6 DEF Surjection

\* r is what s holds at the places of I, in their order: p says where each
\* item comes from.
Extracts(r, s, I, p) ==
  /\ p \in [DOMAIN r -> I]
  /\ \A n \in DOMAIN r : r[n] = s[p[n]]
  /\ \A i \in I : \E n \in DOMAIN r : p[n] = i
  /\ \A m, n \in DOMAIN r : m < n <=> p[m] < p[n]

LEMMA PlaceIs ==
  ASSUME NEW I \in SUBSET Nat, IsFiniteSet(I), NEW n \in 1..Cardinality(I)
  PROVE  Place(I, n) \in I /\ Rank(I, Place(I, n)) = n
<1>1. \E i \in I : Rank(I, i) = n
  BY RankReaches
<1>. QED
  BY <1>1 DEF Place, Rank

LEMMA AtExtracts ==
  ASSUME NEW M, NEW s \in Seq(M), NEW I \in SUBSET DOMAIN s
  PROVE  At(s, I) \in Seq(M) /\ \E p : Extracts(At(s, I), s, I, p)
<1>. DEFINE N == Cardinality(I)
            p == [n \in 1..N |-> Place(I, n)]
<1>1. I \in SUBSET Nat /\ IsFiniteSet(I)
  <2>1. Len(s) \in Nat /\ DOMAIN s = 1..Len(s)
    OBVIOUS
  <2>2. IsFiniteSet(1..Len(s))
    BY <2>1, FS_Interval
  <2>. QED
    BY <2>1, <2>2, FS_Subset
<1>2. N \in Nat
  BY <1>1, FS_CardinalityType
<1>3. \A n \in 1..N : Place(I, n) \in I /\ Rank(I, Place(I, n)) = n
  BY <1>1, PlaceIs
<1>4. p \in [1..N -> I]
  BY <1>3
<1>. DEFINE r == At(s, I)
<1>5. r = [n \in 1..N |-> s[Place(I, n)]]
  BY DEF At
<1>6. r \in Seq(M) /\ DOMAIN r = 1..N
  <2>1. \A n \in 1..N : s[Place(I, n)] \in M
    BY <1>3
  <2>. QED
    BY <1>2, <1>5, <2>1
<1>7. \A n \in 1..N : r[n] = s[p[n]]
  BY <1>5
<1>8. ASSUME NEW i \in I
      PROVE  \E n \in 1..N : p[n] = i
  <2>. DEFINE n == Rank(I, i)
  <2>1. n \in 1..N
    BY <1>1, RankIn
  <2>2. Place(I, n) \in I /\ Rank(I, Place(I, n)) = Rank(I, i)
    BY <1>3, <2>1
  <2>3. Rank(I, i) \in Nat
    BY <1>2, <2>1
  <2>4. ~(Place(I, n) < i) /\ ~(i < Place(I, n))
    BY <1>1, <2>2, <2>3, RankGrows
  <2>5. Place(I, n) = i
    BY <1>1, <2>2, <2>4
  <2>. QED
    BY <2>1, <2>5
<1>9. ASSUME NEW m \in 1..N, NEW n \in 1..N
      PROVE  m < n <=> p[m] < p[n]
  <2>1. /\ p[m] \in I /\ Rank(I, p[m]) = m /\ m \in Nat
        /\ p[n] \in I /\ Rank(I, p[n]) = n /\ n \in Nat
    BY <1>3
  <2>2. p[m] < p[n] => m < n
    BY <1>1, <2>1, RankGrows
  <2>3. p[n] < p[m] => n < m
    BY <1>1, <2>1, RankGrows
  <2>4. p[m] = p[n] => m = n
    BY <2>1
  <2>5. p[m] \in Nat /\ p[n] \in Nat
    BY <1>1, <2>1
  <2>. HIDE DEF p
  <2>. QED
    BY <2>1, <2>2, <2>3, <2>4, <2>5
<1>. HIDE DEF p, r
<1>10. Extracts(r, s, I, p)
  BY <1>4, <1>6, <1>7, <1>8, <1>9 DEF Extracts
<1>. QED
  BY <1>6, <1>10 DEF r

\* Two items that follow each other in r have nothing of I between them.
LEMMA ExtractsNext ==
  ASSUME NEW r, NEW s, NEW I \in SUBSET Nat, NEW p, NEW k \in Nat,
         DOMAIN r = 1..k, Extracts(r, s, I, p),
         NEW m \in DOMAIN r, NEW n \in DOMAIN r, p[m] < p[n],
         \A i \in I : ~(p[m] < i /\ i < p[n])
  PROVE  n = m + 1
<1>1. m < n /\ m \in Nat /\ n \in Nat
  BY DEF Extracts
<1>2. CASE n > m + 1
  <2>1. m + 1 \in DOMAIN r /\ m < m + 1 /\ m + 1 < n
    BY <1>1, <1>2
  <2>2. p[m] < p[m + 1] /\ p[m + 1] < p[n] /\ p[m + 1] \in I
    BY <2>1 DEF Extracts
  <2>. QED
    BY <2>2
<1>. QED
  BY <1>1, <1>2

LEMMA ExtractsOnce ==
  ASSUME NEW r, NEW s, NEW I \in SUBSET Nat, NEW p, NEW k \in Nat,
         DOMAIN r = 1..k, Extracts(r, s, I, p),
         NEW m \in DOMAIN r, NEW n \in DOMAIN r, p[m] = p[n]
  PROVE  m = n
<1>1. m \in Nat /\ n \in Nat /\ p[m] \in Nat /\ p[n] \in Nat
  <2>1. p[m] \in I /\ p[n] \in I
    BY DEF Extracts
  <2>2. m \in Nat /\ n \in Nat
    OBVIOUS
  <2>. QED
    BY <2>1, <2>2
<1>2. ~(m < n) /\ ~(n < m)
  BY <1>1 DEF Extracts
<1>. QED
  BY <1>1, <1>2

-----------------------------------------------------------------------------
(* The repair of a conversation before a request.                           *)

LEMMA MessageIs ==
  ASSUME NEW m \in Messages
  PROVE  /\ m.role \in {"user", "assistant"}
         /\ m.uses \in SUBSET Call /\ m.results \in SUBSET Answers
         /\ m.says \in SUBSET Sayable
BY DEF Messages

LEMMA WithResults ==
  ASSUME NEW m \in Messages, NEW R \in SUBSET Answers
  PROVE  LET left == [m EXCEPT !.results = R]
         IN  /\ left \in Messages
             /\ left.results = R
             /\ left.role = m.role /\ left.uses = m.uses /\ left.says = m.says
BY DEF Messages

LEMMA AnswerIs ==
  ASSUME NEW a \in Answers
  PROVE  a = Answer(a.call, a.is) /\ a.call \in Call /\ a.is \in {"real", "cut"}
BY DEF Answers, Answer

LEMMA AnswerOf ==
  ASSUME NEW c \in Call, NEW is \in {"real", "cut"}
  PROVE  /\ Answer(c, is) \in Answers
         /\ Answer(c, is).call = c /\ Answer(c, is).is = is
BY DEF Answers, Answer

LEMMA UserMessageIs ==
  ASSUME NEW R \in SUBSET Answers, NEW S \in SUBSET Sayable
  PROVE  /\ UserMessage(R, S) \in Messages
         /\ UserMessage(R, S).role = "user" /\ UserMessage(R, S).uses = {}
         /\ UserMessage(R, S).results = R /\ UserMessage(R, S).says = S
BY DEF UserMessage, Messages

LEMMA AssistantMessageIs ==
  ASSUME NEW U \in SUBSET Call
  PROVE  /\ AssistantMessage(U) \in Messages
         /\ AssistantMessage(U).role = "assistant" /\ AssistantMessage(U).uses = U
         /\ AssistantMessage(U).results = {} /\ AssistantMessage(U).says = {}
BY DEF AssistantMessage, Messages

\* What the loop writes: assistants ask and users answer, a call is made once,
\* and no answer stands before its call.
RolesApart(ms) ==
  \A i \in DOMAIN ms :
    IF ms[i].role = "user" THEN ms[i].uses = {} ELSE ms[i].results = {}

CallsOnce(ms) ==
  \A i, j \in DOMAIN ms : \A c : c \in ms[i].uses /\ c \in ms[j].uses => i = j

AnswersAfter(ms) ==
  \A i, j \in DOMAIN ms : \A a \in ms[i].results : a.call \in ms[j].uses => j < i

Conversation(ms) ==
  ms \in Seq(Messages) /\ RolesApart(ms) /\ CallsOnce(ms) /\ AnswersAfter(ms)

LEMMA SeqFrom ==
  ASSUME NEW S, NEW n \in Nat, NEW s, DOMAIN s = 1..n, s = [i \in DOMAIN s |-> s[i]],
         \A i \in 1..n : s[i] \in S
  PROVE  s \in Seq(S)
<1>1. s \in [1..n -> S]
  OBVIOUS
<1>. QED
  BY <1>1, SeqDef

LEMMA KeptExtracts ==
  ASSUME NEW s \in Seq(Messages)
  PROVE  /\ Kept(s) \in Seq(Messages)
         /\ \E p : Extracts(Kept(s), s, {i \in DOMAIN s : Holds(s[i])}, p)
BY AtExtracts DEF Kept

LEMMA FilterIs ==
  ASSUME NEW ms, Conversation(ms)
  PROVE  LET f == FilterUnknownToolResults(ms)
         IN  /\ Conversation(f)
             /\ Used(f) = Used(ms)
             /\ \A n \in DOMAIN f : \A a \in f[n].results : a.call \in Used(f)
             /\ \A n \in DOMAIN f : \A a \in f[n].results :
                  \E i \in DOMAIN ms : a \in ms[i].results
             /\ \A i \in DOMAIN ms : \A a \in ms[i].results :
                  a.call \in Used(ms) => \E n \in DOMAIN f : a \in f[n].results
<1>. DEFINE R(i) == {a \in ms[i].results : a.call \in Used(ms)}
            s == [i \in DOMAIN ms |-> [ms[i] EXCEPT !.results = {a \in @ : a.call \in Used(ms)}]]
            f == FilterUnknownToolResults(ms)
            I == {i \in DOMAIN s : Holds(s[i])}
<1>1. ms \in Seq(Messages)
  BY DEF Conversation
<1>2. ASSUME NEW i \in DOMAIN ms
      PROVE  /\ s[i] \in Messages /\ s[i].results = R(i)
             /\ s[i].role = ms[i].role /\ s[i].uses = ms[i].uses
  <2>1. ms[i] \in Messages
    BY <1>1
  <2>2. R(i) \in SUBSET Answers
    BY <2>1, MessageIs
  <2>3. s[i] = [ms[i] EXCEPT !.results = R(i)]
    OBVIOUS
  <2>. HIDE DEF R, s
  <2>. QED
    BY <2>1, <2>2, <2>3, WithResults
<1>3. s \in Seq(Messages) /\ DOMAIN s = DOMAIN ms
  <2>1. DOMAIN s = 1..Len(ms) /\ Len(ms) \in Nat /\ DOMAIN s = DOMAIN ms
    BY <1>1
  <2>2. s = [i \in DOMAIN s |-> s[i]]
    OBVIOUS
  <2>. HIDE DEF s
  <2>. QED
    BY <1>2, <2>1, <2>2, SeqFrom
<1>4. f = Kept(s)
  BY DEF FilterUnknownToolResults
<1>. HIDE DEF f, s
<1>5. f \in Seq(Messages) /\ \E p : Extracts(f, s, I, p)
  BY <1>3, <1>4, KeptExtracts
<1>6. PICK p : Extracts(f, s, I, p)
  BY <1>5
<1>7. DOMAIN f = 1..Len(f) /\ Len(f) \in Nat /\ DOMAIN ms \subseteq Nat /\ I \subseteq DOMAIN ms
  BY <1>1, <1>3, <1>5
<1>8. ASSUME NEW n \in DOMAIN f
      PROVE  /\ p[n] \in DOMAIN ms /\ f[n].results = R(p[n])
             /\ f[n].role = ms[p[n]].role /\ f[n].uses = ms[p[n]].uses
  <2>1. p[n] \in DOMAIN ms /\ f[n] = s[p[n]]
    BY <1>6, <1>7 DEF Extracts
  <2>. QED
    BY <1>2, <2>1
<1>9. ASSUME NEW i \in DOMAIN ms, ms[i].uses # {} \/ R(i) # {}
      PROVE  \E n \in DOMAIN f : p[n] = i
  <2>1. ms[i].role \in {"user", "assistant"}
    BY <1>1, MessageIs
  <2>2. s[i].role = "assistant" \/ s[i].results # {}
    BY <1>2, <1>9, <2>1 DEF Conversation, RolesApart
  <2>3. i \in I
    BY <1>3, <2>2 DEF Holds
  <2>. QED
    BY <1>6, <2>3 DEF Extracts
<1>10. Used(f) = Used(ms)
  <2>1. ASSUME NEW i \in DOMAIN ms, NEW c \in ms[i].uses
        PROVE  \E n \in DOMAIN f : c \in f[n].uses
    BY <1>8, <1>9, <2>1
  <2>2. ASSUME NEW n \in DOMAIN f, NEW c \in f[n].uses
        PROVE  \E i \in DOMAIN ms : c \in ms[i].uses
    BY <1>8
  <2>. QED
    BY <2>1, <2>2 DEF Used
<1>11. RolesApart(f)
  <2>1. ASSUME NEW n \in DOMAIN f, f[n].role # "user" PROVE f[n].results = {}
    BY <1>8, <2>1 DEF Conversation, RolesApart
  <2>2. ASSUME NEW n \in DOMAIN f, f[n].role = "user" PROVE f[n].uses = {}
    BY <1>8, <2>2 DEF Conversation, RolesApart
  <2>. QED
    BY <2>1, <2>2 DEF RolesApart
<1>12. CallsOnce(f)
  <2>1. ASSUME NEW m \in DOMAIN f, NEW n \in DOMAIN f, NEW c, c \in f[m].uses, c \in f[n].uses
        PROVE  m = n
    <3>1. p[m] = p[n]
      BY <1>8, <2>1 DEF Conversation, CallsOnce
    <3>2. I \in SUBSET Nat
      BY <1>7
    <3>. HIDE DEF I
    <3>. QED
      BY <1>6, <1>7, <3>1, <3>2, ExtractsOnce
  <2>. QED
    BY <2>1 DEF CallsOnce
<1>13. AnswersAfter(f)
  <2>1. ASSUME NEW m \in DOMAIN f, NEW n \in DOMAIN f, NEW a \in f[m].results, a.call \in f[n].uses
        PROVE  n < m
    <3>1. p[n] < p[m]
      BY <1>8, <2>1 DEF Conversation, AnswersAfter
    <3>. QED
      BY <1>6, <3>1 DEF Extracts
  <2>. QED
    BY <2>1 DEF AnswersAfter
<1>14. ASSUME NEW n \in DOMAIN f, NEW a \in f[n].results
       PROVE  a.call \in Used(f) /\ \E i \in DOMAIN ms : a \in ms[i].results
  BY <1>8, <1>10
<1>15. ASSUME NEW i \in DOMAIN ms, NEW a \in ms[i].results, a.call \in Used(ms)
       PROVE  \E n \in DOMAIN f : a \in f[n].results
  <2>1. a \in R(i)
    BY <1>15
  <2>2. PICK n \in DOMAIN f : p[n] = i
    BY <1>9, <2>1
  <2>. QED
    BY <1>8, <2>1, <2>2
<1>. QED
  BY <1>5, <1>10, <1>11, <1>12, <1>13, <1>14, <1>15 DEF Conversation, f

LEMMA LastAnswerIs ==
  ASSUME NEW f \in Seq(Messages), NEW c \in Call
  PROVE  /\ LastAnswer(f, c) \in Answers
         /\ LastAnswer(f, c).call = c
         /\ \A i \in DOMAIN f : \A a \in f[i].results : a.call = c =>
              \E k \in DOMAIN f : LastAnswer(f, c) \in f[k].results
<1>. DEFINE at == {i \in DOMAIN f : c \in CallsOf(f[i].results)}
            k == Max(at)
<1>1. ASSUME NEW i \in DOMAIN f, NEW a \in f[i].results, a.call = c
      PROVE  i \in at
  BY <1>1 DEF CallsOf
<1>2. CASE at = {}
  <2>1. LastAnswer(f, c) = Answer(c, "cut")
    BY <1>2 DEF LastAnswer
  <2>. QED
    BY <1>1, <1>2, <2>1, AnswerOf
<1>3. CASE at # {}
  <2>1. Len(f) \in Nat /\ DOMAIN f = 1..Len(f)
    OBVIOUS
  <2>2. at \in SUBSET Nat /\ \A y \in at : y <= Len(f)
    BY <2>1
  <2>3. k \in at
    <3>. HIDE DEF at
    <3>. QED
      BY <1>3, <2>1, <2>2, MaxIs
  <2>4. k \in DOMAIN f /\ \E a \in f[k].results : a.call = c
    BY <2>3 DEF CallsOf
  <2>5. LastAnswer(f, c) = CHOOSE a \in f[k].results : a.call = c
    BY <1>3 DEF LastAnswer
  <2>. HIDE DEF k
  <2>6. LastAnswer(f, c) \in f[k].results /\ LastAnswer(f, c).call = c
    BY <2>4, <2>5
  <2>7. f[k] \in Messages
    BY <2>4
  <2>. QED
    BY <2>4, <2>6, <2>7, MessageIs
<1>. QED
  BY <1>2, <1>3

\* What a repaired conversation keeps: answers come right after their calls,
\* and a call is answered right after it is made, once.
AnswersNext(ms) ==
  /\ \A n \in DOMAIN ms : ms[n].results # {} =>
       n > 1 /\ CallsOf(ms[n].results) = ms[n - 1].uses
  /\ \A n \in DOMAIN ms : ms[n].uses # {} =>
       n < Len(ms) /\ CallsOf(ms[n + 1].results) = ms[n].uses /\ ms[n + 1].role = "user"
  /\ \A n \in DOMAIN ms : \A a, b \in ms[n].results : a.call = b.call => a = b

\* The slots of a conversation: a message, then the answers to its calls.
LEMMA Slots ==
  ASSUME NEW n \in Nat
  PROVE  /\ \A k \in 1..2 * n : \E i \in 1..n : k = 2 * i - 1 \/ k = 2 * i
         /\ \A i \in 1..n :
              /\ 2 * i - 1 \in 1..2 * n /\ (2 * i - 1) % 2 = 1 /\ (2 * i - 1 + 1) \div 2 = i
              /\ 2 * i \in 1..2 * n /\ (2 * i) % 2 = 0 /\ (2 * i) \div 2 = i
<1>1. ASSUME NEW k \in 1..2 * n
      PROVE  \E i \in 1..n : k = 2 * i - 1 \/ k = 2 * i
  <2>1. CASE k % 2 = 1
    <3>1. (k + 1) \div 2 \in 1..n /\ k = 2 * ((k + 1) \div 2) - 1
      BY <2>1
    <3>. QED
      BY <3>1
  <2>2. CASE k % 2 # 1
    <3>1. k \div 2 \in 1..n /\ k = 2 * (k \div 2)
      BY <2>2
    <3>. QED
      BY <3>1
  <2>. QED
    BY <2>1, <2>2
<1>2. ASSUME NEW i \in 1..n
      PROVE  /\ 2 * i - 1 \in 1..2 * n /\ (2 * i - 1) % 2 = 1 /\ (2 * i - 1 + 1) \div 2 = i
             /\ 2 * i \in 1..2 * n /\ (2 * i) % 2 = 0 /\ (2 * i) \div 2 = i
  <2>1. 2 * i - 1 \in 1..2 * n /\ 2 * i \in 1..2 * n
    OBVIOUS
  <2>2. (2 * i - 1) % 2 = 1 /\ (2 * i - 1 + 1) \div 2 = i
    OBVIOUS
  <2>3. (2 * i) % 2 = 0 /\ (2 * i) \div 2 = i
    OBVIOUS
  <2>. QED
    BY <2>1, <2>2, <2>3
<1>. QED
  BY <1>1, <1>2

LEMMA InjectIs ==
  ASSUME NEW f, Conversation(f),
         \A n \in DOMAIN f : \A a \in f[n].results : a.call \in Used(f)
  PROVE  LET g == InjectOrphanInterrupts(f)
         IN  /\ g \in Seq(Messages) /\ RolesApart(g) /\ CallsOnce(g) /\ AnswersNext(g)
             /\ \A c \in Used(f) : \E n \in DOMAIN g : LastAnswer(f, c) \in g[n].results
<1>. DEFINE R(i) == {a \in f[i].results : a.call \notin Used(SubSeq(f, 1, i))}
            A(i) == {LastAnswer(f, c) : c \in f[i].uses}
            L == [i \in DOMAIN f |-> [f[i] EXCEPT !.results = {a \in @ : a.call \notin Used(SubSeq(f, 1, i))}]]
            P == [i \in DOMAIN f |-> UserMessage({LastAnswer(f, c) : c \in f[i].uses}, {})]
            N == Len(f)
            s == [k \in 1..2 * N |-> IF k % 2 = 1 THEN L[(k + 1) \div 2] ELSE P[k \div 2]]
            g == InjectOrphanInterrupts(f)
            I == {i \in DOMAIN s : Holds(s[i])}
<1>1. f \in Seq(Messages) /\ N \in Nat /\ DOMAIN f = 1..N
  BY DEF Conversation
<1>2. \A i \in 1..N : f[i] \in Messages
  BY <1>1
<1>3. ASSUME NEW i \in 1..N
      PROVE  R(i) = {}
  <2>1. ASSUME NEW a \in f[i].results
        PROVE  a.call \in Used(SubSeq(f, 1, i))
    <3>1. PICK j \in DOMAIN f : a.call \in f[j].uses
      BY <1>1 DEF Used
    <3>2. j < i
      BY <1>1, <3>1 DEF Conversation, AnswersAfter
    <3>3. j \in 1..i /\ DOMAIN SubSeq(f, 1, i) = 1..i /\ SubSeq(f, 1, i)[j] = f[j]
      BY <1>1, <3>2
    <3>. QED
      BY <3>1, <3>3 DEF Used
  <2>. QED
    BY <2>1
<1>4. ASSUME NEW i \in 1..N
      PROVE  /\ L[i] \in Messages /\ L[i].results = {}
             /\ L[i].role = f[i].role /\ L[i].uses = f[i].uses
  <2>1. f[i] \in Messages
    BY <1>2
  <2>2. L[i] = [f[i] EXCEPT !.results = R(i)]
    BY <1>1
  <2>3. R(i) = {}
    BY <1>3
  <2>. HIDE DEF R, L
  <2>4. L[i] = [f[i] EXCEPT !.results = {}]
    BY <2>2, <2>3
  <2>. QED
    BY <2>1, <2>4 DEF Messages
<1>5. ASSUME NEW i \in 1..N
      PROVE  /\ P[i] \in Messages /\ P[i].results = A(i)
             /\ P[i].role = "user" /\ P[i].uses = {} /\ P[i].says = {}
             /\ CallsOf(A(i)) = f[i].uses
             /\ \A a, b \in A(i) : a.call = b.call => a = b
             /\ P[i].results # {} <=> f[i].uses # {}
  <2>1. f[i].uses \in SUBSET Call
    BY <1>2, MessageIs
  <2>2. \A c \in f[i].uses : LastAnswer(f, c) \in Answers /\ LastAnswer(f, c).call = c
    BY <1>1, <2>1, LastAnswerIs
  <2>3. A(i) \in SUBSET Answers
    BY <2>2
  <2>4. P[i] = UserMessage(A(i), {})
    BY <1>1
  <2>5. CallsOf(A(i)) = f[i].uses
    BY <2>2 DEF CallsOf
  <2>6. \A a, b \in A(i) : a.call = b.call => a = b
    BY <2>2
  <2>7. A(i) # {} <=> f[i].uses # {}
    OBVIOUS
  <2>. HIDE DEF A, P
  <2>8. /\ P[i] \in Messages /\ P[i].results = A(i)
        /\ P[i].role = "user" /\ P[i].uses = {} /\ P[i].says = {}
    BY <2>3, <2>4 DEF UserMessage, Messages
  <2>. QED
    BY <2>5, <2>6, <2>7, <2>8
<1>6. /\ \A k \in 1..2 * N : \E i \in 1..N : k = 2 * i - 1 \/ k = 2 * i
      /\ \A i \in 1..N : /\ 2 * i - 1 \in 1..2 * N /\ s[2 * i - 1] = L[i]
                         /\ 2 * i \in 1..2 * N /\ s[2 * i] = P[i]
  <2>1. N \in Nat
    BY <1>1
  <2>. HIDE DEF L, P, N
  <2>2. \A k \in 1..2 * N : s[k] = IF k % 2 = 1 THEN L[(k + 1) \div 2] ELSE P[k \div 2]
    OBVIOUS
  <2>. HIDE DEF s
  <2>3. \A k \in 1..2 * N : \E i \in 1..N : k = 2 * i - 1 \/ k = 2 * i
    BY <2>1, Slots
  <2>4. ASSUME NEW i \in 1..N
        PROVE  /\ 2 * i - 1 \in 1..2 * N /\ s[2 * i - 1] = L[i]
               /\ 2 * i \in 1..2 * N /\ s[2 * i] = P[i]
    <3>1. /\ 2 * i - 1 \in 1..2 * N /\ (2 * i - 1) % 2 = 1 /\ (2 * i - 1 + 1) \div 2 = i
          /\ 2 * i \in 1..2 * N /\ (2 * i) % 2 = 0 /\ (2 * i) \div 2 = i
      BY <2>1, Slots
    <3>2. s[2 * i - 1] = L[(2 * i - 1 + 1) \div 2]
      BY <2>2, <3>1
    <3>3. s[2 * i] = P[(2 * i) \div 2]
      BY <2>2, <3>1
    <3>. QED
      BY <3>1, <3>2, <3>3
  <2>. QED
    BY <2>3, <2>4
<1>7. s \in Seq(Messages) /\ DOMAIN s = 1..2 * N
  <2>1. 2 * N \in Nat /\ DOMAIN s = 1..2 * N /\ s = [k \in DOMAIN s |-> s[k]]
    BY <1>1
  <2>. HIDE DEF s, L, P, N
  <2>2. ASSUME NEW k \in 1..2 * N PROVE s[k] \in Messages
    <3>1. PICK i \in 1..N : k = 2 * i - 1 \/ k = 2 * i
      BY <1>6
    <3>2. s[2 * i - 1] = L[i] /\ s[2 * i] = P[i]
      BY <1>6
    <3>. QED
      BY <1>4, <1>5, <3>1, <3>2
  <2>. QED
    BY <2>1, <2>2, SeqFrom
<1>8. g = Kept(s)
  BY DEF InjectOrphanInterrupts, Paired
<1>. HIDE DEF g, s, L, P, N, R, A
<1>9. g \in Seq(Messages) /\ \E p : Extracts(g, s, I, p)
  BY <1>7, <1>8, KeptExtracts
<1>10. PICK p : Extracts(g, s, I, p)
  BY <1>9
<1>11. DOMAIN g = 1..Len(g) /\ Len(g) \in Nat /\ I \in SUBSET Nat
  BY <1>7, <1>9
\* A message of g is what is left of one of f, or the answers to its calls.
<1>12. ASSUME NEW n \in DOMAIN g
       PROVE  \E i \in 1..N : \/ p[n] = 2 * i - 1 /\ g[n] = L[i]
                              \/ p[n] = 2 * i /\ g[n] = P[i] /\ f[i].uses # {}
  <2>1. p[n] \in 1..2 * N /\ g[n] = s[p[n]] /\ Holds(s[p[n]])
    BY <1>7, <1>10 DEF Extracts
  <2>2. PICK i \in 1..N : p[n] = 2 * i - 1 \/ p[n] = 2 * i
    BY <1>6, <2>1
  <2>3. CASE p[n] = 2 * i - 1
    BY <1>6, <2>1, <2>3
  <2>4. CASE p[n] = 2 * i
    <3>1. g[n] = P[i] /\ Holds(P[i])
      BY <1>6, <2>1, <2>4
    <3>2. f[i].uses # {}
      BY <1>5, <3>1 DEF Holds
    <3>. QED
      BY <2>4, <3>1, <3>2
  <2>. QED
    BY <2>2, <2>3, <2>4
\* The two stand next to each other.
<1>13. ASSUME NEW i \in 1..N, f[i].uses # {}
       PROVE  \E n \in DOMAIN g : /\ n + 1 \in DOMAIN g
                                  /\ p[n] = 2 * i - 1 /\ g[n] = L[i]
                                  /\ p[n + 1] = 2 * i /\ g[n + 1] = P[i]
  <2>1. f[i].role \in {"user", "assistant"} /\ f[i].role # "user"
    BY <1>1, <1>2, <1>13, MessageIs DEF Conversation, RolesApart
  <2>2. 2 * i - 1 \in I /\ 2 * i \in I
    BY <1>4, <1>5, <1>6, <1>7, <1>13, <2>1 DEF Holds
  <2>3. PICK m \in DOMAIN g, n \in DOMAIN g : p[m] = 2 * i - 1 /\ p[n] = 2 * i
    BY <1>10, <2>2 DEF Extracts
  <2>4. p[m] < p[n] /\ \A k \in I : ~(p[m] < k /\ k < p[n])
    BY <1>11, <2>3
  <2>5. n = m + 1
    <3>. HIDE DEF I
    <3>. QED
      BY <1>10, <1>11, <2>4, ExtractsNext
  <2>6. g[m] = s[2 * i - 1] /\ g[n] = s[2 * i]
    BY <1>10, <2>3 DEF Extracts
  <2>. QED
    BY <1>6, <2>3, <2>5, <2>6
<1>14. ASSUME NEW m \in DOMAIN g, NEW n \in DOMAIN g, p[m] = p[n]
       PROVE  m = n
  <2>. HIDE DEF I
  <2>. QED
    BY <1>10, <1>11, <1>14, ExtractsOnce
<1>15. RolesApart(g)
  <2>1. ASSUME NEW n \in DOMAIN g
        PROVE  IF g[n].role = "user" THEN g[n].uses = {} ELSE g[n].results = {}
    <3>1. PICK i \in 1..N : g[n] = L[i] \/ g[n] = P[i]
      BY <1>12
    <3>2. IF f[i].role = "user" THEN f[i].uses = {} ELSE f[i].results = {}
      BY <1>1 DEF Conversation, RolesApart
    <3>. QED
      BY <1>4, <1>5, <3>1, <3>2
  <2>. QED
    BY <2>1 DEF RolesApart
\* A message of g with calls is what is left of one of f.
<1>16. ASSUME NEW n \in DOMAIN g, g[n].uses # {}
       PROVE  \E i \in 1..N : p[n] = 2 * i - 1 /\ f[i].uses = g[n].uses
  BY <1>4, <1>5, <1>12, <1>16
<1>17. CallsOnce(g)
  <2>1. ASSUME NEW m \in DOMAIN g, NEW n \in DOMAIN g, NEW c, c \in g[m].uses, c \in g[n].uses
        PROVE  m = n
    <3>1. PICK i \in 1..N : p[m] = 2 * i - 1 /\ f[i].uses = g[m].uses
      BY <1>16, <2>1
    <3>2. PICK j \in 1..N : p[n] = 2 * j - 1 /\ f[j].uses = g[n].uses
      BY <1>16, <2>1
    <3>3. i = j
      BY <1>1, <2>1, <3>1, <3>2 DEF Conversation, CallsOnce
    <3>. QED
      BY <1>14, <3>1, <3>2, <3>3
  <2>. QED
    BY <2>1 DEF CallsOnce
<1>18. AnswersNext(g)
  <2>1. ASSUME NEW n \in DOMAIN g, g[n].results # {}
        PROVE  n > 1 /\ CallsOf(g[n].results) = g[n - 1].uses
    <3>1. PICK i \in 1..N : p[n] = 2 * i /\ g[n] = P[i] /\ f[i].uses # {}
      BY <1>4, <1>12, <2>1
    <3>2. PICK m \in DOMAIN g : /\ m + 1 \in DOMAIN g /\ g[m] = L[i]
                                /\ p[m + 1] = 2 * i
      BY <1>13, <3>1
    <3>3. n = m + 1 /\ m \in Nat /\ m >= 1
      BY <1>11, <1>14, <3>1, <3>2
    <3>4. m = n - 1 /\ n > 1
      BY <3>3
    <3>. QED
      BY <1>4, <1>5, <3>1, <3>2, <3>4
  <2>2. ASSUME NEW n \in DOMAIN g, g[n].uses # {}
        PROVE  n < Len(g) /\ CallsOf(g[n + 1].results) = g[n].uses /\ g[n + 1].role = "user"
    <3>1. PICK i \in 1..N : p[n] = 2 * i - 1 /\ f[i].uses = g[n].uses
      BY <1>16, <2>2
    <3>2. PICK m \in DOMAIN g : /\ m + 1 \in DOMAIN g /\ p[m] = 2 * i - 1
                                /\ g[m + 1] = P[i]
      BY <1>13, <2>2, <3>1
    <3>3. m = n
      BY <1>14, <3>1, <3>2
    <3>4. n < Len(g)
      BY <1>11, <3>2, <3>3
    <3>. QED
      BY <1>5, <3>1, <3>2, <3>3, <3>4
  <2>3. ASSUME NEW n \in DOMAIN g, NEW a \in g[n].results, NEW b \in g[n].results, a.call = b.call
        PROVE  a = b
    BY <1>4, <1>5, <1>12, <2>3
  <2>. QED
    BY <2>1, <2>2, <2>3 DEF AnswersNext
<1>19. ASSUME NEW c \in Used(f)
       PROVE  \E n \in DOMAIN g : LastAnswer(f, c) \in g[n].results
  <2>1. PICK i \in 1..N : c \in f[i].uses
    BY <1>1, <1>19 DEF Used
  <2>2. PICK n \in DOMAIN g : n + 1 \in DOMAIN g /\ g[n + 1] = P[i]
    BY <1>13, <2>1
  <2>. QED
    BY <1>5, <2>1, <2>2 DEF A
<1>. QED
  BY <1>9, <1>15, <1>17, <1>18, <1>19 DEF g

LEMMA CoalesceIs ==
  ASSUME NEW g \in Seq(Messages), RolesApart(g), CallsOnce(g), AnswersNext(g)
  PROVE  LET h == CoalesceConsecutiveSameRole(g)
         IN  /\ WellFormed(h)
             /\ \A n \in DOMAIN g : g[n].results # {} =>
                  \E k \in DOMAIN h : h[k].results = g[n].results
<1>. DEFINE N == Len(g)
            B == Begins(g)
            M == {Joined(g, i) : i \in DOMAIN g}
            s == [i \in DOMAIN g |-> Joined(g, i)]
            h == CoalesceConsecutiveSameRole(g)
<1>1. N \in Nat /\ DOMAIN g = 1..N
  OBVIOUS
<1>2. ASSUME NEW i \in 1..N
      PROVE  /\ g[i].role \in {"user", "assistant"}
             /\ g[i].uses # {} => g[i].role = "assistant"
             /\ g[i].results # {} => g[i].role = "user"
  <2>1. g[i] \in Messages
    BY <1>1
  <2>. QED
    BY <1>1, <2>1, MessageIs DEF RolesApart
<1>3. B \in SUBSET (1..N) /\ \A i \in 1..N : i \in B <=> (i > 1 => g[i].role # g[i - 1].role)
  BY <1>1 DEF Begins
<1>4. ASSUME NEW i \in 1..N, NEW j
      PROVE  j \in Run(g, i) <=> j \in i..N /\ \A k \in i..j : g[k].role = g[i].role
  BY DEF Run
<1>5. ASSUME NEW i \in 1..N
      PROVE  /\ Joined(g, i).role = g[i].role
             /\ Joined(g, i).uses = UNION {g[j].uses : j \in Run(g, i)}
             /\ Joined(g, i).results = UNION {g[j].results : j \in Run(g, i)}
  BY DEF Joined
<1>6. s \in Seq(M) /\ DOMAIN s = 1..N
  <2>1. DOMAIN s = 1..N /\ s = [i \in DOMAIN s |-> s[i]] /\ \A i \in 1..N : s[i] \in M
    BY <1>1
  <2>. HIDE DEF s, M, N
  <2>. QED
    BY <1>1, <2>1, SeqFrom
<1>7. h = At(s, B)
  BY DEF CoalesceConsecutiveSameRole
<1>. HIDE DEF h, s, M, B
<1>8. h \in Seq(M) /\ \E p : Extracts(h, s, B, p)
  BY <1>3, <1>6, <1>7, AtExtracts
<1>9. PICK p : Extracts(h, s, B, p)
  BY <1>8
<1>10. DOMAIN h = 1..Len(h) /\ Len(h) \in Nat /\ B \in SUBSET Nat
  BY <1>1, <1>3, <1>8
<1>. HIDE DEF N
<1>11. ASSUME NEW n \in DOMAIN h
       PROVE  /\ p[n] \in 1..N /\ p[n] \in B /\ h[n] = Joined(g, p[n])
  <2>1. p[n] \in B /\ h[n] = s[p[n]]
    BY <1>9 DEF Extracts
  <2>. QED
    BY <1>1, <1>3, <2>1 DEF s
\* Inside a run the role stays what it was: no message of it but the first
\* has answers, and none begins a run.
<1>12. ASSUME NEW i \in 1..N, NEW j \in Run(g, i), j # i
       PROVE  j \in 1..N /\ i < j /\ j \notin B /\ g[j].results = {}
  <2>1. j \in i..N /\ \A k \in i..j : g[k].role = g[i].role
    BY <1>4
  <2>2. i \in Nat /\ j \in Nat /\ i < j /\ j \in 1..N /\ j - 1 \in 1..N /\ j > 1
    BY <1>1, <1>12, <2>1
  <2>3. g[j].role = g[j - 1].role
    <3>1. j - 1 \in i..j /\ j \in i..j
      BY <2>2
    <3>. QED
      BY <2>1, <3>1
  <2>4. j \notin B
    BY <1>3, <2>2, <2>3
  <2>5. g[j].results = {}
    <3>1. SUFFICES ASSUME g[j].results # {} PROVE FALSE
      OBVIOUS
    <3>2. CallsOf(g[j].results) = g[j - 1].uses
      BY <1>1, <2>2, <3>1 DEF AnswersNext
    <3>3. g[j - 1].uses # {}
      BY <3>1, <3>2 DEF CallsOf
    <3>. QED
      BY <1>2, <2>2, <2>3, <3>1, <3>3
  <2>. QED
    BY <2>2, <2>4, <2>5
<1>13. ASSUME NEW i \in 1..N
       PROVE  i \in Run(g, i)
  BY <1>1, <1>4
<1>14. ASSUME NEW n \in DOMAIN h
       PROVE  h[n].role = g[p[n]].role /\ h[n].results = g[p[n]].results
  <2>1. p[n] \in 1..N /\ h[n] = Joined(g, p[n])
    BY <1>11
  <2>2. UNION {g[j].results : j \in Run(g, p[n])} = g[p[n]].results
    <3>1. \A j \in Run(g, p[n]) : j # p[n] => g[j].results = {}
      BY <1>12, <2>1
    <3>2. p[n] \in Run(g, p[n])
      BY <1>13, <2>1
    <3>. QED
      BY <3>1, <3>2
  <2>. QED
    BY <1>5, <2>1, <2>2
\* A message with calls ends its run.
<1>15. ASSUME NEW n \in DOMAIN h, NEW j \in Run(g, p[n]), g[j].uses # {}
       PROVE  /\ j \in 1..N /\ n + 1 \in DOMAIN h /\ p[n + 1] = j + 1
              /\ CallsOf(g[j + 1].results) = g[j].uses
  <2>1. j \in 1..N /\ p[n] \in 1..N /\ p[n] <= j
    <3>1. p[n] \in 1..N
      BY <1>11
    <3>. QED
      BY <1>4, <1>1, <3>1
  <2>2. j < N /\ CallsOf(g[j + 1].results) = g[j].uses /\ g[j + 1].role = "user"
    BY <1>1, <1>15, <2>1 DEF AnswersNext, N
  <2>3. j + 1 \in 1..N /\ j + 1 > 1 /\ j + 1 - 1 = j
    BY <1>1, <2>1, <2>2
  <2>4. j + 1 \in B
    BY <1>2, <1>3, <1>15, <2>1, <2>2, <2>3
  <2>5. PICK m \in DOMAIN h : p[m] = j + 1
    BY <1>9, <2>4 DEF Extracts
  <2>6. p[n] < p[m]
    BY <1>1, <2>1, <2>5
  <2>7. ASSUME NEW i \in B, p[n] < i, i < p[m]
        PROVE  FALSE
    <3>1. i \in p[n]..j /\ i # p[n] /\ i \in 1..N
      BY <1>1, <1>3, <2>1, <2>5, <2>7
    <3>2. \A k \in p[n]..j : g[k].role = g[p[n]].role
      BY <1>4, <2>1
    <3>3. i \in Run(g, p[n])
      <4>1. i \in p[n]..N
        BY <1>1, <2>1, <3>1
      <4>2. \A k \in p[n]..i : k \in p[n]..j
        BY <1>1, <2>1, <3>1
      <4>. QED
        BY <1>4, <2>1, <3>2, <4>1, <4>2
    <3>. QED
      BY <1>12, <2>1, <2>7, <3>1, <3>3
  <2>8. m = n + 1
    BY <1>9, <1>10, <2>6, <2>7, ExtractsNext
  <2>. QED
    BY <2>1, <2>2, <2>5, <2>8
\* Up to the next run the role stays the same.
<1>16. ASSUME NEW n \in DOMAIN h, n + 1 \in DOMAIN h
       PROVE  p[n + 1] - 1 \in Run(g, p[n]) /\ p[n + 1] > 1
  <2>. DEFINE a == p[n]
              b == p[n + 1]
              X == {k \in a..b - 1 : g[k].role # g[a].role}
  <2>1. a \in 1..N /\ b \in 1..N /\ b \in B
    BY <1>11, <1>16
  <2>2. n < n + 1 /\ a < b
    BY <1>9, <1>10, <1>16 DEF Extracts
  <2>3. ASSUME X # {} PROVE FALSE
    <3>. DEFINE k == Min(X)
    <3>1. X \in SUBSET Nat
      BY <1>1, <2>1
    <3>2. k \in X /\ \A y \in X : k <= y
      <4>. HIDE DEF X
      <4>. QED
        BY <2>3, <3>1, MinIs
    <3>. HIDE DEF k
    <3>3. k \in Nat /\ a \in Nat /\ b \in Nat /\ a <= k /\ k < b /\ g[k].role # g[a].role
      BY <1>1, <2>1, <3>2
    <3>4. a < k
      BY <3>3
    <3>5. k - 1 \in a..b - 1 /\ k - 1 < k /\ k \in 1..N /\ k > 1
      BY <1>1, <2>1, <3>3, <3>4
    <3>6. g[k - 1].role = g[a].role
      <4>1. k - 1 \notin X
        BY <3>2, <3>3, <3>5
      <4>. QED
        BY <3>5, <4>1
    <3>7. k \in B
      BY <1>3, <3>3, <3>5, <3>6
    <3>8. PICK m \in DOMAIN h : p[m] = k
      BY <1>9, <3>7 DEF Extracts
    <3>9. n < m /\ m < n + 1
      BY <1>9, <1>16, <3>3, <3>4, <3>8 DEF Extracts
    <3>10. n \in Nat /\ m \in Nat
      BY <1>10
    <3>. QED
      BY <3>9, <3>10
  <2>4. b - 1 \in a..N /\ b > 1
    BY <1>1, <2>1, <2>2
  <2>5. \A k \in a..b - 1 : g[k].role = g[a].role
    BY <2>3
  <2>. HIDE DEF a, b
  <2>6. b - 1 \in Run(g, a) /\ b > 1
    BY <1>4, <2>1, <2>4, <2>5
  <2>. QED
    BY <2>6 DEF a, b
<1>17. ASSUME NEW n \in DOMAIN h, n + 1 \in DOMAIN h
       PROVE  h[n + 1].role # h[n].role /\ CallsOf(h[n + 1].results) = h[n].uses
  <2>. DEFINE b == p[n + 1]
  <2>1. b \in 1..N /\ b \in B /\ b - 1 \in Run(g, p[n]) /\ b > 1 /\ p[n] \in 1..N
    BY <1>11, <1>16, <1>17
  <2>2. b - 1 \in 1..N /\ g[b - 1].role = g[p[n]].role
    <3>1. b - 1 \in p[n]..N /\ \A k \in p[n]..b - 1 : g[k].role = g[p[n]].role
      BY <1>4, <2>1
    <3>2. b - 1 \in p[n]..b - 1 /\ b - 1 \in 1..N
      BY <1>1, <2>1, <3>1
    <3>. QED
      BY <3>1, <3>2
  <2>3. g[b].role # g[b - 1].role
    BY <1>3, <2>1
  <2>4. h[n + 1].role # h[n].role
    BY <1>14, <1>17, <2>2, <2>3
  <2>5. ASSUME NEW c \in h[n].uses
        PROVE  c \in CallsOf(g[b].results)
    <3>1. PICK j \in Run(g, p[n]) : c \in g[j].uses
      BY <1>5, <1>11, <2>1
    <3>2. b = j + 1 /\ CallsOf(g[j + 1].results) = g[j].uses
      BY <1>15, <3>1
    <3>. QED
      BY <3>1, <3>2
  <2>6. ASSUME NEW c \in CallsOf(g[b].results)
        PROVE  c \in h[n].uses
    <3>1. g[b].results # {}
      BY <2>6 DEF CallsOf
    <3>2. c \in g[b - 1].uses
      BY <1>1, <2>1, <2>6, <3>1 DEF AnswersNext
    <3>. QED
      BY <1>5, <1>11, <2>1, <3>2
  <2>7. CallsOf(g[b].results) = h[n].uses
    BY <2>5, <2>6
  <2>. QED
    BY <1>14, <1>17, <2>4, <2>7
\* Nothing stands before the first run.
<1>18. ASSUME 1 \in DOMAIN h
       PROVE  CallsOf(h[1].results) = {}
  <2>1. p[1] \in 1..N
    BY <1>11, <1>18
  <2>2. 1 \in 1..N /\ 1 \in B
    BY <1>1, <1>3, <2>1
  <2>3. PICK m \in DOMAIN h : p[m] = 1
    BY <1>9, <2>2 DEF Extracts
  <2>4. ~(1 < m)
    <3>1. 1 < m => p[1] < p[m]
      BY <1>9, <1>18 DEF Extracts
    <3>. QED
      BY <1>1, <2>1, <2>3, <3>1
  <2>5. m = 1
    BY <1>10, <2>4
  <2>6. g[1].results = {}
    BY <1>1, <2>2 DEF AnswersNext
  <2>. QED
    BY <1>14, <1>18, <2>3, <2>5, <2>6 DEF CallsOf
<1>19. ASSUME NEW m \in DOMAIN h, NEW n \in DOMAIN h, NEW c, c \in h[m].uses, c \in h[n].uses
       PROVE  m = n
  <2>1. PICK i \in Run(g, p[m]) : c \in g[i].uses
    BY <1>5, <1>11, <1>19
  <2>2. PICK j \in Run(g, p[n]) : c \in g[j].uses
    BY <1>5, <1>11, <1>19
  <2>3. /\ i \in 1..N /\ m + 1 \in DOMAIN h /\ p[m + 1] = i + 1
        /\ j \in 1..N /\ n + 1 \in DOMAIN h /\ p[n + 1] = j + 1
    BY <1>15, <2>1, <2>2
  <2>4. i = j
    BY <1>1, <2>1, <2>2, <2>3 DEF CallsOnce
  <2>5. m + 1 = n + 1
    BY <1>9, <1>10, <2>3, <2>4, ExtractsOnce
  <2>. QED
    BY <1>10, <2>5
<1>20. ASSUME NEW n \in DOMAIN h, h[n].uses # {}
       PROVE  n < Len(h)
  <2>1. PICK j \in Run(g, p[n]) : g[j].uses # {}
    BY <1>5, <1>11, <1>20
  <2>2. n + 1 \in DOMAIN h
    BY <1>15, <2>1
  <2>. QED
    BY <1>10, <2>2
<1>21. ASSUME NEW n \in DOMAIN h, NEW a \in h[n].results, NEW b \in h[n].results, a.call = b.call
       PROVE  a = b
  BY <1>1, <1>11, <1>14, <1>21 DEF AnswersNext
<1>22. ASSUME NEW n \in DOMAIN h
       PROVE  /\ n > 1 => h[n].role # h[n - 1].role
              /\ CallsOf(h[n].results) = IF n = 1 THEN {} ELSE h[n - 1].uses
  <2>1. CASE n = 1
    BY <1>18, <2>1
  <2>2. CASE n # 1
    <3>1. n - 1 \in DOMAIN h /\ n - 1 + 1 = n
      BY <1>10, <2>2
    <3>. QED
      BY <1>17, <2>2, <3>1
  <2>. QED
    BY <2>1, <2>2
<1>23. WellFormed(h)
  BY <1>19, <1>20, <1>21, <1>22 DEF WellFormed
<1>24. ASSUME NEW n \in DOMAIN g, g[n].results # {}
       PROVE  \E k \in DOMAIN h : h[k].results = g[n].results
  <2>1. n \in 1..N /\ n > 1 /\ CallsOf(g[n].results) = g[n - 1].uses
    BY <1>1, <1>24 DEF AnswersNext
  <2>2. g[n - 1].uses # {} /\ n - 1 \in 1..N
    <3>1. CallsOf(g[n].results) # {}
      BY <1>24 DEF CallsOf
    <3>2. n - 1 \in 1..N
      BY <1>1, <2>1
    <3>. QED
      BY <2>1, <3>1, <3>2
  <2>3. n \in B
    BY <1>2, <1>3, <1>24, <2>1, <2>2
  <2>4. PICK k \in DOMAIN h : p[k] = n
    BY <1>9, <2>3 DEF Extracts
  <2>. QED
    BY <1>14, <2>4
<1>. QED
  BY <1>23, <1>24 DEF h

\* A conversation of the loop, repaired, is what a provider accepts, and a call
\* it holds is answered with the outcome it holds, if it holds no other.
LEMMA SanitizeIs ==
  ASSUME NEW ms, Conversation(ms)
  PROVE  /\ WellFormed(SanitizeMessages(ms))
         /\ \A c \in Call : \A is \in {"real", "cut"} :
              /\ c \in Used(ms)
              /\ \E i \in DOMAIN ms : Answer(c, is) \in ms[i].results
              /\ \A i \in DOMAIN ms : \A a \in ms[i].results : a.call = c => a.is = is
              => \E m \in ToSet(SanitizeMessages(ms)) : Answer(c, is) \in m.results
<1>. DEFINE f == FilterUnknownToolResults(ms)
            g == InjectOrphanInterrupts(f)
            h == CoalesceConsecutiveSameRole(g)
<1>1. h = SanitizeMessages(ms)
  BY DEF SanitizeMessages
<1>2. /\ Conversation(f)
      /\ Used(f) = Used(ms)
      /\ \A n \in DOMAIN f : \A a \in f[n].results : a.call \in Used(f)
      /\ \A n \in DOMAIN f : \A a \in f[n].results : \E i \in DOMAIN ms : a \in ms[i].results
      /\ \A i \in DOMAIN ms : \A a \in ms[i].results :
           a.call \in Used(ms) => \E n \in DOMAIN f : a \in f[n].results
  BY FilterIs
<1>. HIDE DEF f
<1>3. /\ g \in Seq(Messages) /\ RolesApart(g) /\ CallsOnce(g) /\ AnswersNext(g)
      /\ \A c \in Used(f) : \E n \in DOMAIN g : LastAnswer(f, c) \in g[n].results
  BY <1>2, InjectIs
<1>. HIDE DEF g
<1>4. /\ WellFormed(h)
      /\ \A n \in DOMAIN g : g[n].results # {} =>
           \E k \in DOMAIN h : h[k].results = g[n].results
  BY <1>3, CoalesceIs
<1>. HIDE DEF h
<1>5. ASSUME NEW c \in Call, NEW is \in {"real", "cut"}, c \in Used(ms),
             NEW i \in DOMAIN ms, Answer(c, is) \in ms[i].results,
             \A j \in DOMAIN ms : \A a \in ms[j].results : a.call = c => a.is = is
      PROVE  \E m \in ToSet(h) : Answer(c, is) \in m.results
  <2>1. Answer(c, is).call = c
    BY AnswerOf
  <2>2. PICK n \in DOMAIN f : Answer(c, is) \in f[n].results
    BY <1>2, <1>5, <2>1
  <2>3. /\ LastAnswer(f, c) \in Answers /\ LastAnswer(f, c).call = c
        /\ \E k \in DOMAIN f : LastAnswer(f, c) \in f[k].results
    BY <1>2, <2>1, <2>2, LastAnswerIs DEF Conversation
  <2>4. PICK j \in DOMAIN ms : LastAnswer(f, c) \in ms[j].results
    BY <1>2, <2>3
  <2>5. LastAnswer(f, c) = Answer(c, is)
    BY <1>5, <2>3, <2>4, AnswerIs
  <2>6. PICK k \in DOMAIN g : Answer(c, is) \in g[k].results
    BY <1>2, <1>3, <1>5, <2>5
  <2>7. PICK l \in DOMAIN h : h[l].results = g[k].results
    BY <1>4, <2>6
  <2>. QED
    BY <2>6, <2>7 DEF ToSet
<1>. QED
  BY <1>1, <1>4, <1>5

-----------------------------------------------------------------------------
(* The turns and the input typed meanwhile.                                 *)

Shaped(r) ==
  /\ {"pc", "next", "holds", "forced"} \subseteq DOMAIN r
  /\ r.pc \in Pcs
  /\ r.next \in {"top", "ready", "closing"}

\* What the proofs need of the types.
Shape ==
  /\ DOMAIN turns = Turn
  /\ \A t \in Turn : Shaped(turns[t])
  /\ epoch \in 0..MaxTurn
  /\ turnActive \in BOOLEAN

\* The turns that have begun are those up to the epoch.
BegunInOrder == \A t \in Turn : turns[t].pc = "unborn" <=> t > epoch

IInv == Shape /\ BegunInOrder /\ TurnActiveIsTheLatest /\ QueuedInputIsWritten

\* What a step of the loop does to the input that was typed meanwhile.
CarriesInput(t) ==
  \/ typed' = typed /\ (turns[t].pc # "sealing" \/ ~turns[t].holds)
  \/ typed' = "held" /\ turns'[t].pc = "sealing" /\ turns'[t].holds
  \/ typed' = "sent" /\ TypedMeanwhile \in sent'

\* What only the latest turn may do.
GoesNoFurther(t) ==
  turns'[t].pc # turns[t].pc =>
    /\ turns'[t].pc # "opening"
    /\ turns'[t].pc = "hooking" => ~turns'[t].forced
    /\ turns[t].pc = "stopping" => turns'[t].pc = "done"

\* A step of turn t: it runs before and has begun after, it moves no other
\* turn, and it goes further only as the latest.
Runs(t) ==
  /\ turns[t].pc \notin {"unborn", "done"}
  /\ DOMAIN turns' = Turn
  /\ \A u \in Turn \ {t} : turns'[u] = turns[u]
  /\ Shaped(turns'[t])
  /\ turns'[t].pc # "unborn"
  /\ IsSuperseded(t) => GoesNoFurther(t)
  /\ epoch' = epoch
  /\ turnActive' = IF turns'[t].pc = "done" THEN SettledTurnActive(t) ELSE turnActive
  /\ sent \subseteq sent'
  /\ CarriesInput(t)

-----------------------------------------------------------------------------
(* Every step of a turn is of this kind.                                    *)

LEMMA FreshShaped == Shaped([Fresh EXCEPT !.pc = "done"]) /\ [Fresh EXCEPT !.pc = "done"].pc = "done"
BY DEF Shaped, Fresh, Pcs

LEMMA PushKeeps ==
  ASSUME NEW m, Push(m)
  PROVE  sent' = sent \union m.says
BY DEF Push

LEMMA CommitKeeps ==
  ASSUME NEW t, NEW n, Commit(t, n)
  PROVE  sent \subseteq sent'
BY PushKeeps DEF Commit, Silent

\* The finally block of a turn.
LEMMA EndEffect ==
  ASSUME Shape, NEW t \in Turn, End(t)
  PROVE  /\ DOMAIN turns' = Turn
         /\ \A u \in Turn \ {t} : turns'[u] = turns[u]
         /\ Shaped(turns'[t]) /\ turns'[t].pc = "done"
         /\ turnActive' = SettledTurnActive(t)
BY FreshShaped DEF Shape, End

LEMMA EndOnlyRuns ==
  ASSUME Shape, NEW t \in Turn, EndOnly(t),
         turns[t].pc \notin {"unborn", "done", "sealing"}
  PROVE  Runs(t)
<1>1. End(t) /\ UNCHANGED <<epoch, sent, typed>>
  BY DEF EndOnly, Silent
<1>. QED
  BY <1>1, EndEffect DEF Runs, CarriesInput, GoesNoFurther

LEMMA StreamCallsEffect ==
  ASSUME NEW t, StreamCalls(t)
  PROVE  \E n, gs :
           /\ Commit(t, n)
           /\ turns' = [turns EXCEPT ![t].pc = "tools", ![t].batch = n,
                         ![t].groups = gs, ![t].round = @ + 1,
                         ![t].verdict = "go"]
BY Zenon DEF StreamCalls

LEMMA StreamOrphansEffect ==
  ASSUME NEW t, StreamOrphans(t)
  PROVE  \E n \in {0} \union (IF "orphan" \in Features[t] THEN 1..MaxCalls[t] ELSE {}) :
           /\ Commit(t, n)
           /\ \/ /\ turns' = [turns EXCEPT ![t].pc = "top", ![t].lengths = @ + 1,
                              ![t].round = Committed(t, n)]
                 /\ turnActive' = turnActive
              \/ /\ \E empty : turns' = [turns EXCEPT ![t].pc = "stopping",
                              ![t].round = Committed(t, n), ![t].empty = empty,
                              ![t].silent = SilentAfter(t, empty)]
                 /\ turnActive' = turnActive
              \/ End(t)
BY Zenon DEF StreamOrphans

LEMMA RoundRuns ==
  ASSUME Shape, NEW t \in Turn, Round(t)
  PROVE  Runs(t)
<1>. USE DEF Shape, Shaped, Pcs, Runs, CarriesInput, GoesNoFurther, Silent, Host, Goto
<1>1. CASE \/ TopEnds(t) \/ ContextFull(t) \/ StreamDropped(t)
           \/ StopCancelled(t) \/ StopDeferred(t)
  BY <1>1, EndOnlyRuns DEF TopEnds, ContextFull, StreamDropped, StopCancelled, StopDeferred
<1>2. CASE OpenStream(t) \/ StreamOpens(t)
  BY <1>2 DEF OpenStream, StreamOpens, IsCancelled
<1>3. CASE StreamCalls(t)
  <2>1. PICK n, gs :
          /\ Commit(t, n)
          /\ turns' = [turns EXCEPT ![t].pc = "tools", ![t].batch = n,
                        ![t].groups = gs, ![t].round = @ + 1,
                        ![t].verdict = "go"]
    BY <1>3, StreamCallsEffect
  <2>2. sent \subseteq sent'
    BY <2>1, CommitKeeps
  <2>3. turns[t].pc = "stream" /\ UNCHANGED <<epoch, turnActive, typed>>
    BY <1>3 DEF StreamCalls, Streaming
  <2>. QED
    BY <2>1, <2>2, <2>3
<1>4. CASE StreamOrphans(t)
  <2>1. PICK n : Commit(t, n)
    BY <1>4, StreamOrphansEffect
  <2>2. sent \subseteq sent'
    BY <2>1, CommitKeeps
  <2>3. turns[t].pc = "stream" /\ UNCHANGED <<epoch, typed>>
    BY <1>4 DEF StreamOrphans, Streaming
  <2>4. CASE End(t)
    BY <2>2, <2>3, <2>4, EndEffect
  <2>. QED
    <3>1. PICK m :
            \/ /\ turns' = [turns EXCEPT ![t].pc = "top", ![t].lengths = @ + 1,
                                         ![t].round = Committed(t, m)]
               /\ turnActive' = turnActive
            \/ /\ \E empty : turns' = [turns EXCEPT ![t].pc = "stopping",
                                ![t].round = Committed(t, m), ![t].empty = empty,
                                ![t].silent = SilentAfter(t, empty)]
               /\ turnActive' = turnActive
            \/ End(t)
      BY <1>4, StreamOrphansEffect
    <3>2. CASE /\ turns' = [turns EXCEPT ![t].pc = "top", ![t].lengths = @ + 1,
                                          ![t].round = Committed(t, m)]
               /\ turnActive' = turnActive
      BY <2>2, <2>3, <3>2
    <3>3. ASSUME NEW empty, turnActive' = turnActive,
                 turns' = [turns EXCEPT ![t].pc = "stopping",
                             ![t].round = Committed(t, m), ![t].empty = empty,
                             ![t].silent = SilentAfter(t, empty)]
          PROVE  Runs(t)
      BY <2>2, <2>3, <3>3
    <3>. QED
      BY <2>4, <3>1, <3>2, <3>3, Zenon
<1>5. CASE StreamCapped(t)
  <2>1. End(t) /\ turns[t].pc = "stream" /\ UNCHANGED <<epoch, typed, sent>>
    BY <1>5 DEF StreamCapped, Streaming
  <2>. QED
    BY <2>1, EndEffect
<1>6. CASE StreamMalformed(t)
  BY <1>6 DEF StreamMalformed, Streaming
<1>7. CASE StopBlocked(t) \/ StopSilent(t)
  BY <1>7 DEF StopBlocked, StopSilent, MayStop, IsCancelled
<1>8. CASE StopTakesInput(t)
  <2>1. PICK m : Push(m) /\ m.says = {TypedMeanwhile}
    BY <1>8 DEF StopTakesInput, UserMessage
  <2>2. sent' = sent \union {TypedMeanwhile}
    BY <2>1, PushKeeps
  <2>. QED
    BY <1>8, <2>2 DEF StopTakesInput, MayStop, IsCancelled
<1>9. CASE StopCompletes(t)
  <2>1. CASE EndOnly(t)
    BY <1>9, <2>1, EndOnlyRuns DEF StopCompletes
  <2>2. CASE ~EndOnly(t)
    BY <1>9, <2>2 DEF StopCompletes, MayStop, IsCancelled
  <2>. QED
    BY <2>1, <2>2
<1>. QED
  BY <1>1, <1>2, <1>3, <1>4, <1>5, <1>6, <1>7, <1>8, <1>9 DEF Round

LEMMA CompactionRuns ==
  ASSUME Shape, NEW t \in Turn, Compaction(t)
  PROVE  Runs(t)
<1>. USE DEF Shape, Shaped, Pcs, Runs, CarriesInput, GoesNoFurther, Silent, Host, Goto
<1>1. CASE MaybeCompact(t) \/ ForceCompact(t)
  BY <1>1 DEF MaybeCompact, ForceCompact, IsCancelled
<1>2. CASE Summarize(t)
  <2>1. PICK k : turns' = [turns EXCEPT
                   ![t].pc = "summarizing",
                   ![t].plan = PlanFrom(k),
                   ![t].signal = IF turns[t].forced THEN -t ELSE active]
    BY <1>2 DEF Summarize
  <2>2. turns[t].pc = "hooking" /\ UNCHANGED <<epoch, turnActive, typed, sent>>
    BY <1>2 DEF Summarize
  <2>. QED
    BY <2>1, <2>2
<1>3. CASE SummaryArrives(t)
  BY <1>3 DEF SummaryArrives
<1>4. CASE SummaryFails(t) \/ BoundaryWritten(t) \/ BoundaryFails(t)
  BY <1>4 DEF SummaryFails, BoundaryWritten, BoundaryFails, LeaveCompaction
<1>5. CASE Close(t)
  BY <1>5, EndOnlyRuns DEF Close
<1>. QED
  BY <1>1, <1>2, <1>3, <1>4, <1>5 DEF Compaction

\* A batch that ends takes the queued input along, or leaves it.
LEMMA FinalizeRuns ==
  ASSUME Shape, NEW t \in Turn, turns[t].pc = "tools", NEW verdict, NEW outcome,
         Finalize(t, verdict, outcome), UNCHANGED <<epoch, turnActive, sent>>
  PROVE  Runs(t)
<1>1. turns' = [turns EXCEPT ![t].pc = "sealing", ![t].verdict = verdict,
                             ![t].groups = <<>>, ![t].holds = TakesInput(t, verdict)]
  BY DEF Finalize
<1>2. CASE TakesInput(t, verdict)
  <2>1. typed' = "held"
    BY <1>2 DEF Finalize
  <2>. QED
    BY <1>1, <1>2, <2>1 DEF Shape, Shaped, Pcs, Runs, CarriesInput, GoesNoFurther
<1>3. CASE ~TakesInput(t, verdict)
  <2>1. typed' = typed
    BY <1>3 DEF Finalize
  <2>. QED
    BY <1>1, <2>1 DEF Shape, Shaped, Pcs, Runs, CarriesInput, GoesNoFurther
<1>. QED
  BY <1>2, <1>3

LEMMA SealRuns ==
  ASSUME Shape, NEW t \in Turn, Seal(t)
  PROVE  Runs(t)
<1>1. turns[t].pc = "sealing" /\ epoch' = epoch
  BY DEF Seal
<1>2. sent' = sent \union SealedBatch(t).says
  BY PushKeeps DEF Seal
<1>3. SealedBatch(t).says = IF turns[t].holds THEN {TypedMeanwhile} ELSE {}
  BY DEF SealedBatch, UserMessage
<1>4. typed' = IF turns[t].holds THEN "sent" ELSE typed
  BY DEF Seal
<1>5. CarriesInput(t)
  BY <1>2, <1>3, <1>4 DEF CarriesInput
<1>6. CASE End(t)
  BY <1>1, <1>2, <1>5, <1>6, EndEffect DEF Runs, GoesNoFurther
<1>7. CASE ~End(t)
  <2>1. /\ turns' = [turns EXCEPT ![t].pc = "top", ![t].batch = 0, ![t].holds = FALSE]
        /\ turnActive' = turnActive
    BY <1>7 DEF Seal
  <2>. QED
    BY <1>1, <1>2, <1>5, <2>1 DEF Shape, Shaped, Pcs, Runs, GoesNoFurther
<1>. QED
  BY <1>6, <1>7

LEMMA DispatchRuns ==
  ASSUME Shape, NEW t \in Turn, Dispatch(t)
  PROVE  Runs(t)
<1>1. CASE GroupFails(t)
  <2>1. turns[t].pc = "tools" /\ UNCHANGED <<epoch, turnActive, sent>>
    BY <1>1 DEF GroupFails, GroupSettled, Silent
  <2>2. \E v, o : Finalize(t, v, o)
    BY <1>1 DEF GroupFails
  <2>. QED
    BY <2>1, <2>2, FinalizeRuns
<1>2. CASE GroupDone(t)
  <2>1. turns[t].pc = "tools" /\ UNCHANGED <<epoch, turnActive, sent>>
    BY <1>2 DEF GroupDone, GroupSettled, Silent, Host
  <2>2. CASE \E v, o : Finalize(t, v, o)
    BY <2>1, <2>2, FinalizeRuns
  <2>3. CASE turns' = [turns EXCEPT ![t].groups = Tail(@)] /\ UNCHANGED typed
    BY <2>1, <2>3 DEF Shape, Shaped, Runs, CarriesInput, GoesNoFurther
  <2>. QED
    BY <1>2, <2>2, <2>3 DEF GroupDone
<1>3. CASE Seal(t)
  BY <1>3, SealRuns
<1>4. ASSUME NEW c, Settle(t, c)
      PROVE  Runs(t)
  BY <1>4 DEF Settle, Silent, Host, Shape, Runs, CarriesInput, GoesNoFurther
<1>. QED
  BY <1>1, <1>2, <1>3, <1>4 DEF Dispatch

-----------------------------------------------------------------------------
(* Such a step keeps the invariant, and so does the user.                   *)

LEMMA RunsKeeps ==
  ASSUME TurnLoopAssumption, IInv, NEW t \in Turn, Runs(t)
  PROVE  IInv'
<1>. USE DEF IInv
<1>1. t \in Nat /\ epoch \in Nat /\ t <= epoch
  BY DEF Turn, TurnLoopAssumption, Shape, BegunInOrder, Runs
<1>2. Shape'
  BY DEF Runs, Shape, SettledTurnActive
<1>3. BegunInOrder'
  <2>1. ASSUME NEW u \in Turn PROVE turns'[u].pc = "unborn" <=> u > epoch'
    <3>1. CASE u = t
      BY <1>1, <3>1 DEF Runs
    <3>2. CASE u # t
      BY <3>2 DEF Runs, BegunInOrder
    <3>. QED
      BY <3>1, <3>2
  <2>. QED
    BY <2>1 DEF BegunInOrder
<1>4. TurnActiveIsTheLatest'
  <2>1. CASE t = epoch
    BY <1>1, <2>1 DEF Runs, TurnActiveIsTheLatest, LatestRuns, SettledTurnActive,
                      IsSuperseded, Turn, Shape
  <2>2. CASE t # epoch
    <3>1. turnActive' = turnActive
      BY <2>2 DEF Runs, SettledTurnActive, IsSuperseded
    <3>2. epoch \in Turn /\ turns'[epoch] = turns[epoch]
      BY <1>1, <2>2 DEF Runs, Shape, Turn, TurnLoopAssumption
    <3>. QED
      BY <3>1, <3>2 DEF Runs, TurnActiveIsTheLatest, LatestRuns
  <2>. QED
    BY <2>1, <2>2
<1>5. QueuedInputIsWritten'
  <2>1. ASSUME typed' = "held"
        PROVE  \E u \in Turn : turns'[u].pc = "sealing" /\ turns'[u].holds
    <3>1. CASE turns'[t].pc = "sealing" /\ turns'[t].holds
      BY <3>1
    <3>2. CASE typed' = typed /\ (turns[t].pc # "sealing" \/ ~turns[t].holds)
      BY <2>1, <3>2 DEF QueuedInputIsWritten, Runs
    <3>. QED
      BY <2>1, <3>1, <3>2 DEF Runs, CarriesInput
  <2>2. typed' = "sent" => TypedMeanwhile \in sent'
    BY DEF QueuedInputIsWritten, Runs, CarriesInput
  <2>. QED
    BY <2>1, <2>2 DEF QueuedInputIsWritten
<1>. QED
  BY <1>2, <1>3, <1>4, <1>5

\* A turn begins: only the first that has not, and the queue is told.
LEMMA BeginTurnKeeps ==
  ASSUME TurnLoopAssumption, IInv, NEW t \in Turn, NEW drains \in BOOLEAN,
         BeginTurn(t, drains)
  PROVE  IInv'
<1>. USE DEF IInv
<1>1. /\ t = epoch + 1 /\ epoch' = t /\ turnActive'
      /\ turnActive' \in BOOLEAN
      /\ turns' = [turns EXCEPT ![t].pc = "top"]
  BY DEF BeginTurn, MayBegin, Goto
<1>2. t \in Nat /\ t # 0 /\ t <= MaxTurn /\ MaxTurn \in Nat
  BY DEF Turn, TurnLoopAssumption
<1>3. Shape'
  BY <1>1, <1>2 DEF Shape, Shaped, Pcs
<1>4. BegunInOrder'
  BY <1>1, <1>2 DEF Shape, Shaped, BegunInOrder, Turn
<1>5. TurnActiveIsTheLatest'
  BY <1>1, <1>2 DEF Shape, Shaped, TurnActiveIsTheLatest, LatestRuns
<1>6. turns[t].pc = "unborn"
  BY <1>1, <1>2 DEF BegunInOrder, Shape
<1>7. /\ sent \subseteq sent'
      /\ typed' = typed \/ (typed' = "sent" /\ TypedMeanwhile \in sent')
  <2>1. PICK m : /\ Push(m)
                 /\ \/ typed' = typed
                    \/ typed' = "sent" /\ m.says = {TypedMeanwhile}
    BY DEF BeginTurn, UserMessage
  <2>. QED
    BY <2>1, PushKeeps
<1>8. QueuedInputIsWritten'
  <2>1. ASSUME NEW u \in Turn, turns[u].pc = "sealing", turns[u].holds
        PROVE  turns'[u] = turns[u]
    BY <1>1, <1>6, <2>1 DEF Shape
  <2>. QED
    BY <1>7, <2>1 DEF QueuedInputIsWritten
<1>. QED
  BY <1>3, <1>4, <1>5, <1>8

LEMMA BeginNothingKeeps ==
  ASSUME TurnLoopAssumption, IInv, NEW t \in Turn, BeginNothing(t)
  PROVE  IInv'
<1>. USE DEF IInv
<1>1. /\ t = epoch + 1 /\ epoch' = t /\ ~turnActive'
      /\ turnActive' \in BOOLEAN
      /\ turns' = [turns EXCEPT ![t].pc = "done"]
      /\ UNCHANGED <<typed, sent>>
  BY DEF BeginNothing, MayBegin, Goto, Silent
<1>2. t \in Nat /\ t # 0 /\ t <= MaxTurn /\ MaxTurn \in Nat
  BY DEF Turn, TurnLoopAssumption
<1>3. Shape'
  BY <1>1, <1>2 DEF Shape, Shaped, Pcs
<1>4. BegunInOrder'
  BY <1>1, <1>2 DEF Shape, Shaped, BegunInOrder, Turn
<1>5. TurnActiveIsTheLatest'
  BY <1>1, <1>2 DEF Shape, Shaped, TurnActiveIsTheLatest, LatestRuns
<1>6. turns[t].pc = "unborn"
  BY <1>1, <1>2 DEF BegunInOrder, Shape
<1>7. QueuedInputIsWritten'
  <2>1. ASSUME NEW u \in Turn, turns[u].pc = "sealing", turns[u].holds
        PROVE  turns'[u] = turns[u]
    BY <1>1, <1>6, <2>1 DEF Shape
  <2>. QED
    BY <1>1, <2>1 DEF QueuedInputIsWritten
<1>. QED
  BY <1>3, <1>4, <1>5, <1>7

LEMMA OthersKeep ==
  ASSUME IInv, UserCancels \/ UserTypes \/ UNCHANGED vars
  PROVE  IInv'
<1>1. UNCHANGED <<turns, epoch, turnActive, sent>>
  BY DEF UserCancels, UserTypes, Silent, Host, vars
<1>2. typed' = typed \/ typed' = "queued"
  BY DEF UserCancels, UserTypes, vars
<1>. QED
  BY <1>1, <1>2 DEF IInv, Shape, BegunInOrder, TurnActiveIsTheLatest, LatestRuns,
                    QueuedInputIsWritten

LEMMA InitIInv == TurnLoopAssumption /\ Init => IInv
<1>. SUFFICES ASSUME TurnLoopAssumption, Init PROVE IInv
  OBVIOUS
<1>1. /\ DOMAIN turns = Turn /\ epoch = 0 /\ ~turnActive /\ turnActive \in BOOLEAN
      /\ typed = "none"
  BY DEF Init
<1>2. \A t \in Turn : Shaped(turns[t]) /\ turns[t].pc = "unborn"
  BY DEF Init, Shaped, Fresh, Pcs
<1>3. Shape
  BY <1>1, <1>2 DEF Shape, TurnLoopAssumption
<1>4. BegunInOrder
  BY <1>1, <1>2 DEF BegunInOrder, Turn, TurnLoopAssumption
<1>5. TurnActiveIsTheLatest /\ QueuedInputIsWritten
  BY <1>1 DEF TurnActiveIsTheLatest, LatestRuns, QueuedInputIsWritten
<1>. QED
  BY <1>3, <1>4, <1>5 DEF IInv

\* A step is one of a turn that runs, or one of the user's.
LEMMA StepKinds ==
  ASSUME Shape, [Next]_vars
  PROVE  \/ \E t \in Turn : Runs(t)
         \/ \E t \in Turn, drains \in BOOLEAN : BeginTurn(t, drains)
         \/ \E t \in Turn : BeginNothing(t)
         \/ UserCancels \/ UserTypes \/ UNCHANGED vars
<1>1. ASSUME NEW t \in Turn, Round(t) \/ Compaction(t) \/ Dispatch(t)
      PROVE  Runs(t)
  BY <1>1, RoundRuns, CompactionRuns, DispatchRuns
<1>. QED
  BY <1>1 DEF Next, User

LEMMA NextKeeps == TurnLoopAssumption /\ IInv /\ [Next]_vars => IInv'
<1>. SUFFICES ASSUME TurnLoopAssumption, IInv, [Next]_vars PROVE IInv'
  OBVIOUS
<1>1. Shape
  BY DEF IInv
<1>. QED
  BY <1>1, StepKinds, RunsKeeps, BeginTurnKeeps, BeginNothingKeeps, OthersKeep

LEMMA Invariant == Spec => []IInv
<1>. QED
  BY TurnLoopAssumption, InitIInv, NextKeeps, PTL DEF Spec

-----------------------------------------------------------------------------
\* The queue is told that a turn is active exactly while the latest one runs:
\* the finally block of a turn that was taken over never ends its successor's,
\* for every number of turns that unwind side by side.
THEOREM ActiveTurnIsTheLatest == Spec => []TurnActiveIsTheLatest
<1>1. IInv => TurnActiveIsTheLatest
  BY DEF IInv
<1>. QED
  BY <1>1, Invariant, PTL

\* Input taken from the queue while tools run is written to the conversation,
\* or held by the batch that will write it, however each turn ends.
THEOREM InputIsNeverDropped == Spec => []QueuedInputIsWritten
<1>1. IInv => QueuedInputIsWritten
  BY DEF IInv
<1>. QED
  BY <1>1, Invariant, PTL

\* A turn that was taken over goes no further than the step it had set out to
\* do: it opens no request, forces no compaction and ends where its response
\* without calls would have been continued, wherever it was parked when its
\* successor began and however many were taken over.
THEOREM TakenOverGoesNoFurther == Spec => StaleTurnsGoNoFurther
<1>1. IInv /\ [Next]_vars =>
        [\A t \in Turn : IsSuperseded(t) /\ turns'[t].pc # turns[t].pc =>
           /\ turns'[t].pc # "opening"
           /\ turns'[t].pc = "hooking" => ~turns'[t].forced
           /\ turns[t].pc = "stopping" => turns'[t].pc = "done"]_vars
  <2>. SUFFICES ASSUME IInv, [Next]_vars, NEW t \in Turn, IsSuperseded(t),
                       turns'[t].pc # turns[t].pc
                PROVE  GoesNoFurther(t)
    BY DEF GoesNoFurther
  <2>1. Shape /\ BegunInOrder /\ t # epoch
    BY DEF IInv, IsSuperseded
  <2>2. ASSUME NEW u \in Turn, Runs(u) PROVE GoesNoFurther(t)
    BY <2>2 DEF Runs
  <2>3. ASSUME NEW u \in Turn, NEW p \in {"top", "done"}, u = epoch + 1,
               turns' = [turns EXCEPT ![u].pc = p]
        PROVE  GoesNoFurther(t)
    <3>1. u = t
      BY <2>1, <2>3 DEF Shape
    <3>2. turns[t].pc = "unborn"
      BY <2>1, <2>3, <3>1 DEF BegunInOrder, Shape, Turn, TurnLoopAssumption
    <3>. QED
      BY <2>1, <2>3, <3>1, <3>2 DEF GoesNoFurther, Shape, Shaped
  <2>4. ASSUME UNCHANGED turns PROVE GoesNoFurther(t)
    BY <2>4
  <2>. QED
    BY <2>1, <2>2, <2>3, <2>4, StepKinds
    DEF BeginTurn, BeginNothing, MayBegin, Goto, UserCancels, UserTypes, vars
<1>. QED
  BY <1>1, Invariant, PTL DEF Spec, StaleTurnsGoNoFurther
-----------------------------------------------------------------------------
(* What the conversation says of the turns' calls.                          *)

\* A call of round k of a turn is made in round k at the latest, and answered
\* when the batch of that round is written.
Spent(c, T) == T[c[1]].pc = "done" \/ c[2] <= T[c[1]].round

Given(c, T) ==
  \/ T[c[1]].pc = "done"
  \/ c[2] < T[c[1]].round
  \/ c[2] = T[c[1]].round /\ T[c[1]].pc \notin {"tools", "sealing"}

Unanswered(X, c) == \A i \in DOMAIN X : c \notin CallsOf(X[i].results)

\* X may be the conversation of the turns T, which was told the outcomes S, of
\* which O are lost.
Faithful(X, T, S, O) ==
  /\ Conversation(X)
  /\ \A c \in Used(X) : Spent(c, T)
  /\ \A i \in DOMAIN X : \A a \in X[i].results :
       Given(a.call, T) /\ (a.call \in S => a.is = "real")
  /\ \A c \in (S \ O) \intersect Used(X) :
       \E i \in DOMAIN X : Answer(c, "real") \in X[i].results

Older(T, U) ==
  \A c \in Call : (Spent(c, T) => Spent(c, U)) /\ (Given(c, T) => Given(c, U))

LEMMA CallsIn ==
  ASSUME NEW X \in Seq(Messages)
  PROVE  /\ Used(X) \in SUBSET Call
         /\ \A i \in DOMAIN X : \A a \in X[i].results :
              a.call \in Call /\ a = Answer(a.call, a.is) /\ ~Unanswered(X, a.call)
<1>1. ASSUME NEW i \in DOMAIN X PROVE X[i] \in Messages
  OBVIOUS
<1>2. ASSUME NEW i \in DOMAIN X, NEW a \in X[i].results
      PROVE  a.call \in Call /\ a = Answer(a.call, a.is) /\ ~Unanswered(X, a.call)
  <2>1. a \in Answers
    BY <1>1, MessageIs
  <2>2. a.call \in CallsOf(X[i].results)
    BY DEF CallsOf
  <2>. QED
    BY <2>1, <2>2, AnswerIs DEF Unanswered
<1>3. Used(X) \in SUBSET Call
  BY <1>1, MessageIs DEF Used
<1>. QED
  BY <1>2, <1>3

LEMMA AppendIs ==
  ASSUME NEW X \in Seq(Messages), NEW m \in Messages
  PROVE  LET Y == Append(X, m)
         IN  /\ Y \in Seq(Messages)
             /\ Len(Y) = Len(X) + 1 /\ Len(X) \in Nat
             /\ DOMAIN Y = 1..Len(X) + 1 /\ DOMAIN X = 1..Len(X)
             /\ Y[Len(X) + 1] = m
             /\ \A i \in DOMAIN X : Y[i] = X[i]
             /\ Used(Y) = Used(X) \union m.uses
             /\ Said(Y) = Said(X) \union m.says
<1>. DEFINE n == Len(X)
            Y == Append(X, m)
<1>1. /\ Y \in Seq(Messages) /\ Len(Y) = n + 1 /\ n \in Nat
      /\ DOMAIN Y = 1..n + 1 /\ DOMAIN X = 1..n
      /\ Y[n + 1] = m
      /\ \A i \in 1..n : Y[i] = X[i]
  OBVIOUS
<1>2. \A i \in 1..n + 1 : i \in 1..n \/ i = n + 1
  BY <1>1
<1>3. \A i \in 1..n : i \in 1..n + 1
  BY <1>1
<1>4. n + 1 \in 1..n + 1
  BY <1>1
<1>. HIDE DEF n, Y
<1>5. Used(Y) = Used(X) \union m.uses
  BY <1>1, <1>2, <1>3, <1>4 DEF Used
<1>6. Said(Y) = Said(X) \union m.says
  BY <1>1, <1>2, <1>3, <1>4 DEF Said
<1>. QED
  BY <1>1, <1>5, <1>6 DEF n, Y

\* A message that comes to the end: its calls are new, and so are the answers
\* of those it answers.
LEMMA AppendFaithful ==
  ASSUME NEW X, NEW T, NEW S, NEW O, Faithful(X, T, S, O),
         NEW U, NEW P, NEW Q, Older(T, U),
         NEW m \in Messages,
         IF m.role = "user" THEN m.uses = {} ELSE m.results = {},
         \A c \in m.uses : Spent(c, U) /\ c \notin Used(X) /\ c \notin S /\ Unanswered(X, c),
         \A a \in m.results : Given(a.call, U) /\ a.call \notin S /\ Unanswered(X, a.call),
         \A a, b \in m.results : a.call = b.call => a = b,
         P = S \union {a.call : a \in {b \in m.results : b.is = "real"}},
         O \subseteq Q
  PROVE  Faithful(Append(X, m), U, P, Q)
<1>. DEFINE n == Len(X)
            Y == Append(X, m)
<1>1. X \in Seq(Messages)
  BY DEF Faithful, Conversation
<1>2. /\ Y \in Seq(Messages) /\ Len(Y) = n + 1 /\ n \in Nat
      /\ DOMAIN Y = 1..n + 1 /\ DOMAIN X = 1..n
      /\ Y[n + 1] = m /\ \A i \in 1..n : Y[i] = X[i]
      /\ Used(Y) = Used(X) \union m.uses
  BY <1>1, AppendIs
<1>3. \A i \in 1..n + 1 : i \in 1..n \/ i = n + 1
  BY <1>2
<1>4. n + 1 \in 1..n + 1 /\ \A i \in 1..n : i \in 1..n + 1 /\ i < n + 1 /\ i # n + 1
  BY <1>2
<1>5. /\ Used(X) \in SUBSET Call
      /\ \A i \in 1..n : \A a \in X[i].results :
           a.call \in Call /\ a = Answer(a.call, a.is) /\ ~Unanswered(X, a.call)
  BY <1>1, <1>2, CallsIn
<1>6. m.uses \in SUBSET Call /\ \A a \in m.results : a.call \in Call /\ a = Answer(a.call, a.is)
  BY MessageIs, AnswerIs
<1>. HIDE DEF n, Y
<1>7. RolesApart(Y)
  BY <1>2, <1>3 DEF RolesApart, Faithful, Conversation
<1>8. CallsOnce(Y)
  <2>1. ASSUME NEW i \in 1..n, NEW c \in X[i].uses PROVE c \in Used(X)
    BY <1>2, <2>1 DEF Used
  <2>2. ASSUME NEW i \in 1..n + 1, NEW j \in 1..n + 1, NEW c, c \in Y[i].uses, c \in Y[j].uses
        PROVE  i = j
    <3>1. CASE i \in 1..n /\ j \in 1..n
      BY <1>2, <2>2, <3>1 DEF Faithful, Conversation, CallsOnce
    <3>2. CASE i \notin 1..n \/ j \notin 1..n
      BY <1>2, <1>3, <2>1, <2>2, <3>2
    <3>. QED
      BY <3>1, <3>2
  <2>. QED
    BY <1>2, <2>2 DEF CallsOnce
<1>9. AnswersAfter(Y)
  <2>1. ASSUME NEW i \in 1..n + 1, NEW j \in 1..n + 1, NEW a \in Y[i].results, a.call \in Y[j].uses
        PROVE  j < i
    <3>1. CASE i \in 1..n /\ j \in 1..n
      BY <1>2, <2>1, <3>1 DEF Faithful, Conversation, AnswersAfter
    <3>2. CASE i = n + 1
      <4>1. j # n + 1
        BY <1>2, <2>1, <3>2
      <4>. QED
        BY <1>3, <1>4, <3>2, <4>1
    <3>3. CASE i \in 1..n /\ j = n + 1
      BY <1>2, <1>5, <2>1, <3>3
    <3>. QED
      BY <1>3, <3>1, <3>2, <3>3
  <2>. QED
    BY <1>2, <2>1 DEF AnswersAfter
<1>10. \A c \in Used(Y) : Spent(c, U)
  BY <1>2, <1>5 DEF Faithful, Older
<1>11. ASSUME NEW i \in 1..n + 1, NEW a \in Y[i].results
       PROVE  Given(a.call, U) /\ (a.call \in P => a.is = "real")
  <2>1. CASE i \in 1..n
    <3>1. a \in X[i].results /\ a.call \in Call
      BY <1>2, <1>5, <2>1
    <3>2. Given(a.call, T) /\ (a.call \in S => a.is = "real")
      BY <1>2, <2>1, <3>1 DEF Faithful
    <3>3. a.call \in P => a.call \in S
      BY <1>5, <2>1, <3>1
    <3>. QED
      BY <3>1, <3>2, <3>3 DEF Older
  <2>2. CASE i = n + 1
    <3>1. a \in m.results
      BY <1>2, <2>2
    <3>. QED
      BY <3>1
  <2>. QED
    BY <1>3, <2>1, <2>2
<1>12. ASSUME NEW c \in P \ Q, c \in Used(Y)
       PROVE  \E i \in 1..n + 1 : Answer(c, "real") \in Y[i].results
  <2>1. CASE c \in S
    <3>1. c \in (S \ O) \intersect Used(X)
      BY <1>2, <1>12, <2>1
    <3>2. PICK i \in 1..n : Answer(c, "real") \in X[i].results
      BY <1>2, <3>1 DEF Faithful
    <3>. QED
      BY <1>2, <1>4, <3>2
  <2>2. CASE c \notin S
    <3>1. PICK a \in m.results : a.is = "real" /\ a.call = c
      BY <1>12, <2>2
    <3>2. a = Answer(c, "real")
      BY <1>6, <3>1
    <3>. QED
      BY <1>2, <1>4, <3>1, <3>2
  <2>. QED
    BY <2>1, <2>2
<1>13. Conversation(Y)
  BY <1>2, <1>7, <1>8, <1>9 DEF Conversation
<1>. QED
  BY <1>2, <1>10, <1>11, <1>12, <1>13 DEF Faithful, Y

\* One that stays as it is, while what is told is told elsewhere.
LEMMA KeepFaithful ==
  ASSUME NEW X, NEW T, NEW S, NEW O, Faithful(X, T, S, O),
         NEW U, NEW P, NEW Q, Older(T, U),
         P \ Q \subseteq S \ O,
         \A c \in P \ S : Unanswered(X, c)
  PROVE  Faithful(X, U, P, Q)
<1>1. X \in Seq(Messages)
  BY DEF Faithful, Conversation
<1>2. /\ Used(X) \in SUBSET Call
      /\ \A i \in DOMAIN X : \A a \in X[i].results : a.call \in Call /\ ~Unanswered(X, a.call)
  BY <1>1, CallsIn
<1>3. \A i \in DOMAIN X : \A a \in X[i].results :
        Given(a.call, U) /\ (a.call \in P => a.is = "real")
  BY <1>2 DEF Faithful, Older
<1>4. \A c \in Used(X) : Spent(c, U)
  BY <1>2 DEF Faithful, Older
<1>. QED
  BY <1>3, <1>4 DEF Faithful

\* A tail of one, with or without a message before it that pairs with nothing.
LEMMA TailIs ==
  ASSUME NEW X \in Seq(Messages), NEW k \in 1..Len(X) + 1
  PROVE  LET Y == SubSeq(X, k, Len(X))
         IN  /\ Y \in Seq(Messages)
             /\ \A i \in DOMAIN Y : k - 1 + i \in DOMAIN X /\ Y[i] = X[k - 1 + i]
             /\ \A j \in DOMAIN X : j >= k => j - k + 1 \in DOMAIN Y /\ Y[j - k + 1] = X[j]
             /\ DOMAIN Y \subseteq Nat /\ DOMAIN X \subseteq Nat
             /\ Said(X) \subseteq Said(SubSeq(X, 1, k - 1)) \union Said(Y)
<1>. DEFINE n == Len(X)
            Y == SubSeq(X, k, n)
            H == SubSeq(X, 1, k - 1)
<1>1. n \in Nat /\ k \in Nat /\ DOMAIN X = 1..n /\ k <= n + 1 /\ 1 <= k
  OBVIOUS
<1>2. Y \in Seq(Messages) /\ Len(Y) = n - k + 1 /\ DOMAIN Y = 1..n - k + 1
      /\ \A i \in 1..n - k + 1 : Y[i] = X[k - 1 + i]
  <2>1. \A i \in k..n : X[i] \in Messages
    BY <1>1
  <2>2. /\ Y \in Seq(Messages) /\ Len(Y) = IF k <= n THEN n - k + 1 ELSE 0
        /\ \A i \in 1 .. n - k + 1 : Y[i] = X[k + i - 1]
    <3>. HIDE DEF n
    <3>. QED
      BY <1>1, <2>1, SubSeqProperties
  <2>3. Len(Y) = n - k + 1
    <3>. HIDE DEF n, Y
    <3>. QED
      BY <1>1, <2>2
  <2>4. DOMAIN Y = 1..Len(Y)
    BY <2>2
  <2>5. \A i \in 1..n - k + 1 : k + i - 1 = k - 1 + i
    BY <1>1
  <2>. HIDE DEF n, Y
  <2>. QED
    BY <2>2, <2>3, <2>4, <2>5
<1>3. /\ \A i \in 1..k - 1 : i \in DOMAIN H /\ H[i] = X[i]
  <2>1. \A i \in 1..k - 1 : X[i] \in Messages
    BY <1>1
  <2>2. /\ H \in Seq(Messages) /\ Len(H) = IF 1 <= k - 1 THEN k - 1 - 1 + 1 ELSE 0
        /\ \A i \in 1 .. k - 1 - 1 + 1 : H[i] = X[1 + i - 1]
    <3>1. 1 \in Int /\ k - 1 \in Int
      BY <1>1
    <3>. QED
      BY <2>1, <3>1, SubSeqProperties
  <2>3. DOMAIN H = 1..Len(H)
    BY <2>2
  <2>. HIDE DEF H, n
  <2>4. Len(H) = k - 1 /\ 1..k - 1 - 1 + 1 = 1..k - 1 /\ \A i \in 1..k - 1 : 1 + i - 1 = i
    BY <1>1, <2>2
  <2>. QED
    BY <2>2, <2>3, <2>4
<1>. HIDE DEF n, Y, H
<1>4. \A i \in 1..n - k + 1 : k - 1 + i \in 1..n
  BY <1>1
<1>5. \A j \in 1..n : j >= k => j - k + 1 \in 1..n - k + 1 /\ k - 1 + (j - k + 1) = j
  BY <1>1
<1>6. \A j \in 1..n : j >= k => j - k + 1 \in DOMAIN Y /\ Y[j - k + 1] = X[j]
  BY <1>2, <1>5
<1>7. ASSUME NEW j \in 1..n
      PROVE  X[j].says \subseteq Said(H) \union Said(Y)
  <2>1. CASE j >= k
    BY <1>6, <2>1 DEF Said
  <2>2. CASE ~(j >= k)
    <3>1. j \in 1..k - 1
      BY <1>1, <2>2
    <3>. QED
      BY <1>3, <3>1 DEF Said
  <2>. QED
    BY <2>1, <2>2
<1>8. Said(X) \subseteq Said(H) \union Said(Y)
  BY <1>1, <1>7 DEF Said
<1>. QED
  BY <1>1, <1>2, <1>4, <1>6, <1>8 DEF n, Y, H

LEMMA TailFaithful ==
  ASSUME NEW X, NEW T, NEW S, NEW O, Faithful(X, T, S, O), NEW k \in 1..Len(X) + 1
  PROVE  Faithful(SubSeq(X, k, Len(X)), T, S, O)
<1>. DEFINE Y == SubSeq(X, k, Len(X))
<1>1. X \in Seq(Messages) /\ k \in Nat
  BY DEF Faithful, Conversation
<1>2. /\ Y \in Seq(Messages)
      /\ \A i \in DOMAIN Y : k - 1 + i \in DOMAIN X /\ Y[i] = X[k - 1 + i]
      /\ \A j \in DOMAIN X : j >= k => j - k + 1 \in DOMAIN Y /\ Y[j - k + 1] = X[j]
      /\ DOMAIN Y \subseteq Nat /\ DOMAIN X \subseteq Nat
  BY <1>1, TailIs
<1>. HIDE DEF Y
<1>3. RolesApart(Y)
  BY <1>2 DEF RolesApart, Faithful, Conversation
<1>4. CallsOnce(Y)
  <2>1. ASSUME NEW i \in DOMAIN Y, NEW j \in DOMAIN Y, NEW c, c \in Y[i].uses, c \in Y[j].uses
        PROVE  i = j
    <3>1. k - 1 + i = k - 1 + j
      BY <1>2, <2>1 DEF Faithful, Conversation, CallsOnce
    <3>2. i \in Nat /\ j \in Nat
      BY <1>2
    <3>. QED
      BY <1>1, <3>1, <3>2
  <2>. QED
    BY <2>1 DEF CallsOnce
<1>5. AnswersAfter(Y)
  <2>1. ASSUME NEW i \in DOMAIN Y, NEW j \in DOMAIN Y, NEW a \in Y[i].results, a.call \in Y[j].uses
        PROVE  j < i
    <3>1. k - 1 + j < k - 1 + i
      BY <1>2, <2>1 DEF Faithful, Conversation, AnswersAfter
    <3>2. i \in Nat /\ j \in Nat
      BY <1>2
    <3>. QED
      BY <1>1, <3>1, <3>2
  <2>. QED
    BY <2>1 DEF AnswersAfter
<1>6. Used(Y) \subseteq Used(X)
  BY <1>2 DEF Used
<1>7. \A i \in DOMAIN Y : \A a \in Y[i].results : Given(a.call, T) /\ (a.call \in S => a.is = "real")
  BY <1>2 DEF Faithful
<1>8. ASSUME NEW c \in (S \ O) \intersect Used(Y)
      PROVE  \E i \in DOMAIN Y : Answer(c, "real") \in Y[i].results
  <2>1. PICK i \in DOMAIN Y : c \in Y[i].uses
    BY <1>8 DEF Used
  <2>2. PICK j \in DOMAIN X : Answer(c, "real") \in X[j].results
    BY <1>6, <1>8 DEF Faithful
  <2>3. k - 1 + i < j
    <3>1. Answer(c, "real").call = c
      BY DEF Answer
    <3>. QED
      BY <1>2, <2>1, <2>2, <3>1 DEF Faithful, Conversation, AnswersAfter
  <2>4. j >= k
    <3>1. i \in 1..Len(Y) /\ j \in Nat
      BY <1>2
    <3>. QED
      BY <1>1, <2>3, <3>1
  <2>. QED
    BY <1>2, <2>2, <2>4
<1>. QED
  BY <1>2, <1>3, <1>4, <1>5, <1>6, <1>7, <1>8 DEF Faithful, Conversation, Y

LEMMA PrependIs ==
  ASSUME NEW X \in Seq(Messages), NEW m \in Messages
  PROVE  LET Y == <<m>> \o X
         IN  /\ Y \in Seq(Messages)
             /\ \A i \in DOMAIN Y : i = 1 \/ (i > 1 /\ i - 1 \in DOMAIN X /\ Y[i] = X[i - 1])
             /\ 1 \in DOMAIN Y /\ Y[1] = m
             /\ \A j \in DOMAIN X : j + 1 \in DOMAIN Y /\ Y[j + 1] = X[j]
             /\ DOMAIN Y \subseteq Nat /\ DOMAIN X \subseteq Nat
             /\ Said(Y) = m.says \union Said(X)
             /\ Used(Y) = m.uses \union Used(X)
<1>. DEFINE n == Len(X)
            Y == <<m>> \o X
<1>1. /\ Y \in Seq(Messages) /\ Len(Y) = n + 1 /\ n \in Nat
      /\ DOMAIN Y = 1..n + 1 /\ DOMAIN X = 1..n
      /\ Y[1] = m
      /\ \A i \in 2..n + 1 : Y[i] = X[i - 1]
  OBVIOUS
<1>. HIDE DEF n, Y
<1>2. \A i \in 1..n + 1 : i = 1 \/ (i > 1 /\ i - 1 \in 1..n /\ i \in 2..n + 1)
  BY <1>1
<1>3. \A j \in 1..n : j + 1 \in 1..n + 1 /\ j + 1 \in 2..n + 1 /\ j + 1 - 1 = j
  BY <1>1
<1>4. 1 \in 1..n + 1
  BY <1>1
<1>5. \A i \in DOMAIN Y : i = 1 \/ (i > 1 /\ i - 1 \in DOMAIN X /\ Y[i] = X[i - 1])
  BY <1>1, <1>2
<1>6. \A j \in DOMAIN X : j + 1 \in DOMAIN Y /\ Y[j + 1] = X[j]
  BY <1>1, <1>3
<1>7. Said(Y) = m.says \union Said(X)
  BY <1>1, <1>4, <1>5, <1>6 DEF Said
<1>8. Used(Y) = m.uses \union Used(X)
  BY <1>1, <1>4, <1>5, <1>6 DEF Used
<1>. QED
  BY <1>1, <1>4, <1>5, <1>6, <1>7, <1>8 DEF Y

LEMMA SplicedFaithful ==
  ASSUME NEW X, NEW T, NEW S, NEW O, Faithful(X, T, S, O), NEW P \in SUBSET Sayable
  PROVE  Faithful(<<UserMessage({}, P)>> \o X, T, S, O)
<1>. DEFINE m == UserMessage({}, P)
            Y == <<m>> \o X
<1>1. X \in Seq(Messages)
  BY DEF Faithful, Conversation
<1>2. m \in Messages /\ m.role = "user" /\ m.uses = {} /\ m.results = {}
  BY UserMessageIs
<1>. HIDE DEF m
<1>3. /\ Y \in Seq(Messages)
      /\ \A i \in DOMAIN Y : i = 1 \/ (i > 1 /\ i - 1 \in DOMAIN X /\ Y[i] = X[i - 1])
      /\ 1 \in DOMAIN Y /\ Y[1] = m
      /\ \A j \in DOMAIN X : j + 1 \in DOMAIN Y /\ Y[j + 1] = X[j]
      /\ DOMAIN Y \subseteq Nat /\ DOMAIN X \subseteq Nat
      /\ Used(Y) = m.uses \union Used(X)
  BY <1>1, <1>2, PrependIs
<1>. HIDE DEF Y
<1>4. RolesApart(Y)
  BY <1>2, <1>3 DEF RolesApart, Faithful, Conversation
<1>5. CallsOnce(Y)
  <2>1. ASSUME NEW i \in DOMAIN Y, NEW j \in DOMAIN Y, NEW c, c \in Y[i].uses, c \in Y[j].uses
        PROVE  i = j
    <3>1. i # 1 /\ j # 1
      BY <1>2, <1>3, <2>1
    <3>2. i - 1 = j - 1
      BY <1>3, <2>1, <3>1, ZenonT(40) DEF Faithful, Conversation, CallsOnce
    <3>3. i \in Nat /\ j \in Nat
      BY <1>3
    <3>. QED
      BY <3>2, <3>3
  <2>. QED
    BY <2>1 DEF CallsOnce
<1>6. AnswersAfter(Y)
  <2>1. ASSUME NEW i \in DOMAIN Y, NEW j \in DOMAIN Y, NEW a \in Y[i].results, a.call \in Y[j].uses
        PROVE  j < i
    <3>1. i # 1 /\ j # 1
      BY <1>2, <1>3, <2>1
    <3>2. j - 1 < i - 1
      BY <1>3, <2>1, <3>1 DEF Faithful, Conversation, AnswersAfter
    <3>3. i \in Nat /\ j \in Nat
      BY <1>3
    <3>. QED
      BY <3>2, <3>3
  <2>. QED
    BY <2>1 DEF AnswersAfter
<1>7. Used(Y) = Used(X)
  BY <1>2, <1>3
<1>8. \A i \in DOMAIN Y : \A a \in Y[i].results : Given(a.call, T) /\ (a.call \in S => a.is = "real")
  BY <1>2, <1>3 DEF Faithful
<1>9. \A c \in (S \ O) \intersect Used(Y) : \E i \in DOMAIN Y : Answer(c, "real") \in Y[i].results
  BY <1>3, <1>7 DEF Faithful
<1>. QED
  BY <1>3, <1>4, <1>5, <1>6, <1>7, <1>8, <1>9 DEF Faithful, Conversation, Y, m

-----------------------------------------------------------------------------
(* The invariant of the conversation and of the plans that may replace it.  *)

HoldsPlan(t) == turns[t].pc \in {"summarizing", "appending"}

Fits(t, r) ==
  /\ {"pc", "next", "round", "batch", "holds", "plan", "verdict"} \subseteq DOMAIN r
  /\ r.pc \in Pcs
  /\ r.next \in {"top", "ready", "closing"}
  /\ r.round \in 0..MaxRound
  /\ r.batch \in 0..MaxCalls[t]
  /\ r.verdict \in {"go", "stop", "throw"}
  /\ r.pc \in {"tools", "sealing"} => r.round \in 1..MaxRound

Typed ==
  /\ DOMAIN turns = Turn
  /\ \A t \in Turn : Fits(t, turns[t])
  /\ calls \in [Call -> Outcomes]
  /\ \A t \in Turn : turns[t].pc = "sealing" =>
       \A c \in BatchCalls(t) : calls[c] \in {"real", "cut"}
  /\ sent \subseteq Sayable /\ told \subseteq Call
  /\ overtaken \in [said : SUBSET sent, told : SUBSET told]

\* What a compaction holds while it summarizes is as good as the conversation.
PlanIsFaithful(p) ==
  /\ Faithful(p.tail, turns, told, overtaken.told)
  /\ p.said \subseteq Sayable
  /\ sent \ overtaken.said \subseteq p.said \union Said(p.tail)

Talk ==
  /\ Typed
  /\ \A c \in told : Given(c, turns)
  /\ Faithful(messages, turns, told, overtaken.told)
  /\ PromptsStay
  /\ \A t \in Turn : HoldsPlan(t) => PlanIsFaithful(turns[t].plan)

-----------------------------------------------------------------------------
(* What a step of a turn does to its record, and what it says.              *)

Moves(t) ==
  /\ turns[t].pc \notin {"unborn", "done"}
  /\ DOMAIN turns' = Turn
  /\ \A u \in Turn \ {t} : turns'[u] = turns[u]
  /\ Fits(t, turns'[t])
  /\ \/ turns'[t].pc = "done"
     \/ /\ turns'[t].round = turns[t].round
        /\ turns'[t].pc \in {"tools", "sealing"} => turns[t].pc \in {"tools", "sealing"}
     \/ turns'[t].round = turns[t].round + 1
  /\ turns'[t].pc \in {"summarizing", "appending"} =>
       \/ HoldsPlan(t) /\ turns'[t].plan = turns[t].plan
       \/ \E k \in 1..Len(messages) + 1 : turns'[t].plan = PlanFrom(k) /\ Silent
  /\ calls' \in [Call -> Outcomes]
  /\ \A c \in Call : c[1] # t => calls'[c] = calls[c]
  /\ turns'[t].pc = "sealing" => \A c \in BatchCalls(t)' : calls'[c] \in {"real", "cut"}

Asks(t, n) ==
  /\ turns[t].pc = "stream" /\ turns[t].round < MaxRound
  /\ turns'[t].pc = "done" \/ turns'[t].round = turns[t].round + 1
  /\ n \in 1..MaxCalls[t]

Says(t) ==
  \/ Silent
  \/ \E S \in SUBSET Sayable : Push(UserMessage({}, S))
  \/ \E n : Asks(t, n) /\ Push(AssistantMessage(CallsOfRound(t, n)))
  \/ /\ turns'[t].pc = "done"
     /\ \E n : /\ Asks(t, n)
               /\ LET cs == CallsOfRound(t, n)
                  IN  messages' = messages \o <<AssistantMessage(cs),
                                    UserMessage({Answer(c, "cut") : c \in cs}, {})>>
     /\ UNCHANGED <<sent, told, overtaken>>
  \/ /\ turns[t].pc = "sealing"
     /\ turns'[t].pc = "done" \/ (turns'[t].pc = "top" /\ turns'[t].round = turns[t].round)
     /\ Push(SealedBatch(t))
  \/ /\ turns[t].pc = "appending"
     /\ messages' = Spliced(t)
     /\ UNCHANGED <<sent, told, overtaken>>

LEMMA FreshFits ==
  ASSUME TurnLoopAssumption, NEW t \in Turn
  PROVE  Fits(t, [Fresh EXCEPT !.pc = "done"]) /\ [Fresh EXCEPT !.pc = "done"].pc = "done"
<1>1. 0 \in 0..MaxRound /\ MaxCalls[t] \in Nat \ {0}
  BY DEF TurnLoopAssumption, Turn
<1>2. 0 \in 0..MaxCalls[t]
  BY <1>1
<1>. QED
  BY <1>1, <1>2 DEF Fits, Fresh, Pcs

LEMMA EndMoves ==
  ASSUME TurnLoopAssumption, Typed, NEW t \in Turn, End(t),
         turns[t].pc \notin {"unborn", "done"},
         calls' \in [Call -> Outcomes], \A c \in Call : c[1] # t => calls'[c] = calls[c]
  PROVE  Moves(t) /\ turns'[t].pc = "done"
<1>1. turns' = [turns EXCEPT ![t] = [Fresh EXCEPT !.pc = "done"]]
  BY DEF End
<1>2. /\ DOMAIN turns' = Turn /\ \A u \in Turn \ {t} : turns'[u] = turns[u]
      /\ turns'[t] = [Fresh EXCEPT !.pc = "done"]
  BY <1>1 DEF Typed
<1>. QED
  BY <1>2, FreshFits DEF Moves

LEMMA EndOnlyTalks ==
  ASSUME TurnLoopAssumption, Typed, NEW t \in Turn, EndOnly(t),
         turns[t].pc \notin {"unborn", "done"}
  PROVE  Moves(t) /\ Says(t)
<1>1. End(t) /\ calls' = calls /\ Silent
  BY DEF EndOnly
<1>2. calls' \in [Call -> Outcomes]
  BY <1>1 DEF Typed
<1>. QED
  BY <1>1, <1>2, EndMoves DEF Says

\* A step that moves the turn between the places where it holds no plan and
\* runs no batch.
LEMMA Steps ==
  ASSUME Typed, NEW t \in Turn, turns[t].pc \notin {"unborn", "done"},
         DOMAIN turns' = Turn, \A u \in Turn \ {t} : turns'[u] = turns[u],
         Fits(t, turns'[t]), calls' = calls,
         turns'[t].round = turns[t].round,
         turns'[t].pc \notin {"tools", "sealing", "summarizing", "appending"}
  PROVE  Moves(t)
<1>1. calls' \in [Call -> Outcomes] /\ \A c \in Call : calls'[c] = calls[c]
  BY DEF Typed
<1>. QED
  BY <1>1 DEF Moves

\* The places of the calls of a turn's next round.
LEMMA CallOf ==
  ASSUME TurnLoopAssumption, NEW t \in Turn, NEW r \in 1..MaxRound, NEW i \in 1..MaxCalls[t]
  PROVE  <<t, r, i>> \in Call
<1>. DEFINE R == Range(MaxCalls)
<1>1. MaxCalls \in [1..MaxTurn -> Nat \ {0}] /\ MaxTurn \in Nat
  BY DEF TurnLoopAssumption
<1>2. MaxCalls \in Surjection(1..MaxTurn, R) /\ R \in SUBSET Nat
  BY <1>1 DEF Surjection, Range
<1>3. IsFiniteSet(R)
  <2>1. IsFiniteSet(1..MaxTurn)
    BY <1>1, FS_Interval
  <2>. HIDE DEF R
  <2>. QED
    BY <1>2, <2>1, FS_Surjection
<1>4. MaxCalls[t] \in R
  BY <1>1 DEF Range, Turn
<1>. HIDE DEF R
<1>5. Max(R) \in Nat /\ MaxCalls[t] <= Max(R)
  <2>. DEFINE K == Cardinality(R)
              m == Place(R, K)
  <2>1. K \in Nat /\ K \in 1..K
    <3>1. K \in Nat
      BY <1>3, FS_CardinalityType
    <3>2. K # 0
      BY <1>3, <1>4, FS_EmptySet
    <3>. HIDE DEF K
    <3>. QED
      BY <3>1, <3>2
  <2>2. m \in R /\ Rank(R, m) = K
    BY <1>2, <1>3, <2>1, PlaceIs
  <2>3. ASSUME NEW y \in R PROVE y <= m
    <3>1. Rank(R, y) \in 1..K
      BY <1>2, <1>3, RankIn
    <3>2. ~(m < y)
      <4>1. m < y => Rank(R, m) < Rank(R, y)
        BY <1>2, <1>3, <2>2, RankGrows
      <4>. HIDE DEF m, K
      <4>. QED
        BY <2>1, <2>2, <3>1, <4>1
    <3>. HIDE DEF m
    <3>. QED
      BY <1>2, <2>2, <3>2
  <2>. HIDE DEF m
  <2>4. Max(R) \in R /\ \A y \in R : y <= Max(R)
    BY <1>2, <1>4, <2>2, <2>3, MaxIs
  <2>. QED
    BY <1>2, <1>4, <2>4
<1>6. i \in 1..Max(Range(MaxCalls)) /\ i <= MaxCalls[t]
  <2>1. MaxCalls[t] \in Nat /\ i <= MaxCalls[t]
    BY <1>1 DEF Turn
  <2>. QED
    BY <1>5, <2>1 DEF R
<1>. QED
  BY <1>6 DEF Call

LEMMA BatchIn ==
  ASSUME TurnLoopAssumption, Typed, NEW t \in Turn, turns[t].pc \in {"tools", "sealing"}
  PROVE  BatchCalls(t) \subseteq Call
<1>1. ASSUME NEW i \in 1..turns[t].batch
      PROVE  <<t, turns[t].round, i>> \in Call
  <2>1. MaxCalls[t] \in Nat
    BY DEF TurnLoopAssumption, Turn
  <2>2. turns[t].round \in 1..MaxRound /\ turns[t].batch \in 0..MaxCalls[t]
    BY DEF Typed, Fits
  <2>3. i \in 1..MaxCalls[t]
    BY <2>1, <2>2
  <2>. QED
    BY <2>2, <2>3, CallOf
<1>. QED
  BY <1>1 DEF BatchCalls, Id

LEMMA RoundCallsIn ==
  ASSUME TurnLoopAssumption, Typed, NEW t \in Turn, turns[t].round < MaxRound,
         NEW n \in 1..MaxCalls[t]
  PROVE  CallsOfRound(t, n) \subseteq Call
<1>1. ASSUME NEW i \in 1..n
      PROVE  <<t, turns[t].round + 1, i>> \in Call
  <2>1. MaxCalls[t] \in Nat /\ MaxRound \in Nat
    BY DEF TurnLoopAssumption, Turn
  <2>2. turns[t].round \in 0..MaxRound
    BY DEF Typed, Fits
  <2>3. i \in 1..MaxCalls[t] /\ turns[t].round + 1 \in 1..MaxRound
    BY <2>1, <2>2
  <2>. QED
    BY <2>3, CallOf
<1>. QED
  BY <1>1 DEF CallsOfRound

LEMMA CommitSays ==
  ASSUME TurnLoopAssumption, Typed, NEW t \in Turn, turns[t].pc = "stream", NEW n \in 0..MaxCalls[t],
         Commit(t, n),
         n # 0 => turns'[t].pc = "done" \/ turns'[t].round = turns[t].round + 1
  PROVE  Says(t)
<1>1. CASE n = 0
  BY <1>1 DEF Commit, Says
<1>2. CASE n # 0
  <2>1. n \in 1..MaxCalls[t]
    BY <1>2 DEF TurnLoopAssumption, Turn
  <2>2. turns[t].round < MaxRound /\ Push(AssistantMessage(CallsOfRound(t, n)))
    BY <1>2 DEF Commit
  <2>3. Asks(t, n)
    BY <1>2, <2>1, <2>2 DEF Asks
  <2>. QED
    BY <2>2, <2>3 DEF Says
<1>. QED
  BY <1>1, <1>2

LEMMA StreamCallsTalks ==
  ASSUME TurnLoopAssumption, Typed, NEW t \in Turn, StreamCalls(t)
  PROVE  Moves(t) /\ Says(t)
<1>1. PICK n \in 1..MaxCalls[t] : \E gs \in Groupings(n) :
        LET id(i) == <<t, turns[t].round + 1, i>>
            asked == [c \in Call |-> IF c \in CallsOfRound(t, n) THEN "asked" ELSE calls[c]]
        IN  /\ Commit(t, n)
            /\ turns' = [turns EXCEPT ![t].pc = "tools", ![t].batch = n,
                          ![t].groups = gs, ![t].round = @ + 1,
                          ![t].verdict = "go"]
            /\ calls' = Start(t, {id(i) : i \in Range(Head(gs))}, asked)
  BY Zenon DEF StreamCalls
<1>. DEFINE asked == [c \in Call |-> IF c \in CallsOfRound(t, n) THEN "asked" ELSE calls[c]]
            G(gs) == {<<t, turns[t].round + 1, i>> : i \in Range(Head(gs))}
<1>2. PICK gs :
        /\ Commit(t, n)
        /\ turns' = [turns EXCEPT ![t].pc = "tools", ![t].batch = n,
                      ![t].groups = gs, ![t].round = @ + 1,
                      ![t].verdict = "go"]
        /\ calls' = Start(t, G(gs), asked)
  BY <1>1, Zenon
<1>3. turns[t].pc = "stream"
  BY DEF StreamCalls, Streaming
<1>4. n # 0 /\ turns[t].round < MaxRound
  BY <1>2 DEF Commit, TurnLoopAssumption, Turn
<1>5. /\ turns[t].round + 1 \in 0..MaxRound /\ turns[t].round + 1 \in 1..MaxRound
      /\ n \in 0..MaxCalls[t]
  <2>1. turns[t].round \in 0..MaxRound /\ MaxRound \in Nat /\ MaxCalls[t] \in Nat
    BY DEF Typed, Fits, TurnLoopAssumption, Turn
  <2>. QED
    BY <1>4, <2>1, SMTT(30)
<1>6. /\ DOMAIN turns' = Turn /\ \A u \in Turn \ {t} : turns'[u] = turns[u]
      /\ turns'[t].round = turns[t].round + 1
      /\ turns'[t].pc = "tools"
      /\ Fits(t, turns'[t])
  BY <1>2, <1>5 DEF Typed, Fits, Pcs
<1>7. calls' \in [Call -> Outcomes] /\ \A c \in Call : c[1] # t => calls'[c] = calls[c]
  <2>1. asked \in [Call -> Outcomes]
    BY DEF Typed, Outcomes
  <2>2. \A c \in Call : c[1] # t => c \notin G(gs) /\ c \notin CallsOfRound(t, n)
    BY DEF CallsOfRound
  <2>3. \A c \in Call : c[1] # t => asked[c] = calls[c]
    BY <2>2
  <2>. HIDE DEF asked, G
  <2>. QED
    BY <1>2, <2>1, <2>2, <2>3 DEF Start, Outcomes
<1>8. Moves(t)
  BY <1>3, <1>6, <1>7 DEF Moves
<1>9. Says(t)
  BY <1>2, <1>3, <1>5, <1>6, CommitSays
<1>. QED
  BY <1>8, <1>9

LEMMA StreamOrphansTalks ==
  ASSUME TurnLoopAssumption, Typed, NEW t \in Turn, StreamOrphans(t)
  PROVE  Moves(t) /\ Says(t)
<1>. DEFINE N(n) == Committed(t, n)
<1>1. PICK n \in {0} \union (IF "orphan" \in Features[t] THEN 1..MaxCalls[t] ELSE {}) :
        /\ Commit(t, n)
        /\ \/ turns' = [turns EXCEPT ![t].pc = "top", ![t].lengths = @ + 1,
                         ![t].round = Committed(t, n)]
           \/ \E e : turns' = [turns EXCEPT ![t].pc = "stopping",
                         ![t].round = Committed(t, n), ![t].empty = e,
                         ![t].silent = SilentAfter(t, e)]
           \/ End(t)
  BY StreamOrphansEffect
<1>2. n \in 0..MaxCalls[t] /\ n \in Nat /\ turns[t].pc = "stream" /\ calls' = calls
  <2>1. MaxCalls[t] \in Nat
    BY DEF TurnLoopAssumption, Turn
  <2>2. turns[t].pc = "stream" /\ calls' = calls
    BY Zenon DEF StreamOrphans, Streaming
  <2>. QED
    BY <2>1, <2>2
<1>3. calls' \in [Call -> Outcomes] /\ \A c \in Call : calls'[c] = calls[c]
  BY <1>2 DEF Typed
<1>4. CASE End(t)
  <2>1. Moves(t) /\ turns'[t].pc = "done"
    BY <1>2, <1>3, <1>4, EndMoves
  <2>. QED
    BY <1>1, <1>2, <2>1, CommitSays
<1>5. N(n) \in 0..MaxRound
  <2>1. turns[t].round \in 0..MaxRound /\ MaxRound \in Nat
    BY DEF Typed, Fits, TurnLoopAssumption
  <2>2. n # 0 => turns[t].round < MaxRound
    BY <1>1 DEF Commit
  <2>. QED
    BY <2>1, <2>2 DEF Committed
<1>6. CASE ~End(t)
  <2>. HIDE DEF N
  <2>1. ASSUME NEW l,
               turns' = [turns EXCEPT ![t].pc = "top", ![t].lengths = l, ![t].round = N(n)]
        PROVE  /\ DOMAIN turns' = Turn /\ \A u \in Turn \ {t} : turns'[u] = turns[u]
               /\ Fits(t, turns'[t]) /\ turns'[t].pc = "top" /\ turns'[t].round = N(n)
    BY <1>5, <2>1, SMTT(30) DEF Typed, Fits, Pcs
  <2>2. ASSUME NEW e, NEW l,
               turns' = [turns EXCEPT ![t].pc = "stopping", ![t].round = N(n),
                                      ![t].empty = e, ![t].silent = l]
        PROVE  /\ DOMAIN turns' = Turn /\ \A u \in Turn \ {t} : turns'[u] = turns[u]
               /\ Fits(t, turns'[t]) /\ turns'[t].pc = "stopping" /\ turns'[t].round = N(n)
    BY <1>5, <2>2, SMTT(30) DEF Typed, Fits, Pcs
  <2>3. PICK p \in {"top", "stopping"} :
          /\ DOMAIN turns' = Turn /\ \A u \in Turn \ {t} : turns'[u] = turns[u]
          /\ Fits(t, turns'[t]) /\ turns'[t].pc = p /\ turns'[t].round = N(n)
    BY <1>1, <1>6, <2>1, <2>2 DEF N
  <2>4. N(n) \in {turns[t].round, turns[t].round + 1} /\ (n # 0 => N(n) = turns[t].round + 1)
    BY DEF N, Committed
  <2>5. Moves(t)
    BY <1>2, <1>3, <2>3, <2>4 DEF Moves
  <2>. QED
    BY <1>1, <1>2, <2>3, <2>4, <2>5, CommitSays
<1>. QED
  BY <1>4, <1>6

LEMMA StreamCappedTalks ==
  ASSUME TurnLoopAssumption, Typed, NEW t \in Turn, StreamCapped(t)
  PROVE  Moves(t) /\ Says(t)
<1>1. PICK n \in 1..MaxCalls[t] :
        LET cs == CallsOfRound(t, n)
        IN  messages' = messages
              \o <<AssistantMessage(cs), UserMessage({Answer(c, "cut") : c \in cs}, {})>>
  BY DEF StreamCapped
<1>2. /\ End(t) /\ turns[t].pc = "stream" /\ turns[t].round < MaxRound
      /\ calls' = calls /\ UNCHANGED <<sent, told, overtaken>>
  BY DEF StreamCapped, Streaming
<1>3. calls' \in [Call -> Outcomes] /\ \A c \in Call : calls'[c] = calls[c]
  BY <1>2 DEF Typed
<1>4. Moves(t) /\ turns'[t].pc = "done"
  BY <1>2, <1>3, EndMoves
<1>5. Asks(t, n)
  BY <1>2, <1>4 DEF Asks
<1>. QED
  BY <1>1, <1>2, <1>4, <1>5 DEF Says

LEMMA RoundTalks ==
  ASSUME TurnLoopAssumption, Typed, NEW t \in Turn, Round(t)
  PROVE  Moves(t) /\ Says(t)
<1>1. CASE \/ TopEnds(t) \/ ContextFull(t) \/ StreamDropped(t)
           \/ StopCancelled(t) \/ StopDeferred(t)
  BY <1>1, EndOnlyTalks DEF TopEnds, ContextFull, StreamDropped, StopCancelled, StopDeferred
<1>2. ASSUME NEW r, turns' = [turns EXCEPT ![t] = r], Fits(t, r), calls' = calls,
             r.round = turns[t].round, r.pc \in {"top", "opening", "stream", "hooking"},
             turns[t].pc \in {"top", "ready", "opening", "stream", "stopping"}
      PROVE  Moves(t)
  <2>1. /\ DOMAIN turns' = Turn /\ \A u \in Turn \ {t} : turns'[u] = turns[u]
        /\ turns'[t] = r
    BY <1>2 DEF Typed
  <2>. QED
    BY <1>2, <2>1, Steps
<1>3. CASE OpenStream(t) \/ StreamOpens(t)
  <2>. DEFINE r == [turns[t] EXCEPT !.pc = IF OpenStream(t) THEN "opening" ELSE "stream"]
  <2>1. /\ turns' = [turns EXCEPT ![t] = r] /\ calls' = calls /\ Silent
        /\ turns[t].pc \in {"top", "ready", "opening", "stream", "stopping"}
    BY <1>3 DEF OpenStream, StreamOpens, Goto, Silent
  <2>2. Fits(t, r) /\ r.round = turns[t].round /\ r.pc \in {"opening", "stream"}
    BY DEF Typed, Fits, Pcs
  <2>. HIDE DEF r
  <2>. QED
    BY <1>2, <2>1, <2>2 DEF Says
<1>4. CASE StreamCalls(t)
  BY <1>4, StreamCallsTalks
<1>5. CASE StreamOrphans(t)
  BY <1>5, StreamOrphansTalks
<1>6. CASE StreamCapped(t)
  BY <1>6, StreamCappedTalks
<1>7. CASE StreamMalformed(t)
  <2>. DEFINE r == [turns[t] EXCEPT !.pc = "top", !.retried = TRUE]
  <2>1. /\ turns' = [turns EXCEPT ![t] = r] /\ calls' = calls /\ Silent
        /\ turns[t].pc \in {"top", "ready", "opening", "stream", "stopping"}
    BY <1>7 DEF StreamMalformed, Streaming, Silent
  <2>2. Fits(t, r) /\ r.round = turns[t].round /\ r.pc = "top"
    BY DEF Typed, Fits, Pcs
  <2>. HIDE DEF r
  <2>. QED
    BY <1>2, <2>1, <2>2 DEF Says
<1>8. CASE StopBlocked(t)
  <2>. DEFINE r == [turns[t] EXCEPT !.pc = "top", !.blocks = HoldCount(t),
                                    !.empty = FALSE]
  <2>1. /\ turns' = [turns EXCEPT ![t] = r] /\ calls' = calls /\ Silent
        /\ turns[t].pc \in {"top", "ready", "opening", "stream", "stopping"}
    BY <1>8 DEF StopBlocked, Silent
  <2>2. Fits(t, r) /\ r.round = turns[t].round /\ r.pc = "top"
    BY DEF Typed, Fits, Pcs
  <2>. HIDE DEF r
  <2>. QED
    BY <1>2, <2>1, <2>2 DEF Says
<1>9. CASE StopTakesInput(t)
  <2>. DEFINE r == [turns[t] EXCEPT !.pc = "top", !.empty = FALSE]
  <2>1. /\ turns' = [turns EXCEPT ![t] = r] /\ calls' = calls
        /\ turns[t].pc \in {"top", "ready", "opening", "stream", "stopping"}
        /\ Push(UserMessage({}, {TypedMeanwhile}))
    BY <1>9 DEF StopTakesInput
  <2>2. Fits(t, r) /\ r.round = turns[t].round /\ r.pc = "top"
    BY DEF Typed, Fits, Pcs
  <2>. HIDE DEF r
  <2>3. Moves(t)
    BY <1>2, <2>1, <2>2
  <2>4. {TypedMeanwhile} \in SUBSET Sayable
    BY DEF Sayable
  <2>. QED
    BY <2>1, <2>3, <2>4 DEF Says
<1>10. CASE StopSilent(t)
  <2>. DEFINE r == [turns[t] EXCEPT !.pc = "top", !.silent = 1, !.empty = FALSE]
  <2>1. /\ turns' = [turns EXCEPT ![t] = r] /\ calls' = calls /\ Silent
        /\ turns[t].pc \in {"top", "ready", "opening", "stream", "stopping"}
    BY <1>10 DEF StopSilent, Silent
  <2>2. Fits(t, r) /\ r.round = turns[t].round /\ r.pc = "top"
    BY DEF Typed, Fits, Pcs
  <2>. HIDE DEF r
  <2>. QED
    BY <1>2, <2>1, <2>2 DEF Says
<1>11. CASE StopCompletes(t)
  <2>0. CASE EndOnly(t)
    BY <1>11, <2>0, EndOnlyTalks DEF StopCompletes
  <2>. DEFINE r == [turns[t] EXCEPT !.pc = "hooking", !.tried = TRUE,
                                    !.forced = FALSE, !.next = "closing"]
  <2>1. CASE ~EndOnly(t)
    <3>1. /\ turns' = [turns EXCEPT ![t] = r] /\ calls' = calls /\ Silent
          /\ turns[t].pc \in {"top", "ready", "opening", "stream", "stopping"}
      BY <1>11, <2>1 DEF StopCompletes, Silent
    <3>2. Fits(t, r) /\ r.round = turns[t].round /\ r.pc = "hooking"
      BY DEF Typed, Fits, Pcs
    <3>. HIDE DEF r
    <3>. QED
      BY <1>2, <3>1, <3>2 DEF Says
  <2>. QED
    BY <2>0, <2>1
<1>. QED
  BY <1>1, <1>3, <1>4, <1>5, <1>6, <1>7, <1>8, <1>9, <1>10, <1>11 DEF Round

LEMMA CompactionTalks ==
  ASSUME TurnLoopAssumption, Typed, NEW t \in Turn, Compaction(t)
  PROVE  Moves(t) /\ Says(t)
<1>1. ASSUME NEW r, turns' = [turns EXCEPT ![t] = r]
      PROVE  /\ DOMAIN turns' = Turn /\ \A u \in Turn \ {t} : turns'[u] = turns[u]
             /\ turns'[t] = r
  BY <1>1 DEF Typed
<1>2. calls' = calls => calls' \in [Call -> Outcomes] /\ \A c \in Call : calls'[c] = calls[c]
  BY DEF Typed
<1>3. CASE MaybeCompact(t)
  <2>. DEFINE r == [turns[t] EXCEPT !.pc = "hooking", !.tried = TRUE,
                                    !.forced = FALSE, !.next = "top"]
  <2>1. turns' = [turns EXCEPT ![t] = r] /\ calls' = calls /\ Silent /\ turns[t].pc = "top"
    BY <1>3 DEF MaybeCompact, Silent
  <2>2. Fits(t, r) /\ r.round = turns[t].round /\ r.pc = "hooking"
    BY DEF Typed, Fits, Pcs
  <2>. HIDE DEF r
  <2>3. Moves(t)
    BY <1>1, <2>1, <2>2, Steps
  <2>. QED
    BY <2>1, <2>3 DEF Says
<1>4. CASE ForceCompact(t)
  <2>. DEFINE r == [turns[t] EXCEPT !.pc = "hooking", !.forced = TRUE, !.next = "ready"]
  <2>1. turns' = [turns EXCEPT ![t] = r] /\ calls' = calls /\ Silent /\ turns[t].pc = "top"
    BY <1>4 DEF ForceCompact, Silent
  <2>2. Fits(t, r) /\ r.round = turns[t].round /\ r.pc = "hooking"
    BY DEF Typed, Fits, Pcs
  <2>. HIDE DEF r
  <2>3. Moves(t)
    BY <1>1, <2>1, <2>2, Steps
  <2>. QED
    BY <2>1, <2>3 DEF Says
<1>5. CASE Summarize(t)
  <2>1. PICK k \in RoundStarts \union {Len(messages) + 1} :
          turns' = [turns EXCEPT
            ![t].pc = "summarizing",
            ![t].plan = PlanFrom(k),
            ![t].signal = IF turns[t].forced THEN -t ELSE active]
    BY <1>5 DEF Summarize
  <2>. DEFINE r == [turns[t] EXCEPT !.pc = "summarizing", !.plan = PlanFrom(k),
                      !.signal = IF turns[t].forced THEN -t ELSE active]
  <2>2. turns' = [turns EXCEPT ![t] = r] /\ calls' = calls /\ Silent /\ turns[t].pc = "hooking"
    BY <1>5, <2>1 DEF Summarize, Silent
  <2>3. /\ Fits(t, r) /\ r.round = turns[t].round /\ r.pc = "summarizing"
        /\ r.plan = PlanFrom(k)
    BY DEF Typed, Fits, Pcs
  <2>4. k \in 1..Len(messages) + 1
    BY <2>1 DEF RoundStarts
  <2>. HIDE DEF r
  <2>5. /\ DOMAIN turns' = Turn /\ \A u \in Turn \ {t} : turns'[u] = turns[u]
        /\ turns'[t] = r
    BY <1>1, <2>2
  <2>6. Moves(t)
    BY <1>2, <2>2, <2>3, <2>4, <2>5 DEF Moves
  <2>. QED
    BY <2>2, <2>6 DEF Says
<1>6. CASE SummaryArrives(t)
  <2>. DEFINE r == [turns[t] EXCEPT !.pc = "appending"]
  <2>1. turns' = [turns EXCEPT ![t] = r] /\ calls' = calls /\ Silent /\ turns[t].pc = "summarizing"
    BY <1>6 DEF SummaryArrives, Silent, Goto
  <2>2. /\ Fits(t, r) /\ r.round = turns[t].round /\ r.pc = "appending"
        /\ r.plan = turns[t].plan
    BY DEF Typed, Fits, Pcs
  <2>. HIDE DEF r
  <2>3. /\ DOMAIN turns' = Turn /\ \A u \in Turn \ {t} : turns'[u] = turns[u]
        /\ turns'[t] = r
    BY <1>1, <2>1
  <2>4. Moves(t)
    BY <1>2, <2>1, <2>2, <2>3 DEF Moves, HoldsPlan
  <2>. QED
    BY <2>1, <2>4 DEF Says
<1>7. CASE SummaryFails(t) \/ BoundaryWritten(t) \/ BoundaryFails(t)
  <2>. DEFINE r == [turns[t] EXCEPT !.pc = turns[t].next, !.plan = NoPlan, !.signal = NoController]
  <2>1. turns' = [turns EXCEPT ![t] = r] /\ calls' = calls
        /\ turns[t].pc \in {"summarizing", "appending"}
    BY <1>7 DEF SummaryFails, BoundaryWritten, BoundaryFails, LeaveCompaction
  <2>2. /\ Fits(t, r) /\ r.round = turns[t].round /\ r.pc \in {"top", "ready", "closing"}
    BY DEF Typed, Fits, Pcs
  <2>. HIDE DEF r
  <2>3. Moves(t)
    BY <1>1, <2>1, <2>2, Steps
  <2>4. Silent \/ (/\ turns[t].pc = "appending" /\ messages' = Spliced(t)
                   /\ UNCHANGED <<sent, told, overtaken>>)
    BY <1>7 DEF SummaryFails, BoundaryWritten, BoundaryFails
  <2>. QED
    BY <2>3, <2>4 DEF Says
<1>8. CASE Close(t)
  BY <1>8, EndOnlyTalks DEF Close
<1>. QED
  BY <1>3, <1>4, <1>5, <1>6, <1>7, <1>8 DEF Compaction

LEMMA BatchStays ==
  ASSUME NEW t, turns'[t].round = turns[t].round, turns'[t].batch = turns[t].batch
  PROVE  BatchCalls(t)' = BatchCalls(t)
BY DEF BatchCalls, Id

\* A batch that ends has an outcome for each of its calls.
LEMMA FinalizeTalks ==
  ASSUME TurnLoopAssumption, Typed, NEW t \in Turn, turns[t].pc = "tools",
         NEW verdict \in {"go", "stop", "throw"}, NEW outcome,
         Finalize(t, verdict, outcome), Silent
  PROVE  Moves(t) /\ Says(t)
<1>. DEFINE r == [turns[t] EXCEPT !.pc = "sealing", !.verdict = verdict,
                                  !.groups = <<>>, !.holds = TakesInput(t, verdict)]
<1>1. turns' = [turns EXCEPT ![t] = r]
  BY DEF Finalize
<1>2. /\ Fits(t, r) /\ r.round = turns[t].round /\ r.pc = "sealing"
      /\ r.batch = turns[t].batch
  BY DEF Typed, Fits, Pcs
<1>. HIDE DEF r
<1>3. /\ DOMAIN turns' = Turn /\ \A u \in Turn \ {t} : turns'[u] = turns[u]
      /\ turns'[t] = r
  BY <1>1 DEF Typed
<1>4. BatchCalls(t)' = BatchCalls(t)
  BY <1>2, <1>3, BatchStays
<1>5. BatchCalls(t) \subseteq Call
  BY BatchIn
<1>6. calls' = [c \in Call |->
        IF c \notin BatchCalls(t) THEN calls[c]
        ELSE IF outcome[c] \in {"real", "reject"} THEN "real" ELSE "cut"]
  BY DEF Finalize
<1>7. /\ calls' \in [Call -> Outcomes]
      /\ \A c \in BatchCalls(t) : calls'[c] \in {"real", "cut"}
  BY <1>5, <1>6 DEF Typed, Outcomes
<1>8. \A c \in Call : c[1] # t => calls'[c] = calls[c]
  <2>1. \A c \in Call : c[1] # t => c \notin BatchCalls(t)
    BY DEF BatchCalls, Id
  <2>. QED
    BY <1>6, <2>1
<1>9. Moves(t)
  BY <1>2, <1>3, <1>4, <1>7, <1>8 DEF Moves
<1>. QED
  BY <1>9 DEF Says

LEMMA SealTalks ==
  ASSUME TurnLoopAssumption, Typed, NEW t \in Turn, Seal(t)
  PROVE  Moves(t) /\ Says(t)
<1>1. /\ turns[t].pc = "sealing" /\ Push(SealedBatch(t))
      /\ calls' = [c \in Call |-> IF c \in BatchCalls(t) THEN "none" ELSE calls[c]]
  BY DEF Seal
<1>2. calls' \in [Call -> Outcomes] /\ \A c \in Call : c[1] # t => calls'[c] = calls[c]
  <2>1. \A c \in Call : c[1] # t => c \notin BatchCalls(t)
    BY DEF BatchCalls, Id
  <2>. QED
    BY <1>1, <2>1 DEF Typed, Outcomes
<1>3. CASE End(t)
  <2>1. Moves(t) /\ turns'[t].pc = "done"
    BY <1>1, <1>2, <1>3, EndMoves
  <2>. QED
    BY <1>1, <2>1 DEF Says
<1>4. CASE ~End(t)
  <2>. DEFINE r == [turns[t] EXCEPT !.pc = "top", !.batch = 0, !.holds = FALSE]
  <2>1. turns' = [turns EXCEPT ![t] = r]
    BY <1>4 DEF Seal
  <2>2. 0 \in 0..MaxCalls[t]
    BY DEF TurnLoopAssumption, Turn
  <2>3. Fits(t, r) /\ r.round = turns[t].round /\ r.pc = "top"
    BY <2>2 DEF Typed, Fits, Pcs
  <2>. HIDE DEF r
  <2>4. /\ DOMAIN turns' = Turn /\ \A u \in Turn \ {t} : turns'[u] = turns[u]
        /\ turns'[t] = r
    BY <2>1 DEF Typed
  <2>5. Moves(t)
    BY <1>1, <1>2, <2>3, <2>4 DEF Moves
  <2>. QED
    BY <1>1, <2>3, <2>4, <2>5 DEF Says
<1>. QED
  BY <1>3, <1>4

LEMMA DispatchTalks ==
  ASSUME TurnLoopAssumption, Typed, NEW t \in Turn, Dispatch(t)
  PROVE  Moves(t) /\ Says(t)
<1>1. CASE GroupFails(t)
  <2>1. turns[t].pc = "tools" /\ Silent
    BY <1>1 DEF GroupFails, GroupSettled
  <2>2. \E v \in {"go", "stop", "throw"} : \E o : Finalize(t, v, o)
    BY <1>1 DEF GroupFails
  <2>. QED
    BY <2>1, <2>2, FinalizeTalks
<1>2. CASE GroupDone(t)
  <2>1. turns[t].pc = "tools" /\ Silent
    BY <1>2 DEF GroupDone, GroupSettled
  <2>2. CASE \E v \in {"go", "stop", "throw"} : \E o : Finalize(t, v, o)
    BY <2>1, <2>2, FinalizeTalks
  <2>3. CASE /\ turns' = [turns EXCEPT ![t].groups = Tail(@)]
             /\ calls' = Start(t, GroupIds(t, turns[t].groups[2]), calls)
    <3>. DEFINE r == [turns[t] EXCEPT !.groups = Tail(@)]
                G == GroupIds(t, turns[t].groups[2])
    <3>1. turns' = [turns EXCEPT ![t] = r]
      BY <2>3
    <3>2. Fits(t, r) /\ r.round = turns[t].round /\ r.pc = "tools"
      BY <2>1 DEF Typed, Fits, Pcs
    <3>. HIDE DEF r
    <3>3. /\ DOMAIN turns' = Turn /\ \A u \in Turn \ {t} : turns'[u] = turns[u]
          /\ turns'[t] = r
      BY <3>1 DEF Typed
    <3>4. \A c \in Call : c[1] # t => c \notin G
      BY DEF GroupIds, Id
    <3>. HIDE DEF G
    <3>5. calls' \in [Call -> Outcomes] /\ \A c \in Call : c[1] # t => calls'[c] = calls[c]
      <4>1. calls' = [c \in Call |-> IF c \notin G THEN calls[c]
                                    ELSE IF DispatchCancelled(t) THEN "cut" ELSE "running"]
        BY <2>3 DEF Start, G
      <4>. QED
        BY <3>4, <4>1 DEF Typed, Outcomes
    <3>6. Moves(t)
      BY <2>1, <3>2, <3>3, <3>5 DEF Moves
    <3>. QED
      BY <2>1, <3>6 DEF Says
  <2>. QED
    BY <1>2, <2>2, <2>3 DEF GroupDone
<1>3. CASE Seal(t)
  BY <1>3, SealTalks
<1>4. ASSUME NEW i \in 1..turns[t].batch, Settle(t, Id(t, i))
      PROVE  Moves(t) /\ Says(t)
  <2>1. /\ turns[t].pc = "tools" /\ Silent /\ turns' = turns
        /\ \E o \in Outcomes : calls' = [calls EXCEPT ![Id(t, i)] = o]
    BY <1>4 DEF Settle, Settled, Outcomes
  <2>2. calls' \in [Call -> Outcomes] /\ \A c \in Call : c[1] # t => calls'[c] = calls[c]
    <3>. DEFINE d == Id(t, i)
    <3>1. \A c \in Call : c[1] # t => c # d
      BY DEF Id
    <3>. HIDE DEF d
    <3>2. PICK o \in Outcomes : calls' = [calls EXCEPT ![d] = o]
      BY <2>1 DEF d
    <3>. QED
      BY <3>1, <3>2 DEF Typed
  <2>3. Moves(t)
    BY <2>1, <2>2 DEF Moves, Typed
  <2>. QED
    BY <2>1, <2>3 DEF Says
<1>. QED
  BY <1>1, <1>2, <1>3, <1>4 DEF Dispatch

-----------------------------------------------------------------------------
(* What a step says is told to the conversation, and to each plan that is    *)
(* held meanwhile.                                                           *)

\* What was told by the end of a step, in the conversation it leaves and in
\* the plans that were held when it began.
Heard ==
  /\ sent' \subseteq Sayable /\ told' \subseteq Call
  /\ overtaken' \in [said : SUBSET sent', told : SUBSET told']
  /\ \A c \in told' : Given(c, turns')
  /\ Faithful(messages', turns', told', overtaken'.told)
  /\ sent' \ overtaken'.said \subseteq Said(messages')
  /\ \A u \in Turn : HoldsPlan(u) =>
       /\ Faithful(turns[u].plan.tail, turns', told', overtaken'.told)
       /\ turns[u].plan.said \subseteq Sayable
       /\ sent' \ overtaken'.said \subseteq turns[u].plan.said \union Said(turns[u].plan.tail)

\* A call that was not given an answer yet has none anywhere.
LEMMA NotGiven ==
  ASSUME NEW X, NEW T, NEW S, NEW O, Faithful(X, T, S, O), NEW c, ~Given(c, T)
  PROVE  Unanswered(X, c)
BY DEF Faithful, Unanswered, CallsOf

LEMMA SilentHeard ==
  ASSUME Talk, Older(turns, turns'), Silent
  PROVE  Heard
<1>1. messages' = messages /\ sent' = sent /\ told' = told /\ overtaken' = overtaken
  BY DEF Silent
<1>2. \A c \in told' : Given(c, turns')
  BY <1>1 DEF Talk, Typed, Older
<1>3. Faithful(messages', turns', told', overtaken'.told)
  BY <1>1, KeepFaithful DEF Talk
<1>4. ASSUME NEW u \in Turn, HoldsPlan(u)
      PROVE  Faithful(turns[u].plan.tail, turns', told', overtaken'.told)
  <2>1. Faithful(turns[u].plan.tail, turns, told, overtaken.told)
    BY <1>4 DEF Talk, PlanIsFaithful
  <2>. QED
    BY <1>1, <2>1, KeepFaithful
<1>. QED
  BY <1>1, <1>2, <1>3, <1>4 DEF Heard, Talk, Typed, PromptsStay, PlanIsFaithful

\* A message is pushed: the calls it makes are new, and those it answers had
\* no answer.
LEMMA PushHeard ==
  ASSUME Talk, Older(turns, turns'), NEW m \in Messages, Push(m),
         IF m.role = "user" THEN m.uses = {} ELSE m.results = {},
         \A c \in m.uses : Spent(c, turns') /\ ~Spent(c, turns) /\ ~Given(c, turns),
         \A a \in m.results : Given(a.call, turns') /\ ~Given(a.call, turns),
         \A a, b \in m.results : a.call = b.call => a = b
  PROVE  Heard
<1>. DEFINE real == {a.call : a \in {b \in m.results : b.is = "real"}}
            O == overtaken.told
            Q == overtaken'.told
<1>1. /\ messages' = IF Holds(m) THEN Append(messages, m) ELSE messages
      /\ sent' = sent \union m.says /\ told' = told \union real
      /\ overtaken' = IF PlanHeld
                      THEN [said |-> overtaken.said \union m.says,
                            told |-> overtaken.told \union real]
                      ELSE overtaken
  BY DEF Push
<1>2. /\ m.says \subseteq Sayable /\ m.results \subseteq Answers
      /\ m.role \in {"user", "assistant"}
  BY MessageIs
<1>3. \A a \in m.results : a.call \in Call
  BY <1>2, AnswerIs
<1>4. real \subseteq Call /\ \A c \in real : Given(c, turns') /\ ~Given(c, turns)
  BY <1>3
<1>. HIDE DEF real
<1>5. /\ sent \subseteq Sayable /\ told \subseteq Call
      /\ overtaken \in [said : SUBSET sent, told : SUBSET told]
      /\ \A c \in told : Given(c, turns)
      /\ Faithful(messages, turns, told, O)
      /\ sent \ overtaken.said \subseteq Said(messages)
  BY DEF Talk, Typed, PromptsStay
<1>6. /\ sent' \subseteq Sayable /\ told' \subseteq Call
      /\ overtaken' \in [said : SUBSET sent', told : SUBSET told']
      /\ O \subseteq Q /\ overtaken.said \subseteq overtaken'.said
      /\ PlanHeld => /\ told' \ Q \subseteq told \ O
                     /\ sent' \ overtaken'.said \subseteq sent \ overtaken.said
  BY <1>1, <1>2, <1>4, <1>5
<1>7. \A c \in told' : Given(c, turns')
  BY <1>1, <1>4, <1>5 DEF Older
<1>. HIDE DEF O, Q
<1>8. Faithful(messages', turns', told', Q) /\ sent' \ overtaken'.said \subseteq Said(messages')
  <2>1. CASE Holds(m)
    <3>1. messages' = Append(messages, m)
      BY <1>1, <2>1
    <3>2. \A c \in m.uses : Spent(c, turns') /\ c \notin Used(messages) /\ c \notin told
                              /\ Unanswered(messages, c)
      BY <1>5, NotGiven DEF Faithful
    <3>3. \A a \in m.results : Given(a.call, turns') /\ a.call \notin told
                                 /\ Unanswered(messages, a.call)
      BY <1>5, NotGiven
    <3>4. Faithful(Append(messages, m), turns', told', Q)
      <4>1. told' = told \union {a.call : a \in {b \in m.results : b.is = "real"}}
        BY <1>1 DEF real
      <4>2. Faithful(messages, turns, told, O) /\ O \subseteq Q
        BY <1>5, <1>6
      <4>3. \A c \in m.uses : Spent(c, turns') /\ c \notin Used(messages) /\ c \notin told
                                /\ Unanswered(messages, c)
        BY <3>2
      <4>. QED
        BY ONLY Older(turns, turns'), m \in Messages,
                IF m.role = "user" THEN m.uses = {} ELSE m.results = {},
                \A a, b \in m.results : a.call = b.call => a = b,
                <3>3, <4>1, <4>2, <4>3, AppendFaithful
    <3>5. Said(Append(messages, m)) = Said(messages) \union m.says
      BY <1>5, AppendIs DEF Faithful, Conversation
    <3>. QED
      BY <1>1, <1>5, <1>6, <3>1, <3>4, <3>5
  <2>2. CASE ~Holds(m)
    <3>1. messages' = messages /\ m.results = {} /\ m.says = {}
      BY <1>1, <2>2 DEF Holds
    <3>2. told' = told /\ sent' = sent
      BY <1>1, <3>1 DEF real
    <3>3. Faithful(messages, turns', told', Q)
      BY <1>5, <1>6, <3>2, KeepFaithful
    <3>. QED
      BY <1>5, <1>6, <3>1, <3>2, <3>3
  <2>. QED
    BY <2>1, <2>2
<1>9. ASSUME NEW u \in Turn, HoldsPlan(u)
      PROVE  /\ Faithful(turns[u].plan.tail, turns', told', Q)
             /\ turns[u].plan.said \subseteq Sayable
             /\ sent' \ overtaken'.said
                  \subseteq turns[u].plan.said \union Said(turns[u].plan.tail)
  <2>1. /\ Faithful(turns[u].plan.tail, turns, told, O)
        /\ turns[u].plan.said \subseteq Sayable
        /\ sent \ overtaken.said \subseteq turns[u].plan.said \union Said(turns[u].plan.tail)
    BY <1>9 DEF Talk, PlanIsFaithful, O
  <2>2. PlanHeld
    BY <1>9 DEF PlanHeld, HoldsPlan
  <2>3. \A c \in told' \ told : Unanswered(turns[u].plan.tail, c)
    BY <1>1, <1>4, <2>1, NotGiven
  <2>4. Faithful(turns[u].plan.tail, turns', told', Q)
    BY <1>6, <2>1, <2>2, <2>3, KeepFaithful
  <2>. QED
    BY <1>6, <2>1, <2>2, <2>4
<1>. QED
  BY <1>6, <1>7, <1>8, <1>9 DEF Heard, Q

\* The turn grows older by each of its steps.
LEMMA MovesOlder ==
  ASSUME TurnLoopAssumption, Typed, NEW t \in Turn, Moves(t)
  PROVE  Older(turns, turns')
<1>1. ASSUME NEW c \in Call
      PROVE  (Spent(c, turns) => Spent(c, turns')) /\ (Given(c, turns) => Given(c, turns'))
  <2>1. CASE c[1] # t
    <3>1. c[1] \in Turn
      BY DEF Call
    <3>2. turns'[c[1]] = turns[c[1]]
      BY <2>1, <3>1 DEF Moves
    <3>. QED
      BY <3>2 DEF Spent, Given
  <2>2. CASE c[1] = t
    <3>. DEFINE r == turns[t]
                q == turns'[t]
    <3>1. c[2] \in Nat /\ r.round \in Nat
      BY DEF Call, Typed, Fits
    <3>2. /\ r.pc # "done"
          /\ \/ q.pc = "done"
             \/ /\ q.round = r.round
                /\ q.pc \in {"tools", "sealing"} => r.pc \in {"tools", "sealing"}
             \/ q.round = r.round + 1
      BY DEF Moves
    <3>. HIDE DEF r, q
    <3>3. c[2] <= r.round => q.pc = "done" \/ c[2] <= q.round
      BY <3>1, <3>2
    <3>4. c[2] < r.round \/ (c[2] = r.round /\ r.pc \notin {"tools", "sealing"}) =>
            q.pc = "done" \/ c[2] < q.round
            \/ (c[2] = q.round /\ q.pc \notin {"tools", "sealing"})
      BY <3>1, <3>2
    <3>. QED
      BY <2>2, <3>2, <3>3, <3>4 DEF Spent, Given, r, q
  <2>. QED
    BY <2>1, <2>2
<1>. QED
  BY <1>1 DEF Older

\* The calls of the next round are new, and so are the answers of the batch.
LEMMA RoundCallsNew ==
  ASSUME TurnLoopAssumption, Typed, NEW t \in Turn, Moves(t), NEW n, Asks(t, n),
         NEW c \in CallsOfRound(t, n)
  PROVE  /\ c \in Call
         /\ Spent(c, turns') /\ ~Spent(c, turns) /\ ~Given(c, turns)
<1>. DEFINE k == turns[t].round
<1>1. k \in Nat /\ c[1] = t /\ c[2] = k + 1
  BY DEF Typed, Fits, CallsOfRound
<1>2. /\ turns[t].pc = "stream"
      /\ turns'[t].pc = "done" \/ turns'[t].round = k + 1
  BY DEF Asks
<1>3. c \in Call
  BY RoundCallsIn DEF Asks
<1>. HIDE DEF k
<1>4. ~(k + 1 <= k) /\ ~(k + 1 < k) /\ k + 1 # k /\ k + 1 <= k + 1
  BY <1>1
<1>5. Spent(c, turns')
  BY <1>1, <1>2, <1>4 DEF Spent
<1>6. ~Spent(c, turns) /\ ~Given(c, turns)
  BY <1>1, <1>2, <1>4 DEF Spent, Given, k
<1>. QED
  BY <1>3, <1>5, <1>6

LEMMA BatchCallsNew ==
  ASSUME TurnLoopAssumption, Typed, NEW t \in Turn, turns[t].pc = "sealing",
         turns'[t].pc = "done" \/ (turns'[t].pc = "top" /\ turns'[t].round = turns[t].round),
         NEW c \in BatchCalls(t)
  PROVE  c \in Call /\ Given(c, turns') /\ ~Given(c, turns)
<1>1. turns[t].round \in Nat /\ c[1] = t /\ c[2] = turns[t].round
  BY DEF Typed, Fits, BatchCalls, Id
<1>2. c \in Call
  BY BatchIn
<1>3. Given(c, turns')
  BY <1>1 DEF Given
<1>4. ~(turns[t].round < turns[t].round)
  BY <1>1
<1>. QED
  BY <1>1, <1>2, <1>3, <1>4 DEF Given

LEMMA AppendTwice ==
  ASSUME NEW S, NEW s \in Seq(S), NEW a \in S, NEW b \in S
  PROVE  s \o <<a, b>> = Append(Append(s, a), b)
OBVIOUS

LEMMA CommitHeard ==
  ASSUME TurnLoopAssumption, Talk, NEW t \in Turn, Moves(t), NEW n, Asks(t, n),
         Push(AssistantMessage(CallsOfRound(t, n)))
  PROVE  Heard
<1>. DEFINE cs == CallsOfRound(t, n)
            m == AssistantMessage(cs)
<1>1. Typed /\ Older(turns, turns')
  BY MovesOlder DEF Talk
<1>2. \A c \in cs : /\ c \in Call /\ Spent(c, turns')
                    /\ ~Spent(c, turns) /\ ~Given(c, turns)
  BY <1>1, RoundCallsNew
<1>. HIDE DEF cs
<1>3. m \in Messages /\ m.role = "assistant" /\ m.uses = cs /\ m.results = {}
  BY <1>2, AssistantMessageIs
<1>4. Push(m)
  BY DEF cs
<1>. HIDE DEF m
<1>. QED
  BY <1>1, <1>2, <1>3, <1>4, PushHeard

\* A response that hit its length cap, and the answers it is given at once.
LEMMA CappedHeard ==
  ASSUME TurnLoopAssumption, Talk, NEW t \in Turn, Moves(t), turns'[t].pc = "done",
         NEW n, Asks(t, n),
         messages' = messages
           \o <<AssistantMessage(CallsOfRound(t, n)),
                UserMessage({Answer(c, "cut") : c \in CallsOfRound(t, n)}, {})>>,
         UNCHANGED <<sent, told, overtaken>>
  PROVE  Heard
<1>. DEFINE cs == CallsOfRound(t, n)
            A == AssistantMessage(cs)
            R == {Answer(c, "cut") : c \in cs}
            B == UserMessage(R, {})
            X == Append(messages, A)
            O == overtaken.told
<1>1. /\ Typed /\ Older(turns, turns') /\ Older(turns', turns')
      /\ Faithful(messages, turns, told, O) /\ messages \in Seq(Messages)
  BY MovesOlder DEF Talk, Older, Faithful, Conversation
<1>2. \A c \in cs : /\ c \in Call /\ Spent(c, turns')
                    /\ ~Spent(c, turns) /\ ~Given(c, turns)
  BY <1>1, RoundCallsNew
<1>3. \A c \in cs : Given(c, turns')
  BY DEF CallsOfRound, Given
<1>. HIDE DEF cs
<1>4. A \in Messages /\ A.role = "assistant" /\ A.uses = cs /\ A.results = {} /\ A.says = {}
  BY <1>2, AssistantMessageIs
<1>5. /\ \A a \in R : /\ a \in Answers /\ a.is = "cut" /\ a.call \in cs
                      /\ a = Answer(a.call, "cut")
      /\ {a.call : a \in {b \in R : b.is = "real"}} = {}
  BY <1>2, AnswerOf
<1>. HIDE DEF R
<1>6. B \in Messages /\ B.role = "user" /\ B.uses = {} /\ B.results = R /\ B.says = {}
  <2>1. R \in SUBSET Answers
    BY <1>5
  <2>. QED
    BY <2>1 DEF UserMessage, Messages
<1>7. messages' = Append(X, B)
  <2>1. messages' = messages \o <<A, B>>
    BY DEF cs, R
  <2>2. A \in Messages /\ B \in Messages
    BY <1>4, <1>6
  <2>. HIDE DEF A, B
  <2>3. messages \o <<A, B>> = Append(Append(messages, A), B)
    BY <1>1, <2>2, AppendTwice
  <2>. QED
    BY <2>1, <2>3
<1>8. \A c \in cs : c \notin Used(messages) /\ c \notin told /\ Unanswered(messages, c)
  BY <1>1, <1>2, NotGiven DEF Faithful, Talk
<1>. HIDE DEF A, B, X, O
<1>9. /\ X \in Seq(Messages) /\ Used(X) = Used(messages) \union cs
      /\ Said(X) = Said(messages)
      /\ \A i \in DOMAIN X : i \in DOMAIN messages \/ X[i] = A
      /\ \A i \in DOMAIN messages : X[i] = messages[i]
  <2>1. LET Y == Append(messages, A)
        IN  /\ Y \in Seq(Messages)
            /\ Len(Y) = Len(messages) + 1 /\ Len(messages) \in Nat
            /\ DOMAIN Y = 1..Len(messages) + 1 /\ DOMAIN messages = 1..Len(messages)
            /\ Y[Len(messages) + 1] = A
            /\ \A i \in DOMAIN messages : Y[i] = messages[i]
            /\ Used(Y) = Used(messages) \union A.uses
            /\ Said(Y) = Said(messages) \union A.says
    BY <1>1, <1>4, AppendIs
  <2>2. \A i \in 1..Len(messages) + 1 : i \in 1..Len(messages) \/ i = Len(messages) + 1
    BY <2>1
  <2>. QED
    BY <1>4, <2>1, <2>2 DEF X
<1>10. Faithful(X, turns', told, O)
  <2>1. told = told \union {a.call : a \in {b \in A.results : b.is = "real"}}
    BY <1>4
  <2>2. \A a \in A.results : Given(a.call, turns') /\ a.call \notin told
                               /\ Unanswered(messages, a.call)
    BY <1>4
  <2>3. \A c \in A.uses : Spent(c, turns') /\ c \notin Used(messages) /\ c \notin told
                            /\ Unanswered(messages, c)
    BY <1>2, <1>4, <1>8
  <2>4. /\ IF A.role = "user" THEN A.uses = {} ELSE A.results = {}
        /\ \A a, b \in A.results : a.call = b.call => a = b
    BY <1>4
  <2>5. Faithful(Append(messages, A), turns', told, O)
    BY ONLY <1>1, <1>4, <2>1, <2>2, <2>3, <2>4, AppendFaithful
  <2>. QED
    BY <2>5 DEF X
<1>11. Faithful(Append(X, B), turns', told, O)
  <2>1. told = told \union {a.call : a \in {b \in B.results : b.is = "real"}}
    BY <1>5, <1>6
  <2>2. \A a \in B.results : Given(a.call, turns') /\ a.call \notin told
                               /\ Unanswered(X, a.call)
    BY <1>3, <1>4, <1>5, <1>6, <1>8, <1>9 DEF Unanswered, CallsOf
  <2>3. \A c \in B.uses : Spent(c, turns') /\ c \notin Used(X) /\ c \notin told
                            /\ Unanswered(X, c)
    BY <1>6
  <2>4. /\ IF B.role = "user" THEN B.uses = {} ELSE B.results = {}
        /\ \A a, b \in B.results : a.call = b.call => a = b
    BY <1>5, <1>6
  <2>. QED
    BY ONLY <1>1, <1>6, <1>10, <2>1, <2>2, <2>3, <2>4, AppendFaithful
<1>12. Said(Append(X, B)) = Said(messages)
  <2>1. Said(Append(X, B)) = Said(X) \union B.says
    BY <1>6, <1>9, AppendIs
  <2>. QED
    BY <1>6, <1>9, <2>1
<1>13. sent' = sent /\ told' = told /\ overtaken' = overtaken
  OBVIOUS
<1>14. ASSUME NEW u \in Turn, HoldsPlan(u)
       PROVE  Faithful(turns[u].plan.tail, turns', told', overtaken'.told)
  <2>1. Faithful(turns[u].plan.tail, turns, told, overtaken.told)
    BY <1>14 DEF Talk, PlanIsFaithful
  <2>. QED
    BY <1>1, <1>13, <2>1, KeepFaithful
<1>15. \A c \in told' : Given(c, turns')
  BY <1>1, <1>13 DEF Talk, Typed, Older
<1>16. Faithful(messages', turns', told', overtaken'.told)
  BY <1>7, <1>11, <1>13 DEF O
<1>. QED
  BY <1>7, <1>12, <1>13, <1>14, <1>15, <1>16
  DEF Heard, Talk, Typed, PromptsStay, PlanIsFaithful

\* The batch's answers join the conversation.
LEMMA SealHeard ==
  ASSUME TurnLoopAssumption, Talk, NEW t \in Turn, Moves(t), turns[t].pc = "sealing",
         turns'[t].pc = "done" \/ (turns'[t].pc = "top" /\ turns'[t].round = turns[t].round),
         Push(SealedBatch(t))
  PROVE  Heard
<1>. DEFINE cs == BatchCalls(t)
            R == {Answer(c, calls[c]) : c \in cs}
            S == IF turns[t].holds THEN {TypedMeanwhile} ELSE {}
            m == UserMessage(R, S)
<1>1. Typed /\ Older(turns, turns')
  BY MovesOlder DEF Talk
<1>2. \A c \in cs : /\ c \in Call /\ Given(c, turns') /\ ~Given(c, turns)
                    /\ calls[c] \in {"real", "cut"}
  BY <1>1, BatchCallsNew DEF Typed
<1>3. Push(m)
  BY DEF SealedBatch
<1>4. S \in SUBSET Sayable
  BY DEF Sayable
<1>. HIDE DEF cs, S
<1>5. \A a \in R : a \in Answers /\ a.call \in cs /\ a = Answer(a.call, calls[a.call])
  BY <1>2, AnswerOf
<1>. HIDE DEF R
<1>6. m \in Messages /\ m.role = "user" /\ m.uses = {} /\ m.results = R
  <2>1. R \in SUBSET Answers
    BY <1>5
  <2>. QED
    BY <1>4, <2>1, UserMessageIs
<1>. HIDE DEF m
<1>7. /\ \A a, b \in m.results : a.call = b.call => a = b
      /\ \A a \in m.results : Given(a.call, turns') /\ ~Given(a.call, turns)
  BY <1>2, <1>5, <1>6
<1>. QED
  BY <1>1, <1>3, <1>6, <1>7, PushHeard

\* The boundary replaces the conversation by the plan.
LEMMA SplicedHeard ==
  ASSUME TurnLoopAssumption, Talk, NEW t \in Turn, Older(turns, turns'),
         turns[t].pc = "appending", messages' = Spliced(t),
         UNCHANGED <<sent, told, overtaken>>
  PROVE  Heard
<1>. DEFINE p == turns[t].plan
<1>1. sent' = sent /\ told' = told /\ overtaken' = overtaken
  OBVIOUS
<1>2. ASSUME NEW u \in Turn, HoldsPlan(u)
      PROVE  Faithful(turns[u].plan.tail, turns', told', overtaken'.told)
  <2>1. Faithful(turns[u].plan.tail, turns, told, overtaken.told)
    BY <1>2 DEF Talk, PlanIsFaithful
  <2>. QED
    BY <1>1, <2>1, KeepFaithful
<1>3. HoldsPlan(t) /\ PlanIsFaithful(p)
  BY DEF HoldsPlan, Talk
<1>4. /\ Faithful(p.tail, turns', told', overtaken'.told)
      /\ p.said \in SUBSET Sayable
      /\ sent' \ overtaken'.said \subseteq p.said \union Said(p.tail)
  BY <1>1, <1>2, <1>3 DEF PlanIsFaithful
<1>5. messages' = <<UserMessage({}, p.said)>> \o p.tail
  BY DEF Spliced
<1>. HIDE DEF p
<1>6. Faithful(messages', turns', told', overtaken'.told)
  BY <1>4, <1>5, SplicedFaithful
<1>7. Said(messages') = p.said \union Said(p.tail)
  <2>. DEFINE m == UserMessage({}, p.said)
  <2>1. m \in Messages /\ m.says = p.said
    BY <1>4, ZenonT(40) DEF UserMessage, Messages
  <2>2. p.tail \in Seq(Messages)
    BY <1>4 DEF Faithful, Conversation
  <2>3. messages' = <<m>> \o p.tail
    BY <1>5
  <2>. HIDE DEF m
  <2>4. Said(<<m>> \o p.tail) = m.says \union Said(p.tail)
    BY <2>1, <2>2, PrependIs
  <2>. QED
    BY <2>1, <2>3, <2>4
<1>8. \A c \in told' : Given(c, turns')
  BY <1>1 DEF Talk, Typed, Older
<1>. QED
  BY <1>1, <1>2, <1>4, <1>6, <1>7, <1>8 DEF Heard, Talk, Typed, PlanIsFaithful

LEMMA SaysHeard ==
  ASSUME TurnLoopAssumption, Talk, NEW t \in Turn, Moves(t), Says(t)
  PROVE  Heard
<1>1. Older(turns, turns')
  BY MovesOlder DEF Talk
<1>2. ASSUME NEW S \in SUBSET Sayable, Push(UserMessage({}, S)) PROVE Heard
  <2>. DEFINE m == UserMessage({}, S)
  <2>1. m \in Messages /\ m.role = "user" /\ m.uses = {} /\ m.results = {} /\ Push(m)
    BY <1>2, UserMessageIs
  <2>. HIDE DEF m
  <2>. QED
    BY <1>1, <2>1, PushHeard
<1>. QED
  BY <1>1, <1>2, SilentHeard, CommitHeard, CappedHeard, SealHeard, SplicedHeard DEF Says

-----------------------------------------------------------------------------
(* The invariant of the conversation is kept by every step.                 *)

LEMMA HeardKeeps ==
  ASSUME Talk, Heard,
         DOMAIN turns' = Turn, \A u \in Turn : Fits(u, turns'[u]),
         calls' \in [Call -> Outcomes],
         \A u \in Turn : turns'[u].pc = "sealing" =>
           \A c \in BatchCalls(u)' : calls'[c] \in {"real", "cut"},
         \A u \in Turn : turns'[u].pc \in {"summarizing", "appending"} =>
           \/ HoldsPlan(u) /\ turns'[u].plan = turns[u].plan
           \/ \E k \in 1..Len(messages) + 1 : turns'[u].plan = PlanFrom(k) /\ Silent
  PROVE  Talk'
<1>1. Typed'
  BY DEF Typed, Heard
<1>2. ASSUME NEW u \in Turn, turns'[u].pc \in {"summarizing", "appending"}
      PROVE  LET p == turns'[u].plan
             IN  /\ Faithful(p.tail, turns', told', overtaken'.told)
                 /\ p.said \subseteq Sayable
                 /\ sent' \ overtaken'.said \subseteq p.said \union Said(p.tail)
  <2>1. CASE HoldsPlan(u) /\ turns'[u].plan = turns[u].plan
    BY <2>1 DEF Heard
  <2>2. ASSUME NEW k \in 1..Len(messages) + 1, turns'[u].plan = PlanFrom(k), Silent
        PROVE  LET p == turns'[u].plan
               IN  /\ Faithful(p.tail, turns', told', overtaken'.told)
                   /\ p.said \subseteq Sayable
                   /\ sent' \ overtaken'.said \subseteq p.said \union Said(p.tail)
    <3>. DEFINE H == SubSeq(messages, 1, k - 1)
                Y == SubSeq(messages, k, Len(messages))
    <3>1. turns'[u].plan.said = Said(H) /\ turns'[u].plan.tail = Y
      BY <2>2 DEF PlanFrom
    <3>2. /\ Faithful(messages, turns', told', overtaken'.told)
          /\ sent' \ overtaken'.said \subseteq Said(messages)
      BY <2>2 DEF Heard, Silent
    <3>3. messages \in Seq(Messages)
      BY <3>2 DEF Faithful, Conversation
    <3>4. Faithful(Y, turns', told', overtaken'.told)
      BY <3>2, TailFaithful
    <3>5. Said(messages) \subseteq Said(H) \union Said(Y)
      BY <3>3, TailIs
    <3>6. Said(H) \subseteq Sayable
      <4>1. H \in Seq(Messages)
        <5>1. 1 \in Int /\ k - 1 \in Int /\ \A i \in 1..k - 1 : messages[i] \in Messages
          BY <3>3
        <5>. QED
          BY <5>1, SubSeqProperties
      <4>2. \A i \in DOMAIN H : H[i] \in Messages
        BY <4>1
      <4>. HIDE DEF H
      <4>. QED
        BY <4>2, MessageIs DEF Said
    <3>. HIDE DEF H, Y
    <3>. QED
      BY <3>1, <3>2, <3>4, <3>5, <3>6
  <2>. QED
    BY <1>2, <2>1, <2>2
<1>3. \A u \in Turn : HoldsPlan(u)' => PlanIsFaithful(turns[u].plan)'
  BY <1>2 DEF HoldsPlan, PlanIsFaithful
<1>4. PromptsStay'
  BY DEF Heard, PromptsStay
<1>. QED
  BY <1>1, <1>3, <1>4 DEF Talk, Heard

LEMMA TalkKeeps ==
  ASSUME TurnLoopAssumption, Talk, NEW t \in Turn, Moves(t), Says(t)
  PROVE  Talk'
<1>1. Heard /\ Typed
  BY SaysHeard DEF Talk
<1>2. /\ DOMAIN turns' = Turn /\ calls' \in [Call -> Outcomes]
      /\ \A u \in Turn : Fits(u, turns'[u])
      /\ \A u \in Turn \ {t} : turns'[u] = turns[u]
  BY <1>1 DEF Moves, Typed
<1>3. ASSUME NEW u \in Turn, turns'[u].pc = "sealing"
      PROVE  \A c \in BatchCalls(u)' : calls'[c] \in {"real", "cut"}
  <2>1. CASE u = t
    BY <1>3, <2>1 DEF Moves
  <2>2. CASE u # t
    <3>1. turns'[u] = turns[u]
      BY <1>2, <2>2
    <3>2. BatchCalls(u)' = BatchCalls(u)
      BY <3>1, BatchStays
    <3>3. \A c \in BatchCalls(u) : c \in Call /\ c[1] # t /\ calls[c] \in {"real", "cut"}
      <4>1. BatchCalls(u) \subseteq Call
        BY <1>1, <1>3, <3>1, BatchIn
      <4>2. \A c \in BatchCalls(u) : c[1] = u
        BY DEF BatchCalls, Id
      <4>. QED
        BY <1>1, <1>3, <2>2, <3>1, <4>1, <4>2 DEF Typed
    <3>. QED
      BY <3>2, <3>3 DEF Moves
  <2>. QED
    BY <2>1, <2>2
<1>4. ASSUME NEW u \in Turn, turns'[u].pc \in {"summarizing", "appending"}
      PROVE  \/ HoldsPlan(u) /\ turns'[u].plan = turns[u].plan
             \/ \E k \in 1..Len(messages) + 1 : turns'[u].plan = PlanFrom(k) /\ Silent
  BY <1>2, <1>4 DEF Moves, HoldsPlan
<1>. QED
  BY <1>1, <1>2, <1>3, <1>4, HeardKeeps

\* A turn begins, with a prompt or with the message typed meanwhile, or finds
\* nothing to send.
LEMMA TurnBegins ==
  ASSUME TurnLoopAssumption, IInv, Talk, NEW t \in Turn, NEW p \in {"top", "done"},
         t = epoch + 1, Goto(t, p), calls' = calls,
         Silent \/ \E S \in SUBSET Sayable : Push(UserMessage({}, S))
  PROVE  Talk'
<1>1. Typed
  BY DEF Talk
<1>2. turns[t].pc = "unborn"
  BY DEF IInv, Shape, BegunInOrder
<1>. DEFINE r == [turns[t] EXCEPT !.pc = p]
<1>3. turns' = [turns EXCEPT ![t] = r]
  BY DEF Goto
<1>4. Fits(t, r) /\ r.pc = p /\ r.round = turns[t].round
  BY <1>1 DEF Typed, Fits, Pcs
<1>. HIDE DEF r
<1>5. /\ DOMAIN turns' = Turn /\ \A u \in Turn \ {t} : turns'[u] = turns[u]
      /\ turns'[t] = r
  BY <1>1, <1>3 DEF Typed
<1>6. Older(turns, turns')
  <2>1. ASSUME NEW c \in Call
        PROVE  (Spent(c, turns) => Spent(c, turns')) /\ (Given(c, turns) => Given(c, turns'))
    <3>1. c[1] \in Turn
      BY DEF Call
    <3>2. CASE c[1] # t
      BY <1>5, <3>1, <3>2 DEF Spent, Given
    <3>3. CASE c[1] = t
      BY <1>2, <1>4, <1>5, <3>3 DEF Spent, Given
    <3>. QED
      BY <3>2, <3>3
  <2>. QED
    BY <2>1 DEF Older
<1>7. Heard
  <2>1. ASSUME NEW S \in SUBSET Sayable, Push(UserMessage({}, S)) PROVE Heard
    <3>. DEFINE m == UserMessage({}, S)
    <3>1. m \in Messages /\ m.role = "user" /\ m.uses = {} /\ m.results = {} /\ Push(m)
      BY <2>1, UserMessageIs
    <3>. HIDE DEF m
    <3>. QED
      BY <1>6, <3>1, PushHeard
  <2>. QED
    BY <1>6, <2>1, SilentHeard
<1>8. \A u \in Turn : Fits(u, turns'[u])
  BY <1>1, <1>4, <1>5 DEF Typed
<1>9. ASSUME NEW u \in Turn, turns'[u].pc = "sealing"
      PROVE  \A c \in BatchCalls(u)' : calls'[c] \in {"real", "cut"}
  <2>1. turns'[u] = turns[u]
    BY <1>4, <1>5, <1>9
  <2>2. BatchCalls(u)' = BatchCalls(u)
    BY <2>1, BatchStays
  <2>. QED
    BY <1>1, <1>9, <2>1, <2>2 DEF Typed
<1>10. ASSUME NEW u \in Turn, turns'[u].pc \in {"summarizing", "appending"}
       PROVE  HoldsPlan(u) /\ turns'[u].plan = turns[u].plan
  <2>1. turns'[u] = turns[u]
    BY <1>4, <1>5, <1>10
  <2>. QED
    BY <1>10, <2>1 DEF HoldsPlan
<1>11. calls' \in [Call -> Outcomes]
  BY <1>1 DEF Typed
<1>. QED
  BY <1>5, <1>7, <1>8, <1>9, <1>10, <1>11, HeardKeeps

\* The user types, cancels, or nothing happens.
LEMMA NothingSaid ==
  ASSUME Talk, UserCancels \/ UserTypes \/ UNCHANGED vars
  PROVE  Talk'
<1>1. UNCHANGED <<turns, messages, calls, sent, told, overtaken>>
  BY DEF UserCancels, UserTypes, Silent, vars
<1>2. \A u \in Turn : BatchCalls(u)' = BatchCalls(u)
  BY <1>1, BatchStays
<1>3. Typed'
  BY <1>1, <1>2 DEF Talk, Typed
<1>. QED
  BY <1>1, <1>3 DEF Talk, PromptsStay, HoldsPlan, PlanIsFaithful

LEMMA InitTalk == TurnLoopAssumption /\ Init => Talk
<1>. SUFFICES ASSUME TurnLoopAssumption, Init PROVE Talk
  OBVIOUS
<1>1. /\ DOMAIN turns = Turn /\ \A t \in Turn : turns[t] = Fresh
      /\ messages = <<>> /\ sent = {} /\ told = {}
      /\ overtaken = [said |-> {}, told |-> {}]
      /\ calls = [c \in Call |-> "none"]
  BY DEF Init
<1>2. ASSUME NEW t \in Turn PROVE Fits(t, Fresh) /\ Fresh.pc = "unborn"
  <2>1. 0 \in 0..MaxRound /\ 0 \in 0..MaxCalls[t]
    BY DEF TurnLoopAssumption, Turn
  <2>. QED
    BY <2>1 DEF Fits, Fresh, Pcs
<1>3. Typed
  BY <1>1, <1>2 DEF Typed, Outcomes
<1>4. Faithful(messages, turns, told, overtaken.told)
  <2>1. messages \in Seq(Messages) /\ DOMAIN messages = {} /\ Used(messages) = {}
    BY <1>1 DEF Used
  <2>. QED
    BY <1>1, <2>1 DEF Faithful, Conversation, RolesApart, CallsOnce, AnswersAfter
<1>5. PromptsStay
  BY <1>1 DEF PromptsStay
<1>. QED
  BY <1>1, <1>2, <1>3, <1>4, <1>5 DEF Talk, HoldsPlan

LEMMA NextTalks == TurnLoopAssumption /\ IInv /\ Talk /\ [Next]_vars => Talk'
<1>. SUFFICES ASSUME TurnLoopAssumption, IInv, Talk, [Next]_vars PROVE Talk'
  OBVIOUS
<1>1. Typed
  BY DEF Talk
<1>2. ASSUME NEW t \in Turn, Round(t) \/ Compaction(t) \/ Dispatch(t) PROVE Talk'
  BY <1>1, <1>2, RoundTalks, CompactionTalks, DispatchTalks, TalkKeeps
<1>3. ASSUME NEW t \in Turn, BeginTurn(t, TRUE) \/ BeginTurn(t, FALSE) PROVE Talk'
  <2>1. {TypedMeanwhile} \in SUBSET Sayable /\ {t} \in SUBSET Sayable
    BY DEF Sayable
  <2>2. \E S \in SUBSET Sayable : Push(UserMessage({}, S))
    BY <1>3, <2>1 DEF BeginTurn
  <2>3. t = epoch + 1 /\ Goto(t, "top") /\ calls' = calls
    BY <1>3 DEF BeginTurn, MayBegin
  <2>. QED
    BY <2>2, <2>3, TurnBegins
<1>4. ASSUME NEW t \in Turn, BeginNothing(t) PROVE Talk'
  <2>1. t = epoch + 1 /\ Goto(t, "done") /\ calls' = calls /\ Silent
    BY <1>4 DEF BeginNothing, MayBegin
  <2>. QED
    BY <2>1, TurnBegins
<1>. QED
  BY <1>2, <1>3, <1>4, NothingSaid DEF Next, User

LEMMA TalkInvariant == Spec => []Talk
<1>1. Init => Talk
  BY TurnLoopAssumption, InitTalk
<1>2. IInv /\ Talk /\ [Next]_vars => Talk'
  BY TurnLoopAssumption, NextTalks
<1>. QED
  BY <1>1, <1>2, Invariant, PTL DEF Spec

-----------------------------------------------------------------------------
\* What sanitizeMessages makes of a conversation the loop can write is one that
\* a provider takes: the roles alternate, and the answers to a message's calls
\* stand in the message right after it, each once, and nowhere else.
THEOREM RepairIsWellFormed ==
  ASSUME NEW ms, Conversation(ms)
  PROVE  WellFormed(SanitizeMessages(ms))
BY SanitizeIs

\* Whatever turns were cut short, overtaken or compacted, in any number and
\* with calls in any number, the next request is one that a provider takes.
THEOREM RequestsPaired == Spec => []RequestsArePaired
<1>1. Talk => RequestsArePaired
  BY RepairIsWellFormed DEF Talk, Faithful, RequestsArePaired
<1>. QED
  BY <1>1, TalkInvariant, PTL

\* A real outcome that the conversation was told is what the next request
\* carries for its call, as long as the conversation holds the call: the repair
\* never replaces it by an interruption, and no turn that unwinds late answers
\* the call a second time.
THEOREM OutcomesReach == Spec => []OutcomesReachTheModel
<1>1. Talk => OutcomesReachTheModel
  <2>. SUFFICES ASSUME Talk,
                       NEW c \in (told \ overtaken.told) \intersect Used(messages)
                PROVE  \E m \in ToSet(SanitizeMessages(messages)) :
                         Answer(c, "real") \in m.results
    BY DEF OutcomesReachTheModel
  <2>1. Faithful(messages, turns, told, overtaken.told) /\ c \in Call
    BY DEF Talk, Typed
  <2>2. \E i \in DOMAIN messages : Answer(c, "real") \in messages[i].results
    BY <2>1 DEF Faithful
  <2>3. \A i \in DOMAIN messages : \A a \in messages[i].results : a.call = c => a.is = "real"
    BY <2>1 DEF Faithful
  <2>. QED
    BY <2>1, <2>2, <2>3, SanitizeIs DEF Faithful
<1>. QED
  BY <1>1, TalkInvariant, PTL

\* What the user said stays in the conversation or in the summary that stands
\* for its head, however many compactions rewrite it, unless it was said while
\* one of them held its plan.
THEOREM PromptsAreKept == Spec => []PromptsStay
<1>1. Talk => PromptsStay
  BY DEF Talk
<1>. QED
  BY <1>1, TalkInvariant, PTL
==============================================================================
