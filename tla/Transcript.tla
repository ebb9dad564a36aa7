----------------------------- MODULE Transcript -----------------------------
(***************************************************************************)
(* The conversation and what a provider is sent of it                      *)
(* (engine/translator/sanitize.ts).                                        *)
(*                                                                         *)
(* A message is a record: `uses` are the tool calls of an assistant        *)
(* message, `results` the answers a user message carries (a set of         *)
(* [call, is] records, one per call), `says` what else it stands for.      *)
(* Messages with text and no tool block are left out: they are never       *)
(* dropped nor moved, and an assistant message without a call pairs with   *)
(* nothing.                                                                *)
(***************************************************************************)
EXTENDS Naturals, SequencesExt

AssistantMessage(calls) ==
  [role |-> "assistant", uses |-> calls, results |-> {}, says |-> {}]

UserMessage(answers, said) ==
  [role |-> "user", uses |-> {}, results |-> answers, says |-> said]

Answer(c, is) == [call |-> c, is |-> is]

CallsOf(answers) == {a.call : a \in answers}

Said(ms) == UNION {ms[i].says : i \in DOMAIN ms}

Used(ms) == UNION {ms[i].uses : i \in DOMAIN ms}

----------------------------------------------------------------------------
(* filterUnknownToolResults: an answer whose call is not in the            *)
(* conversation is dropped, and the message with it when nothing is left.  *)
Holds(m) == m.role = "assistant" \/ m.results # {} \/ m.says # {}

\* The n-th place of I, and what stands in s at the places of I, in order.
Place(I, n) == CHOOSE i \in I : Cardinality({j \in I : j <= i}) = n

At(s, I) == [n \in 1..Cardinality(I) |-> s[Place(I, n)]]

Kept(s) == At(s, {i \in DOMAIN s : Holds(s[i])})

FilterUnknownToolResults(ms) ==
  Kept([i \in DOMAIN ms |->
          [ms[i] EXCEPT !.results = {a \in @ : a.call \in Used(ms)}]])

(* injectOrphanInterrupts: every assistant message that calls tools is     *)
(* followed by a message with exactly their answers, moved there from      *)
(* wherever the last one stands, and made up when there is none.           *)
LastAnswer(ms, c) ==
  LET at == {i \in DOMAIN ms : c \in CallsOf(ms[i].results)}
  IN  IF at = {} THEN Answer(c, "cut")
      ELSE CHOOSE a \in ms[Max(at)].results : a.call = c

\* Every message of ms with what is left of it, then the answers to its calls.
Paired(ms, left, pairs) ==
  Kept([k \in 1..2 * Len(ms) |->
          IF k % 2 = 1 THEN left[(k + 1) \div 2] ELSE pairs[k \div 2]])

\* Fault: an answer is looked for in the next message only.
InjectOrphanInterrupts_NextOnly(ms) ==
  LET answer(i, c) ==
        IF i < Len(ms) /\ c \in CallsOf(ms[i + 1].results)
        THEN CHOOSE a \in ms[i + 1].results : a.call = c ELSE Answer(c, "cut")
  IN  Paired(ms, [i \in DOMAIN ms |-> [ms[i] EXCEPT !.results = {}]],
                 [i \in DOMAIN ms |->
                    UserMessage({answer(i, c) : c \in ms[i].uses}, {})])

\* Fault: an answer that exists is left where it stands.
InjectOrphanInterrupts_InPlace(ms) ==
  LET missing(m) == {c \in m.uses : \A i \in DOMAIN ms : c \notin CallsOf(ms[i].results)}
  IN  Paired(ms, ms,
             [i \in DOMAIN ms |->
                UserMessage({Answer(c, "cut") : c \in missing(ms[i])}, {})])

InjectOrphanInterrupts(ms) ==
  LET used(i) == Used(SubSeq(ms, 1, i))
  IN  Paired(ms, [i \in DOMAIN ms |->
                    [ms[i] EXCEPT !.results = {a \in @ : a.call \notin used(i)}]],
                 [i \in DOMAIN ms |->
                    UserMessage({LastAnswer(ms, c) : c \in ms[i].uses}, {})])

(* coalesceConsecutiveSameRole: a run of messages of one role is one.      *)
Begins(ms) == {i \in DOMAIN ms : i > 1 => ms[i].role # ms[i - 1].role}

Run(ms, i) == {j \in i..Len(ms) : \A k \in i..j : ms[k].role = ms[i].role}

Joined(ms, i) ==
  [role    |-> ms[i].role,
   uses    |-> UNION {ms[j].uses : j \in Run(ms, i)},
   results |-> UNION {ms[j].results : j \in Run(ms, i)},
   says    |-> UNION {ms[j].says : j \in Run(ms, i)}]

CoalesceConsecutiveSameRole(ms) ==
  At([i \in DOMAIN ms |-> Joined(ms, i)], Begins(ms))

SanitizeMessages(ms) ==
  CoalesceConsecutiveSameRole(
    InjectOrphanInterrupts(FilterUnknownToolResults(ms)))

----------------------------------------------------------------------------
(* What every provider asks of a request: the roles alternate, the answers *)
(* a message carries are exactly those the message before it asked for,    *)
(* one each, and no call is made twice.                                    *)
WellFormed(ms) ==
  /\ \A i \in DOMAIN ms :
       /\ i > 1 => ms[i].role # ms[i - 1].role
       /\ CallsOf(ms[i].results) =
            (IF i = 1 THEN {} ELSE ms[i - 1].uses)
       /\ \A a, b \in ms[i].results : a.call = b.call => a = b
       /\ ms[i].uses # {} => i < Len(ms)
  /\ \A i, j \in DOMAIN ms : i # j => ms[i].uses \cap ms[j].uses = {}
=============================================================================
