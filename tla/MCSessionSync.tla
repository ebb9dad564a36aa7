---------------------------- MODULE MCSessionSync ----------------------------
(* Sessions of SessionSync for TLC: what each record may be. *)
EXTENDS SessionSync

\* A prompt, an input that is queued or one more record, and an answer.
QueuedBehind == <<{"named"}, {"named", "unnamed"}, {"named"}>>
\* Two records, a compaction and what follows it.
Collapsed == <<{"named"}, {"named"}, {"local"}, {"named"}>>
=============================================================================
