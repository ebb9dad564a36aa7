---------------------------- MODULE MCScheduler ----------------------------
(***************************************************************************)
(* Three sessions of a project one after the other, two at a time, and a   *)
(* task that one of them saves.                                            *)
(***************************************************************************)
EXTENDS Scheduler

CONSTANTS s1, s2, s3, t

ThreeSessions == {s1, s2, s3}
OneTask == {t}
==============================================================================
