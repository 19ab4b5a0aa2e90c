----------------------------- MODULE MCScheduler -----------------------------
(***************************************************************************)
(* Two runs, so that a thread of the first outlives its stop and meets the *)
(* second; two one-shots, so that one batch can hold more than one; two    *)
(* jobs, so that one can stand behind the other; none, so that the sleep   *)
(* has no timeout to hide a lost wakeup.                                   *)
(***************************************************************************)
EXTENDS Scheduler
CONSTANTS o1, o2
=============================================================================
