---------------------------- MODULE MCProfileReads ----------------------------
(* One Read-now walk and the Scheduler's cycle over a small ring; visits to a *)
(* meter of each model, with a ring that overflows while it is read.        *)
EXTENDS ProfileReads

CONSTANTS readNow, cycle
=============================================================================
