------------------------------ MODULE MCCapture ------------------------------
(* One meter, one request thread beside the job thread. *)
EXTENDS Capture

CONSTANTS request, f1
=============================================================================
