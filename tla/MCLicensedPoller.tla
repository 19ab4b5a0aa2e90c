-------------------------- MODULE MCLicensedPoller --------------------------
(***************************************************************************)
(* One device and one request that changes it; the event loop, the request *)
(* thread of an activation and the job thread evaluate the license.  Three *)
(* runs, so that each kind of caller can have started one, with workers of *)
(* two earlier runs still about.                                           *)
(***************************************************************************)
EXTENDS LicensedPoller
CONSTANTS d1, q1, eventLoop, activation, jobThread
MCListener == {eventLoop, activation, jobThread}
=============================================================================
