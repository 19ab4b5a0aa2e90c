--------------------------- MODULE MCEndpointLock ---------------------------
(***************************************************************************)
(* Two endpoints, two API requests, one Poller worker and the Scheduler    *)
(* thread, which makes both kinds of call.  One lock object more than      *)
(* there are endpoints, so that get() could hand out a second one.         *)
(***************************************************************************)
EXTENDS EndpointLock, TLC
CONSTANTS line, tcp, api1, api2, worker, scheduler

MCEndpoint == {line, tcp}
MCManual == {api1, api2, scheduler}
MCBackground == {worker, scheduler}
MCSymmetry == Permutations({api1, api2})
=============================================================================
