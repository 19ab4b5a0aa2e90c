------------------------------ MODULE ProfileReads ------------------------------
(***************************************************************************)
(* Rows of a load profile, from the meter's ring into the table: which     *)
(* windows of time are asked for and what is stored (LoadProfile), and how *)
(* a driver turns a window into a request to a meter that goes on logging  *)
(* (MeterReads).  To LoadProfile the read of a chunk is one step, to       *)
(* MeterReads it is several round trips.  A behaviour is one of either:    *)
(* `part` says which.                                                      *)
(***************************************************************************)
EXTENDS LoadProfile

CONSTANTS
    Model, Capacity, MaxNow, MaxDark, MaxCuts, MaxWindow

ASSUME ReadsAssumption ==
    /\ Model \subseteq {"smw110", "prometer100", "premier550", "smart_tcc"}
    /\ Capacity \in Nat \ {0} /\ {MaxNow, MaxDark, MaxCuts, MaxWindow} \subseteq Nat

VARIABLES
    part,
    model, now, dark, closed, visit

V == INSTANCE MeterReads WITH Ring <- Capacity

visit_vars == <<model, now, dark, closed, visit>>
all_vars   == <<part, vars, visit_vars>>

\* Where walks are followed, the meter is LoadProfile's.
ReadsInit ==
    /\ part \in {"walk", "visit"} /\ Init /\ V!Init
    /\ part = "walk" => model = CHOOSE m \in Model : TRUE
    /\ part = "visit" => recorded \subseteq 0 .. Min(History) - 1

Walks  == part = "walk" /\ Next /\ UNCHANGED <<part, visit_vars>>
Visits == part = "visit" /\ V!Next /\ UNCHANGED <<part, vars>>

ReadsNext == Walks \/ Visits

ReadsSpec == ReadsInit /\ [][ReadsNext]_all_vars

-----------------------------------------------------------------------------
(* A row of the window that the meter held when the read began, and holds  *)
(* still, is returned, whatever was logged between two round trips.        *)
NothingHeldIsMissed == V!NothingHeldIsMissed
=============================================================================
