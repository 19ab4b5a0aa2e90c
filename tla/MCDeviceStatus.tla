--------------------------- MODULE MCDeviceStatus ---------------------------
(* One worker, one Read-now request and one operator on one device: either *)
(* the device is left to the recorders, so that what they record must in   *)
(* the end agree with the meter, or everybody writes and commits may fail. *)
EXTENDS DeviceStatus

CONSTANTS w1, read, admin

VARIABLE undisturbed    \* no operator, and the database is never busy

Calm == INSTANCE DeviceStatus WITH Operator <- {}, BusyDatabase <- FALSE

MCVars == <<vars, undisturbed>>

MCInit == undisturbed \in BOOLEAN /\ IF undisturbed THEN Calm!Init ELSE Init

MCNext ==
    \/ ~undisturbed /\ Next /\ UNCHANGED undisturbed
    \/ undisturbed /\ Calm!Next /\ UNCHANGED undisturbed

\* DeviceStatus!Fairness, of the recorders left to themselves.

MCFairness ==
    /\ \A w \in Worker : WF_MCVars(undisturbed /\ row # NoRow /\ row.enabled
                                     /\ Calm!Ask(w) /\ UNCHANGED undisturbed)
    /\ \A s \in Recorder :
         /\ WF_MCVars(undisturbed /\ Calm!LoadNothing(s) /\ UNCHANGED undisturbed)
         /\ WF_MCVars(undisturbed /\ Calm!Load(s) /\ UNCHANGED undisturbed)
         /\ WF_MCVars(undisturbed /\ (Calm!Commit(s) \/ Calm!RollBack(s))
                        /\ UNCHANGED undisturbed)

MCSpec == MCInit /\ [][MCNext]_MCVars /\ MCFairness

(* Left to the recorders, a meter that stops answering for good ends       *)
(* Offline and stays there, in spite of updates lost to each other.        *)
SilentMeterEndsOffline == undisturbed => DeadMeterGoesOffline
=============================================================================
