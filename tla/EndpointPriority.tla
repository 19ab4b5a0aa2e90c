-------------------------- MODULE EndpointPriority --------------------------
(***************************************************************************)
(* What a Transport Endpoint promises its callers, with no lock object, no *)
(* condition and no counter: at most one caller at a time, background      *)
(* callers never while a Manual Read waits.  EndpointLock implements it.   *)
(***************************************************************************)
CONSTANTS Endpoint, ManualThread, BackgroundThread, None

VARIABLES
    user,     \* who talks on the endpoint, or None
    waiting   \* the Manual Reads waiting for it

Init == /\ user = [e \in Endpoint |-> None]
        /\ waiting = [e \in Endpoint |-> {}]

\* A Manual Read finds the endpoint in use.
Wait(t, e) == /\ user[e] # None
              /\ waiting' = [waiting EXCEPT ![e] = @ \cup {t}]
              /\ UNCHANGED user

\* A Manual Read gets the endpoint, having waited or not.
Read(t, e) == /\ user[e] = None
              /\ user' = [user EXCEPT ![e] = t]
              /\ waiting' = [waiting EXCEPT ![e] = @ \ {t}]

\* A Manual Read times out, and only ever on an endpoint in use.
Withdraw(t, e) == /\ user[e] # None
                  /\ t \in waiting[e]
                  /\ waiting' = [waiting EXCEPT ![e] = @ \ {t}]
                  /\ UNCHANGED user

Poll(t, e) == /\ user[e] = None
              /\ waiting[e] = {}
              /\ user' = [user EXCEPT ![e] = t]
              /\ UNCHANGED waiting

Leave(e) == /\ user[e] # None
            /\ user' = [user EXCEPT ![e] = None]
            /\ UNCHANGED waiting

Next == \E e \in Endpoint :
            \/ \E t \in ManualThread : Wait(t, e) \/ Read(t, e) \/ Withdraw(t, e)
            \/ \E t \in BackgroundThread : Poll(t, e)
            \/ Leave(e)

Spec == Init /\ [][Next]_<<user, waiting>>
=============================================================================
