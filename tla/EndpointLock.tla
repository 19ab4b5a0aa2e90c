---------------------------- MODULE EndpointLock ----------------------------
(***************************************************************************)
(* acquisition/locks.py: the process-wide registry of Transport Endpoint   *)
(* locks.  One lock per endpoint, a Condition over a held flag and a count *)
(* of waiting Manual Reads.  Every body under `with self._condition` is    *)
(* one action; a thread that waits gives the mutex up, so a wait is        *)
(* several actions: announce and park, be woken, re-take the mutex.        *)
(***************************************************************************)
EXTENDS Naturals, FiniteSets

CONSTANTS
    Endpoint,          \* "host:port" strings and COM port names
    ManualThread,      \* threads that make Manual Reads: API requests, and the
                       \* Scheduler when it runs a new device's one-shot
    BackgroundThread,  \* Poller workers and the Scheduler's read jobs
    Lock,              \* the PriorityEndpointLock objects there may be
    None

Thread == ManualThread \cup BackgroundThread

ASSUME LockAssumption == /\ None \notin Lock \cup Endpoint \cup Thread
                         /\ IsFiniteSet(Thread)

VARIABLES
    registry,        \* EndpointLocks._registry
    held,            \* PriorityEndpointLock._held, per object
    manualWaiting,   \* PriorityEndpointLock._manual_waiting, per object
    at,              \* the endpoint a thread is calling about
    lock,            \* the lock object it was handed
    pc               \* where the thread is in its call

vars == <<registry, held, manualWaiting, at, lock, pc>>

\* "manual" / "background": handed a lock, not yet called acquire;
\* "parked": inside Condition.wait; "woken": notified, mutex not re-taken;
\* "expired": the wait timed out, mutex not re-taken;
\* "reading" / "polling": the body of `with lock.manual()` / `.background()`.
Waiting == {"parked", "woken", "expired"}
Holding == {"reading", "polling"}
PC == {"idle", "manual", "background", "raised"} \cup Waiting \cup Holding

TypeOK ==
    /\ registry \in [Endpoint -> Lock \cup {None}]
    /\ held \in [Lock -> BOOLEAN]
    /\ manualWaiting \in [Lock -> Nat]
    /\ at \in [Thread -> Endpoint \cup {None}]
    /\ lock \in [Thread -> Lock \cup {None}]
    /\ pc \in [Thread -> PC]

Init ==
    /\ registry = [e \in Endpoint |-> None]
    /\ held = [l \in Lock |-> FALSE]
    /\ manualWaiting = [l \in Lock |-> 0]
    /\ at = [t \in Thread |-> None]
    /\ lock = [t \in Thread |-> None]
    /\ pc = [t \in Thread |-> "idle"]

InRegistry == {registry[e] : e \in Endpoint}

\* EndpointLocks.get: the registered lock, or a new one registered now.
Get(t, e, mode) ==
    /\ pc[t] = "idle"
    /\ t \in IF mode = "manual" THEN ManualThread ELSE BackgroundThread
    /\ \E l \in Lock :
          /\ IF registry[e] = None THEN l \notin InRegistry ELSE l = registry[e]
          /\ registry' = [registry EXCEPT ![e] = l]
          /\ lock' = [lock EXCEPT ![t] = l]
    /\ at' = [at EXCEPT ![t] = e]
    /\ pc' = [pc EXCEPT ![t] = mode]
    /\ UNCHANGED <<held, manualWaiting>>

\* acquire_manual on a free endpoint: the count goes up and down again inside
\* one critical section.
ManualTake(t) ==
    /\ pc[t] = "manual"
    /\ ~held[lock[t]]
    /\ held' = [held EXCEPT ![lock[t]] = TRUE]
    /\ pc' = [pc EXCEPT ![t] = "reading"]
    /\ UNCHANGED <<registry, manualWaiting, at, lock>>

\* acquire_manual on a held endpoint: announce, then wait.
ManualPark(t) ==
    /\ pc[t] = "manual"
    /\ held[lock[t]]
    /\ manualWaiting' = [manualWaiting EXCEPT ![lock[t]] = @ + 1]
    /\ pc' = [pc EXCEPT ![t] = "parked"]
    /\ UNCHANGED <<registry, held, at, lock>>

\* Condition.wait times out (never when acquire_manual got timeout=None).
Expire(t) ==
    /\ pc[t] \in {"parked", "woken"}
    /\ pc' = [pc EXCEPT ![t] = "expired"]
    /\ UNCHANGED <<registry, held, manualWaiting, at, lock>>

\* The waiter re-takes the mutex and wait_for evaluates its predicate once
\* more, even after a timeout; the finally clause withdraws the announcement.
Granted(t) ==
    /\ pc[t] \in {"woken", "expired"}
    /\ ~held[lock[t]]
    /\ held' = [held EXCEPT ![lock[t]] = TRUE]
    /\ manualWaiting' = [manualWaiting EXCEPT ![lock[t]] = @ - 1]
    /\ pc' = [pc EXCEPT ![t] = "reading"]
    /\ UNCHANGED <<registry, at, lock>>

WaitAgain(t) ==
    /\ pc[t] = "woken"
    /\ held[lock[t]]
    /\ pc' = [pc EXCEPT ![t] = "parked"]
    /\ UNCHANGED <<registry, held, manualWaiting, at, lock>>

\* A call that ends without the endpoint, or after it.
Return(t, pcs) ==
    /\ pc' = [pcs EXCEPT ![t] = "idle"]
    /\ at' = [at EXCEPT ![t] = None]
    /\ lock' = [lock EXCEPT ![t] = None]

\* Mutants: the announcement is not withdrawn; the predicate is not evaluated
\* again after the timeout.
GiveUpStillAnnounced(t) ==
    /\ pc[t] = "expired"
    /\ held[lock[t]]
    /\ Return(t, pc)
    /\ UNCHANGED <<registry, held, manualWaiting>>

GiveUpAtOnce(t) ==
    /\ pc[t] = "expired"
    /\ manualWaiting' = [manualWaiting EXCEPT ![lock[t]] = @ - 1]
    /\ Return(t, pc)
    /\ UNCHANGED <<registry, held>>

\* acquire_manual returns False and manual() raises TimeoutError.
GiveUp(t) ==
    /\ pc[t] = "expired"
    /\ held[lock[t]]
    /\ manualWaiting' = [manualWaiting EXCEPT ![lock[t]] = @ - 1]
    /\ Return(t, pc)
    /\ UNCHANGED <<registry, held>>

BackgroundRefused(l) == held[l] \/ manualWaiting[l] > 0

\* try_acquire_background, taken or skipped: it never waits.
BackgroundTake(t) ==
    /\ pc[t] = "background"
    /\ ~BackgroundRefused(lock[t])
    /\ held' = [held EXCEPT ![lock[t]] = TRUE]
    /\ pc' = [pc EXCEPT ![t] = "polling"]
    /\ UNCHANGED <<registry, manualWaiting, at, lock>>

BackgroundSkip(t) ==
    /\ pc[t] = "background"
    /\ BackgroundRefused(lock[t])
    /\ Return(t, pc)
    /\ UNCHANGED <<registry, held, manualWaiting>>

\* Mutant: no notify at all.
NotifiedNone(l) == pc

\* notify_all empties the lock's wait set.
Notified(l) ==
    [t \in Thread |-> IF pc[t] = "parked" /\ lock[t] = l THEN "woken" ELSE pc[t]]

\* The finally clause of manual() and background().
Release(t) ==
    /\ pc[t] \in Holding
    /\ IF held[lock[t]]
       THEN /\ held' = [held EXCEPT ![lock[t]] = FALSE]
            /\ Return(t, Notified(lock[t]))
            /\ UNCHANGED <<registry, manualWaiting>>
       ELSE /\ pc' = [pc EXCEPT ![t] = "raised"]
            /\ UNCHANGED <<registry, held, manualWaiting, at, lock>>

Call(t) == \E e \in Endpoint, mode \in {"manual", "background"} : Get(t, e, mode)

ManualStep(t) ==
    \/ ManualTake(t) \/ ManualPark(t) \/ Expire(t)
    \/ Granted(t) \/ WaitAgain(t) \/ GiveUp(t)

BackgroundStep(t) == BackgroundTake(t) \/ BackgroundSkip(t)

Next == \E t \in Thread :
            Call(t) \/ ManualStep(t) \/ BackgroundStep(t) \/ Release(t)

Spec == Init /\ [][Next]_vars

(***************************************************************************)
(* What the code's scheduling justifies: a thread that may run does run,   *)
(* and a meter read ends, because the transport has its own timeouts.  A   *)
(* wait is not assumed to time out, nor a caller to come back.             *)
(***************************************************************************)
Runs(t) == ManualTake(t) \/ ManualPark(t) \/ Granted(t) \/ WaitAgain(t) \/ GiveUp(t)
              \/ BackgroundStep(t) \/ Release(t)

FairSpec == Spec /\ \A t \in Thread : WF_vars(Runs(t))

-----------------------------------------------------------------------------
Waiters(l) == {t \in Thread : pc[t] \in Waiting /\ lock[t] = l}
Holders(l) == {t \in Thread : pc[t] \in Holding /\ lock[t] = l}

\* No two callers talk on one Transport Endpoint at the same time, whichever
\* way they came: locks.py:5 "devices sharing a serial line queue behind one
\* lock", the registry's get() racing included.
OneCallerPerEndpoint ==
    \A t, u \in Thread :
        pc[t] \in Holding /\ pc[u] \in Holding /\ at[t] = at[u] => t = u

\* The held flag is set exactly while some caller is inside its with-block, and
\* no release ever raises the RuntimeError of release().
HeldIffInUse ==
    /\ \A l \in Lock : held[l] <=> Holders(l) # {}
    /\ \A t \in Thread : pc[t] # "raised"

\* The count is the number of Manual Reads inside the wait.
WaitingCountExact == \A l \in Lock : manualWaiting[l] = Cardinality(Waiters(l))

\* A Manual Read sleeps in the wait set only while the endpoint is in use.
SleepsOnlyWhileInUse ==
    \A t \in Thread : pc[t] = "parked" => held[lock[t]]

\* What the lock remembers is what its callers do: no timeout or refusal leaks
\* the endpoint, no count left high by a timeout shuts every background tick
\* out of it for ever, and no wakeup is lost.
LockAgreesWithCallers == HeldIffInUse /\ WaitingCountExact /\ SleepsOnlyWhileInUse

\* The priority rule (ADR 0006): a background tick that takes the endpoint
\* overtakes nobody who was waiting for that endpoint.
NeverOvertaken ==
    [][\A t \in Thread : pc[t] # "polling" /\ pc'[t] = "polling"
            => ~\E u \in Thread : pc[u] \in Waiting /\ at[u] = at[t]]_vars

\* A free endpoint with people waiting goes to a Manual Read (or they all time
\* out): nobody is left waiting on an endpoint that is free.
FreedEndpointIsGranted ==
    \A l \in Lock :
        (~held[l] /\ Waiters(l) # {}) ~>
            (Waiters(l) = {} \/ \E t \in Holders(l) : pc[t] = "reading")

\* The refinement mapping: who is inside a with-block of the endpoint, and who
\* waits for it.
UserOf(e) == IF \E t \in Thread : pc[t] \in Holding /\ at[t] = e
             THEN CHOOSE t \in Thread : pc[t] \in Holding /\ at[t] = e
             ELSE None
WaitingAt(e) == {t \in Thread : pc[t] \in Waiting /\ at[t] = e}

Promise == INSTANCE EndpointPriority WITH
    user <- [e \in Endpoint |-> UserOf(e)],
    waiting <- [e \in Endpoint |-> WaitingAt(e)]

\* The lock with its condition, counter and registry does what
\* EndpointPriority promises, step by step.
PromiseKept == Promise!Spec
=============================================================================
