------------------------------ MODULE ThreadProofs ------------------------------
(***************************************************************************)
(* Proofs about the pieces that only threads make hard, for any number of  *)
(* threads: the Transport Endpoint lock they share, the job thread with    *)
(* its one-shots, and the capture of documents, which goes on for minutes  *)
(* on several of them without a lock.                                      *)
(***************************************************************************)
EXTENDS EndpointLock, Scheduler, Capture,
        FiniteSetTheorems, NaturalsInduction, WellFoundedInduction, TLAPS

-----------------------------------------------------------------------------
(* The Transport Endpoint lock.                                            *)

\* Whoever is inside a call was handed the endpoint's registered lock.
Handed ==
    \A t \in Thread : pc[t] # "idle" =>
        /\ at[t] \in Endpoint
        /\ lock[t] \in Lock
        /\ registry[at[t]] = lock[t]

\* No lock object serves two endpoints, and no endpoint's lock is replaced.
OneEndpointPerLock ==
    \A e, f \in Endpoint : registry[e] # None /\ registry[e] = registry[f] => e = f

OneHolderPerLock ==
    \A t, u \in Thread :
        pc[t] \in Holding /\ pc[u] \in Holding /\ lock[t] = lock[u] => t = u

\* A Manual Read never becomes a background one inside a call, or back.
KeepsItsMode ==
    \A t \in Thread :
        /\ pc[t] \in {"manual", "reading"} \cup Waiting => t \in ManualThread
        /\ pc[t] \in {"background", "polling"} => t \in BackgroundThread

\* TypeOK and the count need each other: manualWaiting stays in Nat because
\* whoever leaves the wait is counted in it.
IInv ==
    /\ TypeOK
    /\ Handed
    /\ OneEndpointPerLock
    /\ OneHolderPerLock
    /\ KeepsItsMode
    /\ HeldIffInUse
    /\ SleepsOnlyWhileInUse
    /\ WaitingCountExact

LEMMA WaitersFinite == \A l : IsFiniteSet(Waiters(l)) /\ Cardinality(Waiters(l)) \in Nat
  <1>1. \A l : Waiters(l) \subseteq Thread
    BY DEF Waiters
  <1>2. \A l : IsFiniteSet(Waiters(l))
    BY <1>1, LockAssumption, FS_Subset
  <1> QED BY <1>2, FS_CardinalityType

LEMMA InitInv == Init => IInv
  <1> SUFFICES ASSUME Init PROVE IInv
    OBVIOUS
  <1> USE DEF Init
  <1>1. TypeOK
    BY DEF TypeOK, PC
  <1>2. Handed /\ OneEndpointPerLock /\ OneHolderPerLock /\ KeepsItsMode
    BY DEF Handed, OneEndpointPerLock, OneHolderPerLock, KeepsItsMode, Holding, Waiting
  <1>3. HeldIffInUse /\ SleepsOnlyWhileInUse
    BY DEF HeldIffInUse, SleepsOnlyWhileInUse, Holders, Holding
  <1>4. WaitingCountExact
    <2>1. \A l \in Lock : Waiters(l) = {}
      BY DEF Waiters, Waiting
    <2> QED BY <2>1, FS_EmptySet DEF WaitingCountExact
  <1> QED BY <1>1, <1>2, <1>3, <1>4 DEF IInv

\* A step in which nobody enters or leaves a wait leaves the counts exact.
LEMMA SameWaiters ==
  ASSUME WaitingCountExact, manualWaiting' = manualWaiting,
         \A l \in Lock : Waiters(l)' = Waiters(l)
  PROVE  WaitingCountExact'
  BY DEF WaitingCountExact

LEMMA EntersWait ==
  ASSUME TypeOK, WaitingCountExact, NEW l \in Lock, NEW t \in Thread,
         manualWaiting' = [manualWaiting EXCEPT ![l] = @ + 1],
         t \notin Waiters(l), Waiters(l)' = Waiters(l) \cup {t},
         \A m \in Lock \ {l} : Waiters(m)' = Waiters(m)
  PROVE  WaitingCountExact' /\ manualWaiting' \in [Lock -> Nat]
  <1>1. Cardinality(Waiters(l)') = Cardinality(Waiters(l)) + 1
    BY WaitersFinite, FS_AddElement
  <1>2. /\ manualWaiting' \in [Lock -> Nat]
        /\ manualWaiting'[l] = manualWaiting[l] + 1
        /\ \A m \in Lock \ {l} : manualWaiting'[m] = manualWaiting[m]
    BY DEF TypeOK
  <1> QED BY <1>1, <1>2 DEF WaitingCountExact

LEMMA LeavesWait ==
  ASSUME TypeOK, WaitingCountExact, NEW l \in Lock, NEW t \in Thread,
         manualWaiting' = [manualWaiting EXCEPT ![l] = @ - 1],
         t \in Waiters(l), Waiters(l)' = Waiters(l) \ {t},
         \A m \in Lock \ {l} : Waiters(m)' = Waiters(m)
  PROVE  WaitingCountExact' /\ manualWaiting' \in [Lock -> Nat]
  <1>1. /\ Cardinality(Waiters(l)') = Cardinality(Waiters(l)) - 1
        /\ IsFiniteSet(Waiters(l)')
    BY WaitersFinite, FS_RemoveElement, FS_Subset
  <1>2. Cardinality(Waiters(l)') \in Nat
    BY <1>1, FS_CardinalityType
  <1> QED BY <1>1, <1>2 DEF TypeOK, WaitingCountExact

LEMMA NextInv == IInv /\ [Next]_vars => IInv'
  <1> SUFFICES ASSUME IInv, [Next]_vars PROVE IInv'
    OBVIOUS
  <1> USE LockAssumption DEF IInv, Handed, KeepsItsMode, PC, Waiting, Holding
  <1>1. CASE UNCHANGED vars
    BY <1>1 DEF vars, TypeOK, OneEndpointPerLock, OneHolderPerLock, HeldIffInUse, Holders,
                SleepsOnlyWhileInUse, WaitingCountExact, Waiters
  <1>2. ASSUME NEW t \in Thread, NEW e \in Endpoint, NEW mode \in {"manual", "background"},
               Get(t, e, mode)
        PROVE  IInv'
    <2> USE <1>2 DEF Get
    <2>1. TypeOK'
      BY DEF TypeOK
    <2>2. PICK l \in Lock :
             /\ IF registry[e] = None THEN l \notin InRegistry ELSE l = registry[e]
             /\ registry' = [registry EXCEPT ![e] = l]
             /\ lock' = [lock EXCEPT ![t] = l]
      OBVIOUS
    <2>3. Handed'
      BY <2>2 DEF TypeOK
    <2>4. OneEndpointPerLock'
      BY <2>2 DEF TypeOK, OneEndpointPerLock, InRegistry
    <2>5. OneHolderPerLock' /\ KeepsItsMode' /\ SleepsOnlyWhileInUse'
      BY <2>2 DEF TypeOK, OneHolderPerLock, SleepsOnlyWhileInUse
    <2>6. \A m \in Lock : Holders(m)' = Holders(m) /\ Waiters(m)' = Waiters(m)
      BY <2>2 DEF TypeOK, Holders, Waiters
    <2>7. HeldIffInUse'
      BY <2>6 DEF TypeOK, HeldIffInUse
    <2> QED BY <2>1, <2>3, <2>4, <2>5, <2>6, <2>7, SameWaiters
  <1>3. ASSUME NEW t \in Thread, ManualTake(t) \/ BackgroundTake(t) PROVE IInv'
    <2> USE <1>3 DEF ManualTake, BackgroundTake
    <2>0. /\ pc' \in [Thread -> PC] /\ pc[t] \in PC /\ held' \in [Lock -> BOOLEAN]
          /\ UNCHANGED <<registry, manualWaiting, at, lock>>
      BY DEF TypeOK
    <2>1. TypeOK' /\ Handed' /\ OneEndpointPerLock' /\ KeepsItsMode'
      <3>1. TypeOK' /\ OneEndpointPerLock'
        BY <2>0 DEF TypeOK, OneEndpointPerLock
      <3>2. Handed'
        BY <2>0 DEF TypeOK
      <3>3. KeepsItsMode'
        BY <2>0 DEF TypeOK
      <3> QED BY <3>1, <3>2, <3>3
    <2>a. lock[t] \in Lock /\ ~held[lock[t]] /\ lock' = lock /\ t \in Thread
      BY DEF BackgroundRefused
    <2>b. Holders(lock[t]) = {}
      BY <2>a DEF HeldIffInUse
    <2>c. \A m \in Lock : Holders(m)' = IF m = lock[t] THEN Holders(m) \cup {t} ELSE Holders(m)
      BY <2>a DEF TypeOK, Holders
    <2>2. /\ Holders(lock[t])' = {t}
          /\ \A m \in Lock \ {lock[t]} : Holders(m)' = Holders(m)
      BY <2>a, <2>b, <2>c
    <2>3. OneHolderPerLock' /\ HeldIffInUse' /\ SleepsOnlyWhileInUse'
      BY <2>2 DEF TypeOK, OneHolderPerLock, HeldIffInUse, SleepsOnlyWhileInUse, Holders
    <2>4. \A m \in Lock : Waiters(m)' = Waiters(m)
      BY DEF TypeOK, Waiters
    <2>5. WaitingCountExact'
      BY <2>4, SameWaiters
    <2> QED BY <2>1, <2>3, <2>5
  <1>4. ASSUME NEW t \in Thread, ManualPark(t) PROVE IInv'
    <2> USE <1>4 DEF ManualPark
    <2>1. /\ t \notin Waiters(lock[t])
          /\ Waiters(lock[t])' = Waiters(lock[t]) \cup {t}
          /\ \A m \in Lock \ {lock[t]} : Waiters(m)' = Waiters(m)
      BY DEF TypeOK, Waiters
    <2>2. WaitingCountExact' /\ manualWaiting' \in [Lock -> Nat]
      BY <2>1, EntersWait
    <2>3. TypeOK' /\ Handed' /\ OneEndpointPerLock' /\ KeepsItsMode'
      BY <2>2 DEF TypeOK, OneEndpointPerLock
    <2>4. \A m \in Lock : Holders(m)' = Holders(m)
      BY DEF TypeOK, Holders
    <2>5. OneHolderPerLock' /\ HeldIffInUse' /\ SleepsOnlyWhileInUse'
      BY <2>4 DEF TypeOK, OneHolderPerLock, HeldIffInUse, SleepsOnlyWhileInUse
    <2> QED BY <2>2, <2>3, <2>5
  <1>5. ASSUME NEW t \in Thread, Expire(t) \/ WaitAgain(t) PROVE IInv'
    <2> USE <1>5 DEF Expire, WaitAgain
    <2>1. TypeOK' /\ Handed' /\ OneEndpointPerLock' /\ KeepsItsMode'
      BY DEF TypeOK, OneEndpointPerLock
    <2>2. \A m \in Lock : Holders(m)' = Holders(m) /\ Waiters(m)' = Waiters(m)
      BY DEF TypeOK, Holders, Waiters
    <2>3. OneHolderPerLock' /\ HeldIffInUse' /\ SleepsOnlyWhileInUse'
      BY <2>2 DEF TypeOK, OneHolderPerLock, HeldIffInUse, SleepsOnlyWhileInUse
    <2> QED BY <2>1, <2>2, <2>3, SameWaiters
  <1>6. ASSUME NEW t \in Thread, Granted(t) PROVE IInv'
    <2> USE <1>6 DEF Granted
    <2>1. /\ t \in Waiters(lock[t])
          /\ Waiters(lock[t])' = Waiters(lock[t]) \ {t}
          /\ \A m \in Lock \ {lock[t]} : Waiters(m)' = Waiters(m)
      BY DEF TypeOK, Waiters
    <2>2. WaitingCountExact' /\ manualWaiting' \in [Lock -> Nat]
      BY <2>1, LeavesWait
    <2>3. TypeOK' /\ Handed' /\ OneEndpointPerLock' /\ KeepsItsMode'
      BY <2>2 DEF TypeOK, OneEndpointPerLock
    <2>4. /\ Holders(lock[t]) = {}
          /\ Holders(lock[t])' = {t}
          /\ \A m \in Lock \ {lock[t]} : Holders(m)' = Holders(m)
      BY DEF TypeOK, HeldIffInUse, Holders
    <2>5. OneHolderPerLock' /\ HeldIffInUse' /\ SleepsOnlyWhileInUse'
      BY <2>4 DEF TypeOK, OneHolderPerLock, HeldIffInUse, SleepsOnlyWhileInUse, Holders
    <2> QED BY <2>2, <2>3, <2>5
  <1>7. ASSUME NEW t \in Thread, GiveUp(t) PROVE IInv'
    <2> USE <1>7 DEF GiveUp, Return
    <2>0. PICK l \in Lock : l = lock[t]
      OBVIOUS
    <2>1. /\ t \in Waiters(l)
          /\ Waiters(l)' = Waiters(l) \ {t}
          /\ \A m \in Lock \ {l} : Waiters(m)' = Waiters(m)
      BY <2>0 DEF TypeOK, Waiters
    <2>2. WaitingCountExact' /\ manualWaiting' \in [Lock -> Nat]
      BY <2>0, <2>1, LeavesWait
    <2>3. TypeOK' /\ Handed' /\ OneEndpointPerLock' /\ KeepsItsMode'
      BY <2>2 DEF TypeOK, OneEndpointPerLock
    <2>4. \A m \in Lock : Holders(m)' = Holders(m)
      BY DEF TypeOK, Holders
    <2>5. OneHolderPerLock' /\ HeldIffInUse' /\ SleepsOnlyWhileInUse'
      BY <2>4 DEF TypeOK, OneHolderPerLock, HeldIffInUse, SleepsOnlyWhileInUse
    <2> QED BY <2>2, <2>3, <2>5
  <1>8. ASSUME NEW t \in Thread, BackgroundSkip(t) PROVE IInv'
    <2> USE <1>8 DEF BackgroundSkip, Return
    <2>1. TypeOK' /\ Handed' /\ OneEndpointPerLock' /\ KeepsItsMode'
      BY DEF TypeOK, OneEndpointPerLock
    <2>2. \A m \in Lock : Holders(m)' = Holders(m) /\ Waiters(m)' = Waiters(m)
      BY DEF TypeOK, Holders, Waiters
    <2>3. OneHolderPerLock' /\ HeldIffInUse' /\ SleepsOnlyWhileInUse'
      BY <2>2 DEF TypeOK, OneHolderPerLock, HeldIffInUse, SleepsOnlyWhileInUse
    <2> QED BY <2>1, <2>2, <2>3, SameWaiters
  <1>9. ASSUME NEW t \in Thread, Release(t) PROVE IInv'
    <2>0. PICK l \in Lock : l = lock[t]
      BY <1>9 DEF Release
    <2>1. t \in Holders(l) /\ held[l]
      BY <2>0, <1>9 DEF Release, HeldIffInUse, Holders, TypeOK
    <2>2. /\ held' = [held EXCEPT ![l] = FALSE]
          /\ Return(t, Notified(l))
          /\ UNCHANGED <<registry, manualWaiting>>
      BY <2>0, <1>9, <2>1 DEF Release
    <2>3. \A u \in Thread \ {t} :
             pc'[u] = IF pc[u] = "parked" /\ lock[u] = l THEN "woken" ELSE pc[u]
      BY <2>0, <2>2 DEF Return, Notified, TypeOK
    <2>4. /\ pc' \in [Thread -> PC] /\ pc'[t] = "idle"
          /\ lock' = [lock EXCEPT ![t] = None] /\ at' = [at EXCEPT ![t] = None]
      BY <2>0, <2>2 DEF Return, Notified, TypeOK
    <2>5. TypeOK' /\ Handed' /\ OneEndpointPerLock' /\ KeepsItsMode'
      BY <2>0, <2>2, <2>3, <2>4 DEF TypeOK, OneEndpointPerLock
    <2>6. /\ Holders(l)' = {}
          /\ \A m \in Lock \ {l} : Holders(m)' = Holders(m)
      BY <2>0, <1>9, <2>3, <2>4 DEF TypeOK, Holders, OneHolderPerLock, Release
    <2>7. \A m \in Lock : Waiters(m)' = Waiters(m)
      BY <2>0, <1>9, <2>3, <2>4 DEF TypeOK, Waiters, Release
    <2>8. HeldIffInUse'
      BY <2>0, <2>1, <2>2, <2>3, <2>4, <2>6, <1>9 DEF TypeOK, HeldIffInUse, Release
    <2>9. OneHolderPerLock' /\ SleepsOnlyWhileInUse'
      BY <2>0, <2>2, <2>3, <2>4 DEF TypeOK, OneHolderPerLock, SleepsOnlyWhileInUse
    <2> QED BY <2>2, <2>5, <2>7, <2>8, <2>9, SameWaiters
  <1> QED BY <1>1, <1>2, <1>3, <1>4, <1>5, <1>6, <1>7, <1>8, <1>9
          DEF Next, Call, ManualStep, BackgroundStep

\* The inductive invariant holds in every reachable state.
THEOREM Invariant == Spec => []IInv
  BY InitInv, NextInv, PTL DEF Spec

\* The variables keep their types; in particular the waiting count never goes
\* below zero.
THEOREM TypeCorrect == Spec => []TypeOK
  BY Invariant, PTL DEF IInv

\* The held flag, the waiting count and the wait set agree with the callers:
\* no leak, no release that raises, no lost wakeup.
THEOREM LockAgrees == Spec => []LockAgreesWithCallers
  BY Invariant, PTL DEF IInv, LockAgreesWithCallers

\* Two callers never talk on one Transport Endpoint at once.
THEOREM MutualExclusion == Spec => []OneCallerPerEndpoint
  <1>1. IInv => OneCallerPerEndpoint
    BY DEF IInv, Handed, OneHolderPerLock, OneCallerPerEndpoint, Holding
  <1> QED BY <1>1, Invariant, PTL

\* A background tick never takes an endpoint somebody is waiting for.
THEOREM Priority == Spec => NeverOvertaken
  <1> DEFINE A == \A t \in Thread : pc[t] # "polling" /\ pc'[t] = "polling"
                      => ~\E u \in Thread : pc[u] \in Waiting /\ at[u] = at[t]
  <1>1. IInv /\ [Next]_vars => [A]_vars
    <2> SUFFICES ASSUME IInv, Next, NEW t \in Thread, pc[t] # "polling", pc'[t] = "polling",
                        NEW u \in Thread, pc[u] \in Waiting, at[u] = at[t]
                 PROVE  FALSE
      OBVIOUS
    <2>1. BackgroundTake(t)
      <3>1. PICK v \in Thread : Call(v) \/ ManualStep(v) \/ BackgroundStep(v) \/ Release(v)
        BY DEF Next
      <3>2. CASE Call(v)
        BY <3>2 DEF Call, Get, IInv, TypeOK
      <3>3. CASE ManualStep(v)
        BY <3>3 DEF ManualStep, ManualTake, ManualPark, Expire, Granted, WaitAgain, GiveUp,
                    Return, IInv, TypeOK
      <3>4. CASE BackgroundSkip(v)
        BY <3>4 DEF BackgroundSkip, Return, IInv, TypeOK
      <3>5. CASE BackgroundTake(v)
        BY <3>5 DEF BackgroundTake, IInv, TypeOK
      <3>6. CASE Release(v)
        <4>1. CASE held[lock[v]]
          <5>1. pc' = [Notified(lock[v]) EXCEPT ![v] = "idle"]
            BY <3>6, <4>1 DEF Release, Return
          <5>2. pc'[t] \in {"idle", "woken", pc[t]}
            BY <5>1 DEF Notified
          <5> QED BY <5>2
        <4>2. CASE ~held[lock[v]]
          BY <3>6, <4>2 DEF Release, IInv, TypeOK
        <4> QED BY <4>1, <4>2
      <3> QED BY <3>1, <3>2, <3>3, <3>4, <3>5, <3>6 DEF BackgroundStep
    <2>2. lock[t] = lock[u] /\ lock[t] \in Lock /\ u \in Waiters(lock[t])
      BY <2>1 DEF IInv, Handed, BackgroundTake, Waiting, Waiters
    <2>3. manualWaiting[lock[t]] = 0
      BY <2>1, <2>2 DEF BackgroundTake, BackgroundRefused, IInv, TypeOK
    <2>4. Waiters(lock[t]) = {}
      BY <2>2, <2>3, WaitersFinite, FS_EmptySet DEF IInv, WaitingCountExact
    <2> QED BY <2>2, <2>4
  <1> QED BY <1>1, Invariant, PTL DEF Spec, NeverOvertaken

-----------------------------------------------------------------------------
(***************************************************************************)
(* EndpointLock implements EndpointPriority.                               *)
(***************************************************************************)
UsersAt(e) == {t \in Thread : pc[t] \in Holding /\ at[t] = e}

\* Under the invariant the CHOOSE of the refinement mapping has at most one
\* candidate.
LEMMA UserOfIsTheHolder ==
  ASSUME IInv
  PROVE  /\ \A e \in Endpoint : UserOf(e) = None <=> UsersAt(e) = {}
         /\ \A e \in Endpoint : \A t \in UsersAt(e) : UserOf(e) = t /\ t \in Thread
  <1>1. \A e \in Endpoint : \A t \in UsersAt(e), u \in UsersAt(e) : t = u
    BY DEF IInv, Handed, OneHolderPerLock, UsersAt, Holding
  <1>2. \A e \in Endpoint : \A t \in UsersAt(e) : UserOf(e) = t /\ t \in Thread
    <2> SUFFICES ASSUME NEW e \in Endpoint, NEW t \in UsersAt(e) PROVE UserOf(e) = t
      BY DEF UsersAt
    <2>1. UserOf(e) \in UsersAt(e)
      BY DEF UserOf, UsersAt
    <2> QED BY <2>1, <1>1
  <1>3. \A e \in Endpoint : UsersAt(e) = {} => UserOf(e) = None
    BY DEF UserOf, UsersAt
  <1> QED BY <1>2, <1>3, LockAssumption

LEMMA UserOfIsTheHolderNext ==
  ASSUME IInv'
  PROVE  /\ \A e \in Endpoint : UserOf(e)' = None <=> UsersAt(e)' = {}
         /\ \A e \in Endpoint : \A t \in UsersAt(e)' : UserOf(e)' = t /\ t \in Thread
  <1>1. \A e \in Endpoint : \A t \in UsersAt(e)', u \in UsersAt(e)' : t = u
    BY DEF IInv, Handed, OneHolderPerLock, UsersAt, Holding
  <1>2. \A e \in Endpoint : \A t \in UsersAt(e)' : UserOf(e)' = t /\ t \in Thread
    <2> SUFFICES ASSUME NEW e \in Endpoint, NEW t \in UsersAt(e)' PROVE UserOf(e)' = t
      BY DEF UsersAt
    <2>1. UserOf(e)' \in UsersAt(e)'
      BY DEF UserOf, UsersAt
    <2> QED BY <2>1, <1>1
  <1>3. \A e \in Endpoint : UsersAt(e)' = {} => UserOf(e)' = None
    BY DEF UserOf, UsersAt
  <1> QED BY <1>2, <1>3, LockAssumption

\* A lock is free exactly when nobody is inside a with-block of its endpoint.
LEMMA FreeIsUnused ==
  ASSUME IInv, NEW t \in Thread, pc[t] # "idle"
  PROVE  /\ at[t] \in Endpoint
         /\ held[lock[t]] <=> UserOf(at[t]) # None
  <1>1. at[t] \in Endpoint /\ lock[t] \in Lock /\ registry[at[t]] = lock[t]
    BY DEF IInv, Handed
  <1>2. UsersAt(at[t]) = Holders(lock[t])
    BY <1>1, LockAssumption
       DEF IInv, Handed, OneEndpointPerLock, UsersAt, Holders, Holding
  <1> QED BY <1>1, <1>2, UserOfIsTheHolder DEF IInv, HeldIffInUse

users == [e \in Endpoint |-> UserOf(e)]
waits == [e \in Endpoint |-> WaitingAt(e)]

LEMMA SameUserOf ==
  ASSUME IInv, IInv', NEW e \in Endpoint, UsersAt(e)' = UsersAt(e)
  PROVE  UserOf(e)' = UserOf(e)
  <1>1. CASE UsersAt(e) = {}
    BY <1>1, UserOfIsTheHolder, UserOfIsTheHolderNext
  <1>2. CASE UsersAt(e) # {}
    <2>1. PICK t : t \in UsersAt(e)
      BY <1>2
    <2> QED BY <2>1, UserOfIsTheHolder, UserOfIsTheHolderNext
  <1> QED BY <1>1, <1>2

\* Steps nobody outside can see.
LEMMA Hidden ==
  ASSUME IInv, IInv', \A e \in Endpoint : UsersAt(e)' = UsersAt(e),
         \A e \in Endpoint : WaitingAt(e)' = WaitingAt(e)
  PROVE  UNCHANGED <<users, waits>>
  <1>1. \A e \in Endpoint : UserOf(e)' = UserOf(e)
    BY SameUserOf
  <1> QED BY <1>1 DEF users, waits

\* Steps by which t alone takes endpoint e.
LEMMA Takes ==
  ASSUME IInv, IInv', NEW t \in Thread, NEW e \in Endpoint,
         UsersAt(e)' = {t}, \A f \in Endpoint \ {e} : UsersAt(f)' = UsersAt(f)
  PROVE  users' = [users EXCEPT ![e] = t]
  <1>1. UserOf(e)' = t
    BY UserOfIsTheHolderNext
  <1>2. \A f \in Endpoint \ {e} : UserOf(f)' = UserOf(f)
    BY SameUserOf
  <1> QED BY <1>1, <1>2 DEF users

\* Steps by which endpoint e is left.
LEMMA Leaves ==
  ASSUME IInv, IInv', NEW e \in Endpoint,
         UsersAt(e)' = {}, \A f \in Endpoint \ {e} : UsersAt(f)' = UsersAt(f)
  PROVE  users' = [users EXCEPT ![e] = None]
  <1>1. UserOf(e)' = None
    BY UserOfIsTheHolderNext
  <1>2. \A f \in Endpoint \ {e} : UserOf(f)' = UserOf(f)
    BY SameUserOf
  <1> QED BY <1>1, <1>2 DEF users

LEMMA InitRefines == Init => Promise!Init
  BY DEF Init, Promise!Init, UserOf, WaitingAt, Holding, Waiting

LEMMA NextRefines ==
  IInv /\ IInv' /\ [Next]_vars => [Promise!Next]_<<users, waits>>
  <1> SUFFICES ASSUME IInv, IInv', [Next]_vars
               PROVE  Promise!Next \/ UNCHANGED <<users, waits>>
    OBVIOUS
  <1> USE LockAssumption DEF Holding, Waiting
  <1>1. CASE UNCHANGED vars
    BY <1>1, Hidden DEF vars, UsersAt, WaitingAt
  <1>2. ASSUME NEW t \in Thread, Call(t) \/ Expire(t) \/ WaitAgain(t) \/ BackgroundSkip(t)
        PROVE  UNCHANGED <<users, waits>>
    <2>1. \A e \in Endpoint : UsersAt(e)' = UsersAt(e) /\ WaitingAt(e)' = WaitingAt(e)
      BY <1>2 DEF Call, Get, Expire, WaitAgain, BackgroundSkip, Return, UsersAt, WaitingAt,
                  IInv, TypeOK
    <2> QED BY <2>1, Hidden
  <1>3. ASSUME NEW t \in Thread, ManualTake(t) \/ Granted(t)
        PROVE  Promise!Next
    <2>1. PICK e \in Endpoint : e = at[t] /\ UserOf(e) = None /\ UsersAt(e) = {}
      BY <1>3, FreeIsUnused, UserOfIsTheHolder DEF ManualTake, Granted
    <2>2. /\ UsersAt(e)' = {t}
          /\ \A f \in Endpoint \ {e} : UsersAt(f)' = UsersAt(f)
          /\ WaitingAt(e)' = WaitingAt(e) \ {t}
          /\ \A f \in Endpoint \ {e} : WaitingAt(f)' = WaitingAt(f)
      BY <1>3, <2>1 DEF ManualTake, Granted, UsersAt, WaitingAt, IInv, TypeOK
    <2>3. users' = [users EXCEPT ![e] = t]
      BY <2>2, Takes
    <2>4. waits' = [waits EXCEPT ![e] = @ \ {t}] /\ users[e] = None
      BY <2>1, <2>2 DEF waits, users
    <2>5. t \in ManualThread
      BY <1>3 DEF IInv, KeepsItsMode, ManualTake, Granted
    <2>6. Promise!Read(t, e)
      BY <2>3, <2>4 DEF Promise!Read, users, waits
    <2> QED BY <2>5, <2>6 DEF Promise!Next
  <1>4. ASSUME NEW t \in Thread, ManualPark(t) PROVE Promise!Next
    <2>1. PICK e \in Endpoint : e = at[t] /\ UserOf(e) # None
      BY <1>4, FreeIsUnused DEF ManualPark
    <2>2. /\ \A f \in Endpoint : UsersAt(f)' = UsersAt(f)
          /\ WaitingAt(e)' = WaitingAt(e) \cup {t}
          /\ \A f \in Endpoint \ {e} : WaitingAt(f)' = WaitingAt(f)
      BY <1>4, <2>1 DEF ManualPark, UsersAt, WaitingAt, IInv, TypeOK
    <2>3. UNCHANGED users
      BY <2>2, SameUserOf DEF users
    <2>4. waits' = [waits EXCEPT ![e] = @ \cup {t}] /\ users[e] # None
      BY <2>1, <2>2 DEF waits, users
    <2>5. t \in ManualThread
      BY <1>4 DEF IInv, KeepsItsMode, ManualPark
    <2>6. Promise!Wait(t, e)
      BY <2>3, <2>4 DEF Promise!Wait, users, waits
    <2> QED BY <2>5, <2>6 DEF Promise!Next
  <1>5. ASSUME NEW t \in Thread, GiveUp(t) PROVE Promise!Next
    <2>1. PICK e \in Endpoint : e = at[t] /\ UserOf(e) # None
      BY <1>5, FreeIsUnused DEF GiveUp
    <2>2. /\ \A f \in Endpoint : UsersAt(f)' = UsersAt(f)
          /\ t \in WaitingAt(e)
          /\ WaitingAt(e)' = WaitingAt(e) \ {t}
          /\ \A f \in Endpoint \ {e} : WaitingAt(f)' = WaitingAt(f)
      BY <1>5, <2>1 DEF GiveUp, Return, UsersAt, WaitingAt, IInv, TypeOK
    <2>3. UNCHANGED users
      BY <2>2, SameUserOf DEF users
    <2>4. waits' = [waits EXCEPT ![e] = @ \ {t}] /\ users[e] # None /\ t \in waits[e]
      BY <2>1, <2>2 DEF waits, users
    <2>5. t \in ManualThread
      BY <1>5 DEF IInv, KeepsItsMode, GiveUp
    <2>6. Promise!Withdraw(t, e)
      BY <2>3, <2>4 DEF Promise!Withdraw, users, waits
    <2> QED BY <2>5, <2>6 DEF Promise!Next
  <1>6. ASSUME NEW t \in Thread, BackgroundTake(t) PROVE Promise!Next
    <2>1. PICK e \in Endpoint : e = at[t] /\ UserOf(e) = None /\ UsersAt(e) = {}
      BY <1>6, FreeIsUnused, UserOfIsTheHolder DEF BackgroundTake, BackgroundRefused
    <2>2. PICK l \in Lock : l = lock[t] /\ manualWaiting[l] = 0
      BY <1>6 DEF BackgroundTake, BackgroundRefused, IInv, Handed, TypeOK
    <2>3. Waiters(l) = {}
      BY <2>2, WaitersFinite, FS_EmptySet DEF IInv, WaitingCountExact
    <2>4. WaitingAt(e) = {}
      BY <1>6, <2>1, <2>2, <2>3 DEF IInv, Handed, WaitingAt, Waiters, BackgroundTake
    <2>5. /\ UsersAt(e)' = {t}
          /\ \A f \in Endpoint \ {e} : UsersAt(f)' = UsersAt(f)
          /\ \A f \in Endpoint : WaitingAt(f)' = WaitingAt(f)
      BY <1>6, <2>1 DEF BackgroundTake, UsersAt, WaitingAt, IInv, TypeOK
    <2>6. users' = [users EXCEPT ![e] = t]
      BY <2>5, Takes
    <2>7. UNCHANGED waits /\ users[e] = None /\ waits[e] = {}
      BY <2>1, <2>4, <2>5 DEF waits, users
    <2>8. t \in BackgroundThread
      BY <1>6 DEF IInv, KeepsItsMode, BackgroundTake
    <2>9. Promise!Poll(t, e)
      BY <2>6, <2>7 DEF Promise!Poll, users, waits
    <2> QED BY <2>8, <2>9 DEF Promise!Next
  <1>7. ASSUME NEW t \in Thread, Release(t) PROVE Promise!Next
    <2>1. held[lock[t]]
      BY <1>7 DEF Release, IInv, Handed, HeldIffInUse, Holders
    <2>2. PICK e \in Endpoint : e = at[t] /\ UserOf(e) # None
      BY <1>7, <2>1, FreeIsUnused DEF Release
    <2>3. /\ pc' = [Notified(lock[t]) EXCEPT ![t] = "idle"]
          /\ at' = [at EXCEPT ![t] = None]
      BY <1>7, <2>1 DEF Release, Return
    <2>4. \A u \in Thread \ {t} : at'[u] = at[u] /\ (pc'[u] = pc[u] \/ (pc[u] = "parked" /\ pc'[u] = "woken"))
      BY <2>3 DEF Notified, IInv, TypeOK
    <2>5. pc'[t] = "idle"
      BY <2>3 DEF Notified
    <2>6. \A u \in UsersAt(e) : u = t
      BY <1>7, <2>2, UserOfIsTheHolder DEF UsersAt, Release
    <2>7. /\ UsersAt(e)' = {}
          /\ \A f \in Endpoint \ {e} : UsersAt(f)' = UsersAt(f)
      BY <1>7, <2>2, <2>4, <2>5, <2>6 DEF UsersAt
    <2>8. \A f \in Endpoint : WaitingAt(f)' = WaitingAt(f)
      BY <1>7, <2>4, <2>5 DEF WaitingAt, Release
    <2>9. users' = [users EXCEPT ![e] = None]
      BY <2>7, Leaves
    <2>10. UNCHANGED waits /\ users[e] # None
      BY <2>2, <2>8 DEF waits, users
    <2>11. Promise!Leave(e)
      BY <2>9, <2>10 DEF Promise!Leave, users, waits
    <2> QED BY <2>11 DEF Promise!Next
  <1> QED BY <1>1, <1>2, <1>3, <1>4, <1>5, <1>6, <1>7
          DEF Next, ManualStep, BackgroundStep

\* Every behaviour of the lock is, for its callers, a behaviour of the promise.
THEOREM LockKeepsPromise == Spec => PromiseKept
  <1>1. Init => Promise!Init
    BY InitRefines
  <1>2. IInv /\ IInv' /\ [Next]_vars
            => [Promise!Next]_<<[e \in Endpoint |-> UserOf(e)], [e \in Endpoint |-> WaitingAt(e)]>>
    BY NextRefines DEF users, waits
  <1> QED BY <1>1, <1>2, Invariant, PTL DEF Spec, PromiseKept, Promise!Spec

-----------------------------------------------------------------------------
(* The job thread, for any number of runs, jobs and one-shots: whatever a  *)
(* slow job leaves behind, one thread at most goes on.                     *)


\* The part of the types it needs.
JobTypes ==
    /\ running \in BOOLEAN /\ stopping \in BOOLEAN
    /\ current \in 0 .. MaxRuns
    /\ running => current \in Run
    /\ shutdown \in [Run -> BOOLEAN]
    /\ thread \in [Run -> ThreadState]

\* A run that has not begun has no thread, and no stop() is meant for it.
FutureIsUnborn == \A r \in Run : r > current => thread[r] = "unborn" /\ ~shutdown[r]

\* Between its two steps a stop() has told the run it will end.
StoppingIsTold == stopping => running /\ current \in Run /\ shutdown[current]

JobInv == JobTypes /\ FutureIsUnborn /\ StoppingIsTold /\ OnlyTheCurrentRunGoesOn

LEMMA JobsStart == SchedulerInit => JobInv
<1> SUFFICES ASSUME SchedulerInit
             PROVE  JobInv
  OBVIOUS
<1>1. JobTypes
  <2>1. \A r \in Run : thread[r] = "unborn" /\ shutdown[r] = FALSE
    BY DEF SchedulerInit
  <2>2. shutdown \in [Run -> BOOLEAN] /\ thread \in [Run -> ThreadState]
    BY DEF SchedulerInit, ThreadState
  <2>3. current = 0 /\ ~running /\ ~stopping
    BY DEF SchedulerInit
  <2>4. running \in BOOLEAN /\ stopping \in BOOLEAN
    BY DEF SchedulerInit
  <2>5. current \in 0 .. MaxRuns
    BY <2>3, SchedulerAssumption
  <2> QED BY <2>2, <2>3, <2>4, <2>5 DEF JobTypes
<1>2. \A r \in Run : thread[r] = "unborn" /\ ~shutdown[r]
  BY DEF SchedulerInit
<1>3. FutureIsUnborn /\ OnlyTheCurrentRunGoesOn
  BY <1>2 DEF FutureIsUnborn, OnlyTheCurrentRunGoesOn, Alive
<1>4. StoppingIsTold
  BY DEF SchedulerInit, StoppingIsTold
<1> QED BY <1>1, <1>3, <1>4 DEF JobInv

\* Nobody touches another run's thread, and a thread neither begins nor comes back.
LEMMA ThreadStepsOnly ==
    ASSUME JobInv, NEW r \in Run, NEW state \in ThreadState, Alive(r), GoTo(r, state),
           OthersUnchanged
    PROVE  JobInv'
<1>1. /\ running' = running /\ stopping' = stopping /\ current' = current
      /\ shutdown' = shutdown /\ thread' = [thread EXCEPT ![r] = state]
  BY DEF OthersUnchanged, GoTo
<1>2. JobTypes'
  BY <1>1 DEF JobInv, JobTypes
<1>3. \A s \in Run : s # r => thread'[s] = thread[s]
  BY <1>1 DEF JobInv, JobTypes
<1>4. FutureIsUnborn'
  BY <1>1, <1>3 DEF JobInv, FutureIsUnborn, Alive
<1>5. StoppingIsTold'
  BY <1>1 DEF JobInv, StoppingIsTold
<1>6. OnlyTheCurrentRunGoesOn'
  BY <1>1, <1>3 DEF JobInv, OnlyTheCurrentRunGoesOn, Alive
<1> QED BY <1>2, <1>4, <1>5, <1>6 DEF JobInv

\* A step that is about jobs, one-shots and wakes.
LEMMA RunsUntouched ==
    ASSUME JobInv, OthersUnchanged, thread' = thread
    PROVE  JobInv'
BY DEF JobInv, OthersUnchanged, JobTypes, FutureIsUnborn, StoppingIsTold,
       OnlyTheCurrentRunGoesOn, Alive

LEMMA StartKeeps ==
    ASSUME JobInv, Start
    PROVE  JobInv'
<1> DEFINE new == current + 1
<1>0. /\ current' = new /\ stopping' = stopping /\ ~stopping /\ shutdown' = shutdown
      /\ running' = TRUE /\ ~running
  BY DEF Start
<1>1. new \in Run /\ new > current /\ thread' = [thread EXCEPT ![new] = "top"]
  BY SchedulerAssumption DEF JobInv, JobTypes, Start, Run
<1>2. running' \in BOOLEAN /\ stopping' \in BOOLEAN
  BY <1>0 DEF JobInv, JobTypes
<1>3. JobTypes'
  BY <1>0, <1>1, <1>2 DEF JobInv, JobTypes, Run, ThreadState
<1>4. \A s \in Run : s # new => thread'[s] = thread[s]
  BY <1>1 DEF JobInv, JobTypes
<1>5. FutureIsUnborn'
  BY <1>0, <1>1, <1>4 DEF JobInv, JobTypes, FutureIsUnborn, Run
<1>6. StoppingIsTold'
  BY <1>0 DEF StoppingIsTold
<1>7. OnlyTheCurrentRunGoesOn'
  <2> SUFFICES ASSUME NEW s \in Run, Alive(s)', ~shutdown'[s]
               PROVE  running' /\ s = current'
    BY DEF OnlyTheCurrentRunGoesOn
  <2>1. CASE s = new
    BY <1>0, <2>1
  <2>2. CASE s # new
    BY <1>0, <1>4, <2>2 DEF JobInv, OnlyTheCurrentRunGoesOn, Alive
  <2> QED BY <2>1, <2>2
<1> QED BY <1>3, <1>5, <1>6, <1>7 DEF JobInv

LEMMA StopSignalKeeps ==
    ASSUME JobInv, StopSignal
    PROVE  JobInv'
<1>1. /\ current \in Run /\ current' = current /\ running' = running /\ running
      /\ stopping' = TRUE /\ thread' = thread
      /\ shutdown' = [shutdown EXCEPT ![current] = TRUE]
  BY DEF JobInv, JobTypes, StopSignal
<1>2. shutdown'[current] /\ \A r \in Run : r # current => shutdown'[r] = shutdown[r]
  BY <1>1 DEF JobInv, JobTypes
<1>3. JobTypes'
  BY <1>1 DEF JobInv, JobTypes
<1>4. FutureIsUnborn'
  BY <1>1, <1>2 DEF JobInv, JobTypes, FutureIsUnborn
<1>5. StoppingIsTold'
  BY <1>1, <1>2 DEF StoppingIsTold
<1>6. OnlyTheCurrentRunGoesOn'
  BY <1>1, <1>2 DEF JobInv, OnlyTheCurrentRunGoesOn, Alive
<1> QED BY <1>3, <1>4, <1>5, <1>6 DEF JobInv

LEMMA StopWakeKeeps ==
    ASSUME JobInv, StopWake
    PROVE  JobInv'
BY DEF JobInv, StopWake, JobTypes, FutureIsUnborn, StoppingIsTold,
       OnlyTheCurrentRunGoesOn, Alive, queueVars

LEMMA JobsStep == JobInv /\ [SchedulerNext]_schedulerVars => JobInv'
<1> SUFFICES ASSUME JobInv, [SchedulerNext]_schedulerVars
             PROVE  JobInv'
  OBVIOUS
<1>1. CASE Start \/ StopSignal \/ StopWake
  BY <1>1, StartKeeps, StopSignalKeeps, StopWakeKeeps
<1>2. ASSUME NEW r \in Run, ThreadStep(r)
      PROVE  JobInv'
  <2>1. Alive(r) /\ OthersUnchanged /\ \E s \in ThreadState : GoTo(r, s)
    <3>1. CASE PassBegins(r) \/ Drain(r) \/ ShotBegins(r) \/ ShotEnds(r) \/ ShotsOver(r)
      BY <3>1 DEF PassBegins, Drain, ShotBegins, ShotEnds, ShotsOver, Alive, ThreadState
    <3>2. CASE JobBegins(r) \/ JobEnds(r) \/ JobsOver(r) \/ ClearWake(r)
      BY <3>2 DEF JobBegins, JobEnds, JobsOver, ClearWake, Alive, ThreadState
    <3>3. CASE Recheck(r) \/ LookAtPending(r) \/ WakesUp(r)
      BY <3>3 DEF Recheck, LookAtPending, WakesUp, Alive, ThreadState
    <3> QED BY <1>2, <3>1, <3>2, <3>3 DEF ThreadStep
  <2> QED BY <2>1, ThreadStepsOnly
<1>3. ASSUME NEW r \in Run, NEW j \in Job, ComesDue(r, j)
      PROVE  JobInv'
  BY <1>3, RunsUntouched DEF ComesDue
<1>4. ASSUME NEW o \in OneShot, RunSoonStep(o)
      PROVE  JobInv'
  BY <1>4, RunsUntouched DEF RunSoonStep, Enqueue, CatchWake, SetWake
<1>5. CASE UNCHANGED schedulerVars
  BY <1>5, RunsUntouched DEF schedulerVars, OthersUnchanged
<1> QED BY <1>1, <1>2, <1>3, <1>4, <1>5 DEF SchedulerNext

-----------------------------------------------------------------------------
(* However often the Scheduler is stopped and started while slow jobs are  *)
(* under way, at most one job thread goes on, and it is the one a stop()   *)
(* would signal: what fresh events for each run are for.                   *)
THEOREM OneThreadGoesOn == SchedulerSpec => []OnlyTheCurrentRunGoesOn
<1>1. JobInv => OnlyTheCurrentRunGoesOn
  BY DEF JobInv
<1> QED BY JobsStart, JobsStep, <1>1, PTL DEF SchedulerSpec

-----------------------------------------------------------------------------
(* Least and largest of a set of numbers.                                  *)

LEMMA HasLeast ==
    ASSUME NEW T \in SUBSET Nat, T # {}
    PROVE  Min(T) \in T /\ \A y \in T : Min(T) <= y
<1>1. PICK x \in T : \A y \in T : ~(<<y, x>> \in OpToRel(<, Nat))
  BY NatLessThanWellFounded, WFMin
<1>2. \A y \in T : ~(y < x)
  BY <1>1 DEF OpToRel
<1>3. \A y \in T : x <= y
  BY <1>2
<1> QED BY <1>3 DEF Min

LEMMA HasMost ==
    ASSUME NEW M \in Nat, NEW T \in SUBSET (0 .. M), T # {}
    PROVE  Max(T) \in T /\ \A y \in T : Max(T) >= y
<1> DEFINE U == {m \in Nat : M - m \in T}
<1>1. U \in SUBSET Nat /\ U # {}
  <2> PICK t \in T : TRUE
    OBVIOUS
  <2>1. M - t \in Nat /\ M - (M - t) = t
    OBVIOUS
  <2> QED BY <2>1
<1>2. PICK m \in U : \A y \in U : m <= y
  <2> HIDE DEF U
  <2> QED BY <1>1, HasLeast
<1>3. M - m \in T /\ m \in Nat
  OBVIOUS
<1>4. \A y \in T : M - m >= y
  <2> TAKE y \in T
  <2>0. y \in 0 .. M
    OBVIOUS
  <2>1. M - y \in U
    BY <2>0
  <2>2. m <= M - y
    BY <1>2, <2>1
  <2> HIDE DEF U
  <2> QED BY <2>0, <2>2, <1>3
<1> QED BY <1>3, <1>4 DEF Max

-----------------------------------------------------------------------------
(* The documents of closed periods: a stamp stands for a file.  A file     *)
(* that is complete stays for good; a half-written one may go, and only a  *)
(* slice takes one for a document.  So StampedHasDocument needs that the   *)
(* row a capture has loaded is still the row of that id when it stamps,    *)
(* which only a deletion under way could change.                           *)

SamePeriod(r, s) == r.device = s.device /\ r.bill = s.bill /\ r.serial = s.serial

\* A complete file of the row's meter and bill date.
Documented(r) == \E path \in whole : path[2] = r.device /\ path[3] = r.bill

IsWork(w) == "pc" \in DOMAIN w /\ "ids" \in DOMAIN w /\ "row" \in DOMAIN w

RowsTyped ==
    /\ rows \in [Id -> Row \cup {NoRow}]
    /\ DOMAIN work = Capturer /\ work = [t \in Capturer |-> work[t]]
    /\ \A t \in Capturer : IsWork(work[t])

\* The row that a thread has loaded is the one that has its id.
StillThere(w) ==
    w.pc \in {"render", "writing", "stamp"} =>
        /\ w.ids # <<>>
        /\ Head(w.ids) \in Id => rows[Head(w.ids)] # NoRow /\ SamePeriod(rows[Head(w.ids)], w.row)

MayStamp(w) == w.pc = "stamp" /\ w.row.serial => Documented(w.row)

Stamps == \A i \in Id : rows[i] # NoRow /\ rows[i].stamped /\ rows[i].serial => Documented(rows[i])

CaptureSound == Stamps /\ \A t \in Capturer : StillThere(work[t]) /\ MayStamp(work[t])

CaptureInv == RowsTyped /\ (~overtaken => CaptureSound)

LEMMA IdleIsWork == IsWork(Idle) /\ Idle.pc = "idle" /\ Idle.ids = <<>>
BY DEF IsWork, Idle

LEMMA RestIsSound ==
    ASSUME NEW w, w.pc \notin {"render", "writing", "stamp"}
    PROVE  StillThere(w) /\ MayStamp(w)
BY DEF StillThere, MayStamp

\* A step of one thread, or of none, that leaves the rows alone.
LEMMA InvAfterWork ==
    ASSUME CaptureInv, rows' = rows, whole \subseteq whole', overtaken' = overtaken,
           NEW t \in Capturer, NEW w, IsWork(w), work' = [work EXCEPT ![t] = w],
           ~overtaken /\ CaptureSound => (StillThere(w) /\ MayStamp(w))'
    PROVE  CaptureInv'
<1>1. RowsTyped /\ work'[t] = w /\ \A s \in Capturer : s # t => work'[s] = work[s]
  BY DEF CaptureInv, RowsTyped
<1>2. RowsTyped'
  BY <1>1 DEF RowsTyped, IsWork
<1>3. ASSUME ~overtaken' PROVE CaptureSound'
  <2>1. ~overtaken /\ CaptureSound /\ (StillThere(w) /\ MayStamp(w))'
    BY <1>3 DEF CaptureInv
  <2>2. \A r : Documented(r) => Documented(r)'
    BY DEF Documented
  <2>3. Stamps'
    BY <2>1, <2>2 DEF CaptureSound, Stamps
  <2>4. ASSUME NEW s \in Capturer PROVE StillThere(work[s])' /\ MayStamp(work[s])'
    <3>1. CASE s = t
      BY <1>1, <2>1, <3>1 DEF StillThere, MayStamp, Documented
    <3>2. CASE s # t
      <4>1. StillThere(work[s]) /\ MayStamp(work[s]) /\ work'[s] = work[s]
        BY <1>1, <2>1, <3>2 DEF CaptureSound
      <4> QED BY <2>2, <4>1 DEF StillThere, MayStamp, SamePeriod, Documented
    <3> QED BY <3>1, <3>2
  <2> QED BY <2>3, <2>4 DEF CaptureSound
<1> QED BY <1>2, <1>3 DEF CaptureInv

\* What neither captures nor changes a row.
LEMMA InvAfterOthers ==
    ASSUME CaptureInv, rows' = rows, whole' = whole, overtaken' = overtaken, work' = work
    PROVE  CaptureInv'
<1>1. RowsTyped'
  BY DEF CaptureInv, RowsTyped, IsWork
<1>2. CaptureSound => CaptureSound'
  BY DEF CaptureSound, Stamps, StillThere, MayStamp, Documented, SamePeriod
<1> QED BY <1>1, <1>2 DEF CaptureInv

\* Rows are added or stamped; threads rest, or stay where they are.
LEMMA InvAfterRows ==
    ASSUME CaptureInv, whole \subseteq whole', rows' \in [Id -> Row \cup {NoRow}],
           DOMAIN work' = Capturer, work' = [t \in Capturer |-> work'[t]],
           \A t \in Capturer : IsWork(work'[t]) /\ (work'[t] = work[t] \/ work'[t].pc \notin {"render", "writing", "stamp"}),
           ~overtaken' =>
              /\ ~overtaken
              /\ CaptureSound => \A i \in Id :
                    /\ rows[i] # NoRow => rows'[i] # NoRow /\ SamePeriod(rows'[i], rows[i])
                    /\ rows'[i] # NoRow /\ rows'[i].stamped /\ rows'[i].serial =>
                          Documented(rows'[i])
    PROVE  CaptureInv'
<1>1. RowsTyped'
  BY DEF RowsTyped, IsWork
<1>2. ASSUME ~overtaken' PROVE CaptureSound'
  <2>1. /\ CaptureSound
        /\ \A i \in Id :
             /\ rows[i] # NoRow => rows'[i] # NoRow /\ SamePeriod(rows'[i], rows[i])
             /\ rows'[i] # NoRow /\ rows'[i].stamped /\ rows'[i].serial => Documented(rows'[i])
    BY <1>2 DEF CaptureInv
  <2>2. \A r : Documented(r) => \E path \in whole' : path[2] = r.device /\ path[3] = r.bill
    BY DEF Documented
  <2>3. Stamps'
    BY <2>1, <2>2 DEF Stamps, Documented
  <2>4. ASSUME NEW t \in Capturer PROVE StillThere(work[t])' /\ MayStamp(work[t])'
    <3>1. CASE work'[t].pc \notin {"render", "writing", "stamp"}
      BY <3>1 DEF StillThere, MayStamp
    <3>2. CASE work'[t] = work[t]
      <4>1. StillThere(work[t]) /\ MayStamp(work[t])
        BY <2>1 DEF CaptureSound
      <4>2. StillThere(work[t])'
        BY <2>1, <3>2, <4>1 DEF StillThere, SamePeriod
      <4>3. MayStamp(work[t])'
        BY <2>2, <3>2, <4>1 DEF MayStamp, Documented
      <4> QED BY <4>2, <4>3
    <3> QED BY <3>1, <3>2
  <2> QED BY <2>3, <2>4 DEF CaptureSound
<1> QED BY <1>1, <1>2 DEF CaptureInv

LEMMA AfterRests ==
    ASSUME RowsTyped, NEW t \in Capturer, GoOn(t) \/ GoHome(t)
    PROVE  \E w : /\ IsWork(w) /\ w.pc \notin {"render", "writing", "stamp"}
                  /\ work' = [work EXCEPT ![t] = w]
<1>1. CASE GoHome(t)
  BY <1>1, IdleIsWork DEF GoHome
<1>2. CASE GoOn(t)
  <2> DEFINE w == [work[t] EXCEPT !.ids = Tail(@), !.row = NoRow, !.pc = "next"]
  <2>1. IsWork(work[t])
    BY DEF RowsTyped
  <2>2. IsWork(w) /\ w.pc = "next"
    BY <2>1 DEF IsWork
  <2>3. work' = [work EXCEPT ![t] = w]
    BY <1>2 DEF GoOn
  <2> HIDE DEF w
  <2> QED BY <2>2, <2>3
<1> QED BY <1>1, <1>2

LEMMA InvAfterLoad ==
    ASSUME CaptureInv, NEW t \in Capturer, Load(t)
    PROVE  CaptureInv'
<1> DEFINE id == Head(work[t].ids)
           w == [work[t] EXCEPT !.row = rows[id], !.pc = IF rows[id].serial THEN "render" ELSE "stamp"]
<1>1. /\ UNCHANGED <<rows, whole, overtaken>> /\ work' = [work EXCEPT ![t] = w]
      /\ work[t].ids # <<>> /\ rows[id] # NoRow
  BY DEF Load
<1>2. IsWork(work[t])
  BY DEF CaptureInv, RowsTyped
<1>6. /\ IsWork(w) /\ w.row = rows[id] /\ w.ids = work[t].ids
      /\ w.pc = IF rows[id].serial THEN "render" ELSE "stamp"
  BY <1>2 DEF IsWork
<1> HIDE DEF w
<1>3. PICK v : /\ work' = [work EXCEPT ![t] = v]
               /\ IsWork(v) /\ v.row = rows[id] /\ v.ids = work[t].ids
               /\ v.pc = IF rows[id].serial THEN "render" ELSE "stamp"
  BY <1>1, <1>6
<1>4. Head(v.ids) = id
  BY <1>3
<1> HIDE DEF id
<1>5. (StillThere(v) /\ MayStamp(v))'
  <2>1. rows' = rows
    BY <1>1
  <2>2. StillThere(v)'
    BY <1>1, <1>3, <1>4, <2>1 DEF StillThere, SamePeriod
  <2>3. MayStamp(v)'
    BY <1>1, <1>3 DEF MayStamp
  <2> QED BY <2>2, <2>3
<1> QED BY <1>1, <1>3, <1>5, InvAfterWork

LEMMA InvAfterCreate ==
    ASSUME CaptureInv, NEW t \in Capturer, Create(t)
    PROVE  CaptureInv'
<1> DEFINE w == [work[t] EXCEPT !.pc = "writing"]
<1>1. /\ UNCHANGED <<rows, whole, overtaken>> /\ work' = [work EXCEPT ![t] = w] /\ work[t].pc = "render"
  BY DEF Create
<1>2. IsWork(work[t])
  BY DEF CaptureInv, RowsTyped
<1>5. IsWork(w) /\ w.row = work[t].row /\ w.ids = work[t].ids /\ w.pc = "writing"
  BY <1>2 DEF IsWork
<1> HIDE DEF w
<1>3. PICK v : /\ work' = [work EXCEPT ![t] = v]
               /\ IsWork(v) /\ v.row = work[t].row /\ v.ids = work[t].ids /\ v.pc = "writing"
  BY <1>1, <1>5
<1>4. ASSUME CaptureSound PROVE (StillThere(v) /\ MayStamp(v))'
  <2>1. StillThere(work[t])
    BY <1>4 DEF CaptureSound
  <2>2. StillThere(v)'
    BY <1>1, <1>3, <2>1 DEF StillThere, SamePeriod
  <2>3. MayStamp(v)'
    BY <1>3 DEF MayStamp
  <2> QED BY <2>2, <2>3
<1> QED BY <1>1, <1>3, <1>4, InvAfterWork

LEMMA InvAfterWrite ==
    ASSUME CaptureInv, NEW t \in Capturer, Write(t)
    PROVE  CaptureInv'
<1> DEFINE w == IF work[t].kind = "pdf" THEN Idle ELSE [work[t] EXCEPT !.pc = "stamp"]
<1>1. /\ UNCHANGED <<rows, overtaken>> /\ work' = [work EXCEPT ![t] = w] /\ work[t].pc = "writing"
      /\ whole' = whole \cup {MyPath(t)}
  BY DEF Write
<1>2. IsWork(work[t])
  BY DEF CaptureInv, RowsTyped
<1>5. IsWork(w) /\ (w.pc = "idle" \/ (w.row = work[t].row /\ w.ids = work[t].ids /\ w.pc = "stamp"))
  BY <1>2, IdleIsWork DEF IsWork
<1> HIDE DEF w
<1>3. PICK v : /\ work' = [work EXCEPT ![t] = v] /\ IsWork(v)
               /\ v.pc = "idle" \/ (v.row = work[t].row /\ v.ids = work[t].ids /\ v.pc = "stamp")
  BY <1>1, <1>5
<1>4. ASSUME CaptureSound PROVE (StillThere(v) /\ MayStamp(v))'
  <2>1. StillThere(work[t])
    BY <1>4 DEF CaptureSound
  <2>2. StillThere(v)'
    BY <1>1, <1>3, <2>1 DEF StillThere, SamePeriod
  <2>3. MayStamp(v)'
    <3>1. MyPath(t) \in whole' /\ MyPath(t)[2] = work[t].row.device /\ MyPath(t)[3] = work[t].row.bill
      BY <1>1 DEF MyPath, Target
    <3> QED BY <1>3, <3>1 DEF MayStamp, Documented
  <2> QED BY <2>2, <2>3
<1> QED BY <1>1, <1>3, <1>4, InvAfterWork

LEMMA InvAfterVanished ==
    ASSUME CaptureInv, NEW t \in Capturer, Vanished(t)
    PROVE  CaptureInv'
<1>1. UNCHANGED <<rows, whole, overtaken>> /\ (GoOn(t) \/ GoHome(t))
  BY DEF Vanished
<1>2. PICK w : /\ IsWork(w) /\ w.pc \notin {"render", "writing", "stamp"}
               /\ work' = [work EXCEPT ![t] = w]
  BY <1>1, AfterRests DEF CaptureInv
<1>3. (StillThere(w) /\ MayStamp(w))'
  BY <1>2 DEF StillThere, MayStamp
<1> QED BY <1>1, <1>2, <1>3, InvAfterWork

LEMMA InvAfterFailure ==
    ASSUME CaptureInv, NEW t \in Capturer, Fails(t)
    PROVE  CaptureInv'
<1>1. UNCHANGED <<rows, whole, overtaken>> /\ (GoOn(t) \/ GoHome(t))
  BY DEF Fails, After
<1>2. PICK w : /\ IsWork(w) /\ w.pc \notin {"render", "writing", "stamp"}
               /\ work' = [work EXCEPT ![t] = w]
  BY <1>1, AfterRests DEF CaptureInv
<1>3. (StillThere(w) /\ MayStamp(w))'
  BY <1>2 DEF StillThere, MayStamp
<1> QED BY <1>1, <1>2, <1>3, InvAfterWork

LEMMA InvAfterStamp ==
    ASSUME NoRow \notin Row, CaptureInv, NEW t \in Capturer, Stamp(t)
    PROVE  CaptureInv'
<1> DEFINE id == Head(work[t].ids)
<1>1. /\ UNCHANGED <<whole, overtaken>> /\ (GoOn(t) \/ GoHome(t)) /\ work[t].pc = "stamp"
      /\ rows' = [rows EXCEPT ![id].stamped = TRUE] /\ rows[id] # NoRow
  BY DEF Stamp, After
<1>2. PICK w : /\ IsWork(w) /\ w.pc \notin {"render", "writing", "stamp"}
               /\ work' = [work EXCEPT ![t] = w]
  BY <1>1, AfterRests DEF CaptureInv
<1>3. RowsTyped
  BY DEF CaptureInv
<1>4. /\ DOMAIN work' = Capturer /\ work' = [s \in Capturer |-> work'[s]]
      /\ \A s \in Capturer : IsWork(work'[s]) /\ (work'[s] = work[s] \/ work'[s].pc \notin {"render", "writing", "stamp"})
  BY <1>2, <1>3 DEF RowsTyped
<1> HIDE DEF id
<1>5. CASE id \notin Id
  <2>1. rows' = rows
    <3>1. rows = [i \in Id |-> rows[i]]
      BY <1>3 DEF RowsTyped
    <3> QED BY <1>1, <1>5, <3>1
  <2>2. \A i \in Id : SamePeriod(rows[i], rows[i])
    BY DEF SamePeriod
  <2>3. rows' \in [Id -> Row \cup {NoRow}]
    BY <1>3, <2>1 DEF RowsTyped
  <2> QED BY <1>1, <1>4, <2>1, <2>2, <2>3, InvAfterRows DEF CaptureSound, Stamps
<1>6. CASE id \in Id
  <2> DEFINE r == [rows[id] EXCEPT !.stamped = TRUE]
  <2>1. rows[id] \in Row
    BY <1>1, <1>3, <1>6 DEF RowsTyped
  <2>2. r \in Row /\ SamePeriod(r, rows[id]) /\ r # NoRow
    BY <2>1 DEF Row, SamePeriod
  <2>3. rows' = [rows EXCEPT ![id] = r]
    BY <1>1
  <2> HIDE DEF r
  <2>4. rows' \in [Id -> Row \cup {NoRow}] /\ rows'[id] = r /\ \A i \in Id : i # id => rows'[i] = rows[i]
    BY <1>3, <1>6, <2>2, <2>3 DEF RowsTyped
  <2>5. ASSUME CaptureSound, NEW i \in Id
        PROVE  /\ rows[i] # NoRow => rows'[i] # NoRow /\ SamePeriod(rows'[i], rows[i])
               /\ rows'[i] # NoRow /\ rows'[i].stamped /\ rows'[i].serial => Documented(rows'[i])
    <3>1. CASE i # id
      BY <2>4, <2>5, <3>1 DEF CaptureSound, Stamps, SamePeriod
    <3>2. CASE i = id
      <4>1. StillThere(work[t]) /\ MayStamp(work[t])
        BY <2>5 DEF CaptureSound
      <4>2. SamePeriod(rows[id], work[t].row)
        BY <1>1, <1>6, <4>1 DEF StillThere, id
      <4>3. r.serial => Documented(r)
        BY <1>1, <2>2, <4>1, <4>2 DEF MayStamp, SamePeriod, Documented
      <4> QED BY <2>2, <2>4, <3>2, <4>3
    <3> QED BY <3>1, <3>2
  <2> QED BY <1>1, <1>4, <2>4, <2>5, InvAfterRows
<1> QED BY <1>5, <1>6

LEMMA NextIdIsFree ==
    ASSUME MaxId \in Nat
    PROVE  NextId \in Nat \ {0} /\ NextId \notin Stored
<1>1. \A i \in Stored : i \in 1 .. MaxId /\ i \in 0 .. MaxId /\ i \in Nat
  BY DEF Stored, Id
<1>2. {0} \cup Stored \in SUBSET (0 .. MaxId) /\ {0} \cup Stored # {}
  BY <1>1
<1>3. Max({0} \cup Stored) \in {0} \cup Stored /\ \A i \in {0} \cup Stored : Max({0} \cup Stored) >= i
  BY <1>2, HasMost
<1> DEFINE m == Max({0} \cup Stored)
<1>4. m \in Nat /\ NextId = 1 + m /\ \A i \in Stored : m >= i
  BY <1>1, <1>3 DEF NextId
<1> HIDE DEF m
<1> QED BY <1>1, <1>4

LEMMA InvAfterRead ==
    ASSUME NoRow \notin Row, MaxId \in Nat, CaptureInv, NEW t \in Capturer, NEW d \in Device, ReadStores(t, d)
    PROVE  CaptureInv'
<1> DEFINE id == NextId
<1>1. id \in Nat /\ id \notin Stored
  BY NextIdIsFree
<1> HIDE DEF id
<1>2. PICK r, w :
        /\ r \in Row /\ ~r.stamped /\ rows' = [rows EXCEPT ![id] = r]
        /\ IsWork(w) /\ w.pc \notin {"render", "writing", "stamp"} /\ work' = [work EXCEPT ![t] = w]
  <2>1. PICK bill \in Bill, serial \in BOOLEAN, licensed \in BOOLEAN :
          /\ rows' = [rows EXCEPT ![id] = [device |-> d, bill |-> bill, serial |-> serial,
                                            stamped |-> FALSE]]
          /\ work' = [work EXCEPT ![t] =
                      IF licensed /\ folder # NoFolder
                      THEN [Idle EXCEPT !.kind = "eager", !.pc = "next",
                                        !.ids = <<id>>, !.dir = folder]
                      ELSE Idle]
    BY DEF ReadStores, id
  <2> DEFINE r == [device |-> d, bill |-> bill, serial |-> serial, stamped |-> FALSE]
             w == IF licensed /\ folder # NoFolder
                  THEN [Idle EXCEPT !.kind = "eager", !.pc = "next", !.ids = <<id>>, !.dir = folder]
                  ELSE Idle
  <2>2. r \in Row /\ ~r.stamped
    BY DEF Row
  <2>3. IsWork(w) /\ w.pc \notin {"render", "writing", "stamp"}
    BY DEF IsWork, Idle
  <2>4. rows' = [rows EXCEPT ![id] = r] /\ work' = [work EXCEPT ![t] = w]
    BY <2>1
  <2> HIDE DEF r, w
  <2> QED BY <2>2, <2>3, <2>4
<1>3. RowsTyped /\ UNCHANGED <<whole, overtaken>>
  BY DEF CaptureInv, ReadStores
<1>4. /\ DOMAIN work' = Capturer /\ work' = [s \in Capturer |-> work'[s]]
      /\ \A s \in Capturer : IsWork(work'[s]) /\ (work'[s] = work[s] \/ work'[s].pc \notin {"render", "writing", "stamp"})
  BY <1>2, <1>3 DEF RowsTyped
<1>5. rows' \in [Id -> Row \cup {NoRow}]
  BY <1>2, <1>3 DEF RowsTyped
<1>6. ASSUME CaptureSound, NEW i \in Id
      PROVE  /\ rows[i] # NoRow => rows'[i] # NoRow /\ SamePeriod(rows'[i], rows[i])
             /\ rows'[i] # NoRow /\ rows'[i].stamped /\ rows'[i].serial => Documented(rows'[i])
  <2>1. CASE i = id
    BY <1>1, <1>2, <1>3, <2>1 DEF RowsTyped, Stored
  <2>2. CASE i # id
    <3>1. rows'[i] = rows[i]
      BY <1>2, <1>3, <2>2 DEF RowsTyped
    <3> QED BY <1>6, <3>1 DEF CaptureSound, Stamps, SamePeriod
  <2> QED BY <2>1, <2>2
<1> QED BY <1>3, <1>4, <1>5, <1>6, InvAfterRows

LEMMA InvAfterDownload ==
    ASSUME CaptureInv, NEW r \in Request, NEW i \in Id, Download(r, i)
    PROVE  CaptureInv'
<1>1. UNCHANGED <<rows, whole, overtaken>> /\ r \in Capturer /\ rows[i] # NoRow
  BY DEF Download, Stored, Capturer
<1>2. PICK kind : work' = [work EXCEPT ![r] = [Idle EXCEPT !.kind = kind, !.pc = "render",
                                                 !.ids = <<i>>, !.row = rows[i], !.dir = folder]]
  BY DEF Download
<1> DEFINE w == [Idle EXCEPT !.kind = kind, !.pc = "render", !.ids = <<i>>, !.row = rows[i], !.dir = folder]
<1>3. IsWork(w) /\ w.pc = "render" /\ w.ids = <<i>> /\ w.row = rows[i]
  BY DEF Idle, IsWork
<1> HIDE DEF w
<1>4. PICK v : /\ work' = [work EXCEPT ![r] = v]
               /\ IsWork(v) /\ v.pc = "render" /\ v.ids = <<i>> /\ v.row = rows[i]
  BY <1>2, <1>3 DEF w
<1>5. (StillThere(v) /\ MayStamp(v))'
  <2>1. v.ids # <<>> /\ Head(v.ids) = i
    BY <1>4
  <2>2. StillThere(v)'
    BY <1>1, <1>4, <2>1 DEF StillThere, SamePeriod
  <2> QED BY <1>4, <2>2 DEF MayStamp
<1> QED BY <1>1, <1>4, <1>5, InvAfterWork

LEMMA InvAfterRequest ==
    ASSUME CaptureInv, NEW r \in Request, start_capture_sweep(r) \/ QueueFirstSlice(r)
    PROVE  CaptureInv'
<1>1. UNCHANGED <<rows, whole, overtaken>> /\ r \in Capturer
  BY DEF start_capture_sweep, QueueFirstSlice, Capturer
<1>2. IsWork([Idle EXCEPT !.kind = "save", !.pc = "queue"]) /\ [Idle EXCEPT !.kind = "save", !.pc = "queue"].pc = "queue"
  BY DEF Idle, IsWork
<1>3. PICK w : IsWork(w) /\ w.pc \in {"queue", "idle"} /\ work' = [work EXCEPT ![r] = w]
  BY <1>2, IdleIsWork DEF start_capture_sweep, QueueFirstSlice
<1>4. (StillThere(w) /\ MayStamp(w))'
  BY <1>3 DEF StillThere, MayStamp
<1> QED BY <1>1, <1>3, <1>4, InvAfterWork

\* A slice stamps what has a complete file, or says that it did not look.
LEMMA InvAfterSlice ==
    ASSUME NoRow \notin Row, CaptureInv, BeginSlice
    PROVE  CaptureInv'
<1>1. /\ rows' = Healed(folder) /\ whole' = whole
      /\ overtaken' = (overtaken \/ \E i \in Stored : Target(folder, rows[i], "pdf") \in torn)
  BY DEF BeginSlice
<1>2. RowsTyped
  BY DEF CaptureInv
<1>3. /\ DOMAIN work' = Capturer /\ work' = [s \in Capturer |-> work'[s]]
      /\ \A s \in Capturer : IsWork(work'[s]) /\ (work'[s] = work[s] \/ work'[s].pc \notin {"render", "writing", "stamp"})
  <2>1. CASE UNCHANGED work
    BY <1>2, <2>1 DEF RowsTyped
  <2>2. CASE ~UNCHANGED work
    <3>1. PICK targets, seen :
            work' = [work EXCEPT ![scheduler] = [Idle EXCEPT !.kind = "sweep", !.pc = "next", !.ids = targets,
                                                   !.dir = folder, !.seen = seen]]
      BY <2>2 DEF BeginSlice
    <3> DEFINE w == [Idle EXCEPT !.kind = "sweep", !.pc = "next", !.ids = targets, !.dir = folder, !.seen = seen]
    <3>2. IsWork(w) /\ w.pc = "next"
      BY DEF Idle, IsWork
    <3>3. work' = [work EXCEPT ![scheduler] = w]
      BY <3>1
    <3> HIDE DEF w
    <3> QED BY <1>2, <3>2, <3>3 DEF RowsTyped
  <2> QED BY <2>1, <2>2
<1>4. ASSUME NEW i \in Id
      PROVE  rows'[i] = IF /\ i \in Stored \ sweep.failed /\ rows[i].serial
                           /\ Exists(Target(folder, rows[i], "pdf"))
                        THEN [rows[i] EXCEPT !.stamped = TRUE] ELSE rows[i]
  BY <1>1 DEF Healed
<1>5. ASSUME NEW i \in Id
      PROVE  /\ rows'[i] \in Row \cup {NoRow}
             /\ rows[i] # NoRow => rows'[i] # NoRow /\ SamePeriod(rows'[i], rows[i])
             /\ \/ rows'[i] = rows[i]
                \/ i \in Stored /\ Exists(Target(folder, rows[i], "pdf"))
  <2>1. CASE rows'[i] = rows[i]
    BY <1>2, <2>1 DEF RowsTyped, SamePeriod
  <2>2. CASE rows'[i] # rows[i]
    <3>1. /\ i \in Stored /\ Exists(Target(folder, rows[i], "pdf"))
          /\ rows'[i] = [rows[i] EXCEPT !.stamped = TRUE]
      BY <1>4, <2>2
    <3>2. rows[i] \in Row
      BY <1>2, <3>1 DEF RowsTyped, Stored
    <3>3. rows'[i] \in Row /\ SamePeriod(rows'[i], rows[i])
      BY <3>1, <3>2 DEF Row, SamePeriod
    <3> QED BY <3>1, <3>3
  <2> QED BY <2>1, <2>2
<1>6. rows' \in [Id -> Row \cup {NoRow}]
  <2>1. DOMAIN rows' = Id /\ rows' = [i \in Id |-> rows'[i]]
    BY <1>1 DEF Healed
  <2> QED BY <1>5, <2>1
<1>7. ASSUME ~overtaken', CaptureSound, NEW i \in Id,
             rows'[i] # NoRow, rows'[i].stamped, rows'[i].serial
      PROVE  Documented(rows'[i])
  <2>1. CASE rows'[i] = rows[i]
    BY <1>7, <2>1 DEF CaptureSound, Stamps
  <2>2. CASE i \in Stored /\ Exists(Target(folder, rows[i], "pdf"))
    <3>1. Target(folder, rows[i], "pdf") \in whole
      BY <1>1, <1>7, <2>2 DEF Exists
    <3>2. Documented(rows[i])
      BY <3>1 DEF Documented, Target
    <3>3. SamePeriod(rows'[i], rows[i])
      BY <1>5, <2>2 DEF Stored
    <3> QED BY <3>2, <3>3 DEF Documented, SamePeriod
  <2> QED BY <1>5, <2>1, <2>2
<1> QED BY <1>1, <1>3, <1>5, <1>6, <1>7, InvAfterRows

LEMMA InvAfterClear ==
    ASSUME NoRow \notin Row, CaptureInv, NEW d \in Device, clear_readings(d)
    PROVE  CaptureInv'
<1>1. /\ rows' = [i \in Id |-> IF i \in Stored /\ rows[i].device = d THEN NoRow ELSE rows[i]]
      /\ overtaken' = (overtaken \/ \E t \in Capturer : work[t].ids # <<>>)
      /\ UNCHANGED <<whole, work>> /\ RowsTyped
  BY DEF clear_readings, CaptureInv
<1>2. \A i \in Id : rows'[i] = NoRow \/ rows'[i] = rows[i]
  BY <1>1
<1>3. RowsTyped'
  BY <1>1, <1>2 DEF RowsTyped, IsWork
<1>4. ASSUME ~overtaken' PROVE CaptureSound'
  <2>1. CaptureSound /\ \A t \in Capturer : work[t].ids = <<>>
    BY <1>1, <1>4 DEF CaptureInv
  <2>2. Stamps'
    BY <1>1, <1>2, <2>1 DEF CaptureSound, Stamps, Documented
  <2>3. \A t \in Capturer : work[t].pc \notin {"render", "writing", "stamp"}
    BY <2>1 DEF CaptureSound, StillThere
  <2>4. \A t \in Capturer : StillThere(work[t])' /\ MayStamp(work[t])'
    BY <1>1, <2>3 DEF StillThere, MayStamp
  <2> QED BY <2>2, <2>4 DEF CaptureSound
<1> QED BY <1>3, <1>4 DEF CaptureInv

LEMMA InvAfterRestart ==
    ASSUME CaptureInv, Restart
    PROVE  CaptureInv'
<1>1. work' = [t \in Capturer |-> Idle] /\ UNCHANGED <<rows, whole, overtaken>>
  BY DEF Restart
<1>2. /\ DOMAIN work' = Capturer /\ work' = [t \in Capturer |-> work'[t]]
      /\ \A t \in Capturer : IsWork(work'[t]) /\ work'[t].pc \notin {"render", "writing", "stamp"}
  BY <1>1, IdleIsWork
<1>3. rows' \in [Id -> Row \cup {NoRow}]
  BY <1>1 DEF CaptureInv, RowsTyped
<1>4. CaptureSound => \A i \in Id :
        /\ SamePeriod(rows'[i], rows[i])
        /\ rows'[i] # NoRow /\ rows'[i].stamped /\ rows'[i].serial => Documented(rows'[i])
  BY <1>1 DEF CaptureSound, Stamps, SamePeriod
<1> QED BY <1>1, <1>2, <1>3, <1>4, InvAfterRows

LEMMA InvAtFirst ==
    ASSUME CaptureInit
    PROVE  CaptureInv
<1>1. rows = [i \in Id |-> NoRow] /\ work = [t \in Capturer |-> Idle]
  BY DEF CaptureInit
<1>2. RowsTyped
  BY <1>1, IdleIsWork DEF RowsTyped
<1>3. CaptureSound
  BY <1>1, IdleIsWork DEF CaptureSound, Stamps, StillThere, MayStamp
<1> QED BY <1>2, <1>3 DEF CaptureInv

LEMMA InvAfterAnyStep ==
    ASSUME NoRow \notin Row, MaxId \in Nat, CaptureInv, [CaptureNext]_captureVars
    PROVE  CaptureInv'
<1>1. ASSUME NEW t \in Capturer, Goes(t) PROVE CaptureInv'
  BY <1>1, InvAfterLoad, InvAfterVanished, InvAfterCreate, InvAfterWrite, InvAfterStamp, InvAfterFailure
     DEF Goes
<1>2. ASSUME NEW t \in Capturer, NEW d \in Device, ReadStores(t, d) PROVE CaptureInv'
  BY <1>2, InvAfterRead
<1>3. ASSUME NEW r \in Request, start_capture_sweep(r) \/ QueueFirstSlice(r) PROVE CaptureInv'
  BY <1>3, InvAfterRequest
<1>4. ASSUME NEW r \in Request, NEW i \in Id, Download(r, i) PROVE CaptureInv'
  BY <1>4, InvAfterDownload
<1>5. CASE BeginSlice
  BY <1>5, InvAfterSlice
<1>6. ASSUME NEW d \in Device, clear_readings(d) PROVE CaptureInv'
  BY <1>6, InvAfterClear
<1>7. CASE Restart
  BY <1>7, InvAfterRestart
<1>8. CASE \/ SliceEndsEarly \/ SchedulerStops \/ SchedulerStarts \/ UNCHANGED captureVars
           \/ \E dir \in Folder \cup {NoFolder} : put_billing_settings(dir)
  <2>1. rows' = rows /\ whole' = whole /\ overtaken' = overtaken /\ work' = work
    BY <1>8 DEF SliceEndsEarly, SchedulerStops, SchedulerStarts, put_billing_settings, captureVars
  <2> QED BY <2>1, InvAfterOthers
<1> QED BY <1>1, <1>2, <1>3, <1>4, <1>5, <1>6, <1>7, <1>8 DEF CaptureNext

(* The Captured column names a file that was written, whoever captured,    *)
(* whatever failed and wherever the process died, until rows are deleted   *)
(* in the middle of a capture or a sweep meets a half-written file.        *)
THEOREM StampsAreDocuments == CaptureSpec => []StampedHasDocument
<1>1. NoRow \notin Row /\ MaxId \in Nat
  BY CaptureAssumption, NoRowAssumption
<1>2. CaptureInit => CaptureInv
  BY InvAtFirst
<1>3. CaptureInv /\ [CaptureNext]_captureVars => CaptureInv'
  BY <1>1, InvAfterAnyStep
<1>4. CaptureInv => StampedHasDocument
  BY DEF CaptureInv, CaptureSound, Stamps, Documented, StampedHasDocument, Stored
<1> QED BY <1>2, <1>3, <1>4, PTL DEF CaptureSpec

-----------------------------------------------------------------------------
(* A sweep leaves nothing: what a slice set out from is done, has failed,  *)
(* or is on the list it still goes through; and only it ends the sweep.    *)
(* First, that the list of a slice has every row that is missing.          *)

\* Who captures has a list to go through; a slice does, and a save only queues one.
HasWork(w) ==
    /\ w.pc \notin {"idle", "queue"} => w.ids # <<>>
    /\ w.kind = "sweep" => w.pc \notin {"idle", "queue"}
    /\ w.pc = "queue" => w.kind = "save"

SweepTypes ==
    /\ work \in [Capturer -> Work] /\ \A t \in Capturer : HasWork(work[t])
    /\ lane \in BOOLEAN /\ rows \in [Id -> Row \cup {NoRow}]
    /\ sweep \in [running : BOOLEAN, failed : SUBSET Id]
    /\ folder \in Folder \cup {NoFolder}
    /\ count \in [clears : Nat, stops : Nat, restarts : Nat, folders : Nat]

\* Of one meter's rows each has a bill date of its own, so Before orders them.
OnePeriodEach ==
    \A i, j \in Stored : rows[i].device = rows[j].device /\ rows[i].bill = rows[j].bill => i = j

Ahead(ids, i) == {j \in ids : Before(j, i)}

LEMMA BeforeIsOrder ==
    ASSUME SweepTypes, OnePeriodEach, NEW i \in Stored, NEW j \in Stored
    PROVE  /\ ~Before(i, i)
           /\ Before(i, j) => ~Before(j, i)
           /\ i = j \/ Before(i, j) \/ Before(j, i)
           /\ \A k \in Stored : Before(i, j) /\ Before(j, k) => Before(i, k)
<1>1. \A k \in Stored : rows[k] \in Row
  BY DEF Stored, SweepTypes
<1>2. \A k \in Stored : rows[k].device \in Nat /\ rows[k].bill \in Nat
  <2>1. \A r \in Row : r.device \in Device /\ r.bill \in Bill
    BY DEF Row
  <2>2. Device \subseteq Nat /\ Bill \subseteq Nat
    BY CaptureAssumption DEF Bill
  <2> QED BY <1>1, <2>1, <2>2
<1>3. \A k \in Stored : ~Before(k, k) /\ (Before(i, k) => ~Before(k, i))
  BY <1>2 DEF Before
<1>4. i = j \/ Before(i, j) \/ Before(j, i)
  BY <1>2 DEF Before, OnePeriodEach
<1>5. \A k \in Stored : Before(i, j) /\ Before(j, k) => Before(i, k)
  BY <1>2 DEF Before
<1> QED BY <1>3, <1>4, <1>5

LEMMA IdsAreFinite ==
    ASSUME NEW ids, ids \in SUBSET Stored
    PROVE  IsFiniteSet(ids) /\ Cardinality(ids) \in Nat
<1>1. MaxId \in Nat /\ ids \in SUBSET (1 .. MaxId)
  BY CaptureAssumption DEF Stored, Id
<1>2. IsFiniteSet(1 .. MaxId)
  BY <1>1, FS_Interval
<1> QED BY <1>1, <1>2, FS_Subset, FS_CardinalityType

LEMMA PlaceType ==
    ASSUME SweepTypes, OnePeriodEach, NEW ids, ids \in SUBSET Stored, NEW i \in ids
    PROVE  /\ IsFiniteSet(Ahead(ids, i)) /\ Cardinality(Ahead(ids, i)) \in Nat
           /\ Cardinality(Ahead(ids, i)) \in 0 .. Cardinality(ids) - 1
<1>1. IsFiniteSet(ids) /\ Cardinality(ids) \in Nat
  BY IdsAreFinite
<1>2. Ahead(ids, i) \in SUBSET ids /\ i \notin Ahead(ids, i)
  BY BeforeIsOrder DEF Ahead
<1>3. /\ IsFiniteSet(Ahead(ids, i)) /\ Cardinality(Ahead(ids, i)) <= Cardinality(ids)
      /\ Cardinality(Ahead(ids, i)) # Cardinality(ids)
  BY <1>1, <1>2, FS_Subset
<1> QED BY <1>1, <1>3, FS_CardinalityType

LEMMA PlacesDiffer ==
    ASSUME SweepTypes, OnePeriodEach, NEW ids, ids \in SUBSET Stored, NEW i \in ids, NEW j \in ids,
           Cardinality(Ahead(ids, i)) = Cardinality(Ahead(ids, j))
    PROVE  i = j
<1>1. ASSUME NEW x \in ids, NEW y \in ids, Before(x, y)
      PROVE  Cardinality(Ahead(ids, x)) # Cardinality(Ahead(ids, y))
  <2>1. Ahead(ids, x) \in SUBSET Ahead(ids, y) /\ x \in Ahead(ids, y) /\ x \notin Ahead(ids, x)
    BY <1>1, BeforeIsOrder DEF Ahead
  <2> QED BY <2>1, PlaceType, FS_Subset
<1> QED BY <1>1, BeforeIsOrder

\* Every id is somewhere in the list, and nothing else is.
LEMMA ListIsComplete ==
    ASSUME SweepTypes, OnePeriodEach, NEW ids, ids \in SUBSET Stored
    PROVE  /\ InOrder(ids) \in Seq(Id)
           /\ \A i \in ids : \E k \in 1 .. Len(InOrder(ids)) : InOrder(ids)[k] = i
<1> DEFINE n == Cardinality(ids)
           f == [i \in ids |-> Cardinality(Ahead(ids, i))]
           T == 0 .. n - 1
           place(k) == CHOOSE i \in ids : Cardinality(Ahead(ids, i)) = k - 1
           list == [k \in 1 .. n |-> place(k)]
<1>0. IsFiniteSet(ids) /\ n \in Nat /\ ids \in SUBSET Id
  BY IdsAreFinite DEF Stored
<1>1. f \in [ids -> T] /\ \A i \in ids : f[i] = Cardinality(Ahead(ids, i))
  BY PlaceType
<1>2. \A i, j \in ids : f[i] = f[j] => i = j
  BY PlacesDiffer
<1>3. IsFiniteSet(T) /\ Cardinality(T) = n
  BY <1>0, FS_Interval
<1> HIDE DEF f
<1>4. f \in Injection(ids, T)
  BY <1>1, <1>2 DEF Injection, IsInjective
<1>5. f \in Surjection(ids, T)
  BY <1>3, <1>4, FS_Injection
<1>6. \A k \in 1 .. n : \E i \in ids : Cardinality(Ahead(ids, i)) = k - 1
  <2> HIDE DEF n
  <2> TAKE k \in 1 .. n
  <2>1. k - 1 \in T
    BY <1>0
  <2> QED BY <1>1, <1>5, <2>1 DEF Surjection
<1>7. \A k \in 1 .. n : place(k) \in ids /\ Cardinality(Ahead(ids, place(k))) = k - 1
  <2> HIDE DEF n
  <2> QED BY <1>6
<1>8. InOrder(ids) = list
  BY DEF InOrder, Ahead
<1>9. list \in Seq(Id) /\ Len(list) = n /\ \A k \in 1 .. n : list[k] = place(k)
  <2> HIDE DEF n, place
  <2>1. list \in [1 .. n -> Id] /\ \A k \in 1 .. n : list[k] = place(k)
    BY <1>0, <1>7
  <2> HIDE DEF list
  <2>2. Len(list) = n
    BY <1>0, <2>1 DEF list
  <2> QED BY <1>0, <2>1, <2>2
<1>10. ASSUME NEW i \in ids PROVE \E k \in 1 .. n : list[k] = i
  <2> DEFINE k == Cardinality(Ahead(ids, i)) + 1
  <2>1. k \in 1 .. n /\ Cardinality(Ahead(ids, i)) = k - 1
    <3> HIDE DEF n
    <3> QED BY <1>0, PlaceType DEF n
  <2>2. place(k) = i
    <3> HIDE DEF k, place
    <3> QED BY <1>7, <2>1, PlacesDiffer
  <2> QED BY <1>9, <2>1, <2>2
<1> HIDE DEF list, n
<1> QED BY <1>8, <1>9, <1>10
-----------------------------------------------------------------------------
(* The inductive invariant.                                                *)

Sweeps == work[scheduler].kind = "sweep"

\* Of a sweep there is one piece at a time: the request that will queue its slice,
\* the slice on the lane, or the slice that runs.
OneSweep ==
    /\ Sweeps => sweep.running /\ ~lane
    /\ lane => sweep.running
    /\ \A r \in Request :
         /\ work[r].kind # "sweep"
         /\ work[r].kind = "save" =>
              sweep.running /\ ~lane /\ ~Sweeps /\ \A q \in Request \ {r} : work[q].kind # "save"

ToCome(w, i) == \E k \in 1 .. Len(w.ids) : w.ids[k] = i

\* What the slice set out from is done, has failed, or is still on its list.
SliceKnows ==
    Sweeps =>
      LET w == work[scheduler] IN
      /\ \A i \in w.seen :
           /\ rows[i] # NoRow /\ rows[i].serial
           /\ \/ Target(w.dir, rows[i], "pdf") \in whole
              \/ i \in sweep.failed \/ ToCome(w, i)
      /\ w.pc = "stamp" /\ w.row.serial => Target(w.dir, w.row, "pdf") \in whole

SweepInv == SweepTypes /\ OnePeriodEach /\ OneSweep /\ (~overtaken => SliceKnows)

LEMMA IdleHasNoWork == Idle \in Work /\ HasWork(Idle) /\ Idle.kind = "none" /\ Idle.pc = "idle"
<1>1. <<>> \in Seq(Id)
  OBVIOUS
<1>2. Idle \in Work
  BY <1>1 DEF Idle, Work
<1> QED BY <1>2 DEF Idle, HasWork

LEMMA SweepAtFirst == CaptureInit => SweepInv
<1> SUFFICES ASSUME CaptureInit PROVE SweepInv
  OBVIOUS
<1>1. \A t \in Capturer : work[t] = Idle
  BY DEF CaptureInit
<1>2. scheduler \in Capturer /\ Request \subseteq Capturer
  BY DEF Capturer
<1>3. SweepTypes
  <2>1. work \in [Capturer -> Work] /\ \A t \in Capturer : HasWork(work[t])
    BY <1>1, IdleHasNoWork DEF CaptureInit
  <2> QED BY <2>1 DEF CaptureInit, SweepTypes
<1>4. OnePeriodEach
  BY DEF CaptureInit, OnePeriodEach, Stored
<1>5. ~Sweeps /\ \A r \in Request : work[r].kind = "none"
  BY <1>1, <1>2, IdleHasNoWork DEF Sweeps
<1> QED BY <1>3, <1>4, <1>5 DEF SweepInv, OneSweep, SliceKnows, CaptureInit

\* Rows that only lose or gain a stamp, or go.
RowsGoOrStay ==
    /\ rows' \in [Id -> Row \cup {NoRow}]
    /\ \A i \in Id : rows'[i] # NoRow => rows[i] # NoRow /\ SamePeriod(rows'[i], rows[i])

LEMMA PeriodsStayApart ==
    ASSUME OnePeriodEach, RowsGoOrStay
    PROVE  OnePeriodEach'
BY DEF OnePeriodEach, RowsGoOrStay, Stored, SamePeriod

\* What a step of a thread does to its work, its sweep and the lane.
Follows(t, w) ==
    /\ w \in Work /\ HasWork(w) /\ work' = [work EXCEPT ![t] = w]
    /\ w = Idle \/ (w.kind = work[t].kind /\ w.pc # "queue")
    /\ sweep' \in [running : BOOLEAN, failed : SUBSET Id] /\ lane' \in BOOLEAN
    /\ work[t].kind # "sweep" => UNCHANGED <<sweep, lane>>
    /\ work[t].kind = "sweep" =>
         /\ sweep.failed \subseteq sweep'.failed
         /\ w # Idle => lane' = lane /\ sweep'.running = sweep.running
         /\ w = Idle => \/ lane' = TRUE /\ sweep'.running = sweep.running
                        \/ lane' = lane /\ ~sweep'.running

LEMMA MyWork ==
    ASSUME SweepTypes, NEW t \in Capturer
    PROVE  /\ work[t] \in Work /\ HasWork(work[t])
           /\ work[t].pc \notin {"idle", "queue"} =>
                /\ work[t].ids \in Seq(Id) /\ work[t].ids # <<>> /\ Len(work[t].ids) \in Nat \ {0}
                /\ Head(work[t].ids) \in Id /\ Head(work[t].ids) = work[t].ids[1]
                /\ Tail(work[t].ids) \in Seq(Id)
<1>1. work[t] \in Work /\ HasWork(work[t])
  BY DEF SweepTypes
<1>2. work[t].ids \in Seq(Id)
  BY <1>1 DEF Work
<1>3. \A s \in Seq(Id) : s # <<>> => /\ Head(s) \in Id /\ Head(s) = s[1] /\ Tail(s) \in Seq(Id)
                                     /\ Len(s) \in Nat \ {0}
  OBVIOUS
<1> QED BY <1>1, <1>2, <1>3 DEF HasWork

LEMMA RestFollows ==
    ASSUME SweepTypes, NEW t \in Capturer, work[t].pc \notin {"idle", "queue"},
           (GoOn(t) /\ Tail(work[t].ids) # <<>>) \/ GoHome(t)
    PROVE  \E w : /\ w \in Work /\ HasWork(w) /\ work' = [work EXCEPT ![t] = w]
                  /\ \/ w = Idle /\ GoHome(t)
                     \/ /\ GoOn(t) /\ w # Idle /\ w.kind = work[t].kind
                        /\ w.pc = "next" /\ w.ids = Tail(work[t].ids)
<1>1. CASE GoHome(t)
  BY <1>1, IdleHasNoWork DEF GoHome
<1>2. CASE GoOn(t) /\ Tail(work[t].ids) # <<>>
  <2> DEFINE w == [work[t] EXCEPT !.ids = Tail(@), !.row = NoRow, !.pc = "next"]
  <2>1. w \in Work /\ w.kind = work[t].kind /\ w.pc = "next" /\ w.ids = Tail(work[t].ids)
    BY MyWork DEF Work
  <2>2. work' = [work EXCEPT ![t] = w]
    BY <1>2 DEF GoOn
  <2> HIDE DEF w
  <2>3. HasWork(w) /\ w # Idle
    BY <1>2, <2>1, IdleHasNoWork DEF HasWork
  <2> QED BY <1>2, <2>1, <2>2, <2>3
<1> QED BY <1>1, <1>2

LEMMA AfterFollows ==
    ASSUME SweepTypes, NEW t \in Capturer, work[t].pc \notin {"idle", "queue"},
           NEW failed \in SUBSET Id, sweep.failed \subseteq failed,
           work[t].kind # "sweep" => failed = sweep.failed,
           After(t, failed)
    PROVE  /\ \E w : Follows(t, w) /\ (w = Idle \/ w.ids = Tail(work[t].ids))
           /\ sweep'.failed = failed
           /\ ~sweep'.running /\ sweep.running => Tail(work[t].ids) = <<>>
<1>1. (GoOn(t) /\ Tail(work[t].ids) # <<>>) \/ GoHome(t)
  BY DEF After
<1>2. PICK w : /\ w \in Work /\ HasWork(w) /\ work' = [work EXCEPT ![t] = w]
               /\ \/ w = Idle /\ GoHome(t)
                  \/ /\ GoOn(t) /\ w # Idle /\ w.kind = work[t].kind
                     /\ w.pc = "next" /\ w.ids = Tail(work[t].ids)
  BY <1>1, RestFollows
<1>3. sweep \in [running : BOOLEAN, failed : SUBSET Id] /\ lane \in BOOLEAN
  BY DEF SweepTypes
<1> DEFINE done == [sweep EXCEPT !.failed = failed]
<1>4. /\ done \in [running : BOOLEAN, failed : SUBSET Id]
      /\ done.failed = failed /\ done.running = sweep.running
      /\ failed = sweep.failed => done = sweep
      /\ [done EXCEPT !.running = FALSE] \in [running : BOOLEAN, failed : SUBSET Id]
      /\ [done EXCEPT !.running = FALSE].failed = failed
      /\ ~[done EXCEPT !.running = FALSE].running
  BY <1>3
<1>5. \/ Tail(work[t].ids) # <<>> /\ GoOn(t) /\ sweep' = done /\ UNCHANGED lane
      \/ work[t].kind = "sweep" /\ GoHome(t) /\ sweep' = done /\ lane' = TRUE
      \/ /\ Tail(work[t].ids) = <<>> /\ GoHome(t) /\ UNCHANGED lane
         /\ sweep' = IF work[t].kind = "sweep" THEN [done EXCEPT !.running = FALSE] ELSE done
  BY DEF After
<1> HIDE DEF done
<1>6. ~(GoOn(t) /\ GoHome(t))
  <2>1. GoHome(t) => work'[t].pc = "idle"
    BY IdleHasNoWork DEF GoHome, SweepTypes
  <2>2. GoOn(t) => work'[t].pc = "next"
    <3>1. work[t] \in Work
      BY MyWork
    <3> QED BY <3>1 DEF GoOn, SweepTypes, Work
  <2> QED BY <2>1, <2>2
<1>7. Follows(t, w)
  BY <1>2, <1>3, <1>4, <1>5, <1>6 DEF Follows
<1> QED BY <1>2, <1>4, <1>5, <1>7

LEMMA GoesFollows ==
    ASSUME CaptureInv, SweepTypes, NEW t \in Capturer, Goes(t)
    PROVE  /\ \E w : Follows(t, w)
           /\ whole \subseteq whole' /\ UNCHANGED <<folder, count, overtaken>>
           /\ RowsGoOrStay
           /\ \A i \in Id : rows[i] # NoRow => rows'[i] # NoRow /\ SamePeriod(rows'[i], rows[i])
<1>0. /\ work[t] \in Work /\ HasWork(work[t])
      /\ sweep \in [running : BOOLEAN, failed : SUBSET Id] /\ lane \in BOOLEAN
      /\ rows \in [Id -> Row \cup {NoRow}]
  BY MyWork DEF SweepTypes
<1>1. whole \subseteq whole' /\ UNCHANGED <<folder, count, overtaken>>
  BY DEF Goes, Load, Vanished, Create, Write, Stamp, Fails
<1>2. ASSUME rows' = rows
      PROVE  /\ RowsGoOrStay
             /\ \A i \in Id : rows[i] # NoRow => rows'[i] # NoRow /\ SamePeriod(rows'[i], rows[i])
  BY <1>0, <1>2 DEF RowsGoOrStay, SamePeriod
<1>3. ASSUME NEW w \in Work, HasWork(w), work' = [work EXCEPT ![t] = w],
             UNCHANGED <<sweep, lane>>, w.pc # "queue", w # Idle, w.kind = work[t].kind
      PROVE  Follows(t, w)
  BY <1>0, <1>3 DEF Follows
<1>4. CASE Load(t)
  <2> DEFINE id == Head(work[t].ids)
             w == [work[t] EXCEPT !.row = rows[id], !.pc = IF rows[id].serial THEN "render" ELSE "stamp"]
  <2>1. /\ UNCHANGED <<rows, sweep, lane>> /\ work' = [work EXCEPT ![t] = w]
        /\ work[t].ids # <<>> /\ work[t].pc = "next"
    BY <1>4 DEF Load
  <2>2. rows[id] \in Row \cup {NoRow}
    BY <1>0, <2>1, MyWork
  <2>3. /\ w \in Work /\ w.kind = work[t].kind /\ w.ids = work[t].ids
        /\ w.pc \in {"render", "stamp"}
    BY <1>0, <2>2 DEF Work
  <2> HIDE DEF w
  <2>4. HasWork(w) /\ w # Idle
    BY <2>1, <2>3, IdleHasNoWork DEF HasWork
  <2>5. Follows(t, w)
    BY <1>3, <2>1, <2>3, <2>4
  <2> QED BY <1>1, <1>2, <2>1, <2>5
<1>5. CASE Vanished(t)
  <2>1. /\ UNCHANGED <<rows, lane>> /\ work[t].pc = "next"
        /\ \/ GoOn(t) /\ Tail(work[t].ids) # <<>> /\ sweep' = sweep
           \/ GoHome(t) /\ sweep' = IF work[t].kind = "sweep" THEN Finished ELSE sweep
    <3>1. CASE Tail(work[t].ids) = <<>>
      BY <1>5, <3>1 DEF Vanished
    <3>2. CASE Tail(work[t].ids) # <<>>
      BY <1>5, <3>2 DEF Vanished
    <3> QED BY <3>1, <3>2
  <2>2. PICK w : /\ w \in Work /\ HasWork(w) /\ work' = [work EXCEPT ![t] = w]
                 /\ \/ w = Idle /\ GoHome(t)
                  \/ /\ GoOn(t) /\ w # Idle /\ w.kind = work[t].kind
                     /\ w.pc = "next" /\ w.ids = Tail(work[t].ids)
    BY <2>1, RestFollows
  <2>3. /\ Finished \in [running : BOOLEAN, failed : SUBSET Id] /\ ~Finished.running
        /\ Finished.failed = sweep.failed
    BY <1>0 DEF Finished
  <2>4. ~(GoOn(t) /\ GoHome(t))
    <3>1. GoHome(t) => work'[t].pc = "idle"
      BY IdleHasNoWork DEF GoHome, SweepTypes
    <3>2. GoOn(t) => work'[t].pc = "next"
      BY <1>0 DEF GoOn, SweepTypes, Work
    <3> QED BY <3>1, <3>2
  <2>5. Follows(t, w)
    BY <1>0, <2>1, <2>2, <2>3, <2>4 DEF Follows
  <2> QED BY <1>1, <1>2, <2>1, <2>5
<1>6. CASE Create(t)
  <2> DEFINE w == [work[t] EXCEPT !.pc = "writing"]
  <2>1. UNCHANGED <<rows, sweep, lane>> /\ work' = [work EXCEPT ![t] = w] /\ work[t].pc = "render"
    BY <1>6 DEF Create
  <2>2. w \in Work /\ w.kind = work[t].kind /\ w.ids = work[t].ids /\ w.pc = "writing"
    BY <1>0 DEF Work
  <2> HIDE DEF w
  <2>3. HasWork(w) /\ w # Idle
    BY <1>0, <2>1, <2>2, IdleHasNoWork DEF HasWork
  <2>4. Follows(t, w)
    BY <1>3, <2>1, <2>2, <2>3
  <2> QED BY <1>1, <1>2, <2>1, <2>4
<1>7. CASE Write(t)
  <2>1. UNCHANGED <<rows, sweep, lane>> /\ work[t].pc = "writing"
    BY <1>7 DEF Write
  <2>2. CASE work[t].kind = "pdf"
    <3>1. work' = [work EXCEPT ![t] = Idle]
      BY <1>7, <2>2 DEF Write
    <3>2. Follows(t, Idle)
      BY <1>0, <2>1, <2>2, <3>1, IdleHasNoWork DEF Follows
    <3> QED BY <1>1, <1>2, <2>1, <3>2
  <2>3. CASE work[t].kind # "pdf"
    <3> DEFINE w == [work[t] EXCEPT !.pc = "stamp"]
    <3>1. work' = [work EXCEPT ![t] = w]
      BY <1>7, <2>3 DEF Write
    <3>2. w \in Work /\ w.kind = work[t].kind /\ w.ids = work[t].ids /\ w.pc = "stamp"
      BY <1>0 DEF Work
    <3> HIDE DEF w
    <3>3. HasWork(w) /\ w # Idle
      BY <1>0, <2>1, <3>2, IdleHasNoWork DEF HasWork
    <3>4. Follows(t, w)
      BY <1>3, <2>1, <3>1, <3>2, <3>3
    <3> QED BY <1>1, <1>2, <2>1, <3>4
  <2> QED BY <2>2, <2>3
<1>8. CASE Stamp(t)
  <2> DEFINE id == Head(work[t].ids)
  <2>1. /\ work[t].pc = "stamp" /\ After(t, sweep.failed)
        /\ rows' = [rows EXCEPT ![id].stamped = TRUE] /\ rows[id] # NoRow
    BY <1>8 DEF Stamp
  <2>2. id \in Id
    BY <2>1, MyWork
  <2> HIDE DEF id
  <2>3. rows[id] \in Row
    BY <1>0, <2>1, <2>2
  <2> DEFINE r == [rows[id] EXCEPT !.stamped = TRUE]
  <2>4. r \in Row /\ SamePeriod(r, rows[id]) /\ rows' = [rows EXCEPT ![id] = r]
    BY <2>1, <2>3 DEF Row, SamePeriod
  <2> HIDE DEF r
  <2>5. /\ RowsGoOrStay
        /\ \A i \in Id : rows[i] # NoRow => rows'[i] # NoRow /\ SamePeriod(rows'[i], rows[i])
    <3>1. rows' \in [Id -> Row \cup {NoRow}] /\ rows'[id] = r /\ \A i \in Id : i # id => rows'[i] = rows[i]
      BY <1>0, <2>2, <2>4
    <3>2. r # NoRow
      BY <2>4, NoRowAssumption
    <3> QED BY <2>1, <2>4, <3>1, <3>2 DEF RowsGoOrStay, SamePeriod
  <2>6. \E w : Follows(t, w)
    BY <1>0, <2>1, AfterFollows
  <2> QED BY <1>1, <2>5, <2>6
<1>9. CASE Fails(t)
  <2>1. UNCHANGED rows /\ work[t].pc \in {"render", "writing", "stamp"} /\ After(t, FailedBy(t))
    BY <1>9 DEF Fails, UnderWay
  <2>2. /\ FailedBy(t) \in SUBSET Id /\ sweep.failed \subseteq FailedBy(t)
        /\ work[t].kind # "sweep" => FailedBy(t) = sweep.failed
    BY <1>0, <2>1, MyWork DEF FailedBy
  <2>3. \E w : Follows(t, w)
    BY <2>1, <2>2, AfterFollows
  <2> QED BY <1>1, <1>2, <2>1, <2>3
<1> QED BY <1>4, <1>5, <1>6, <1>7, <1>8, <1>9 DEF Goes

LEMMA RestOfList ==
    ASSUME NEW s \in Seq(Id), NEW k \in 1 .. Len(s), s[k] # s[1]
    PROVE  Tail(s) # <<>> /\ \E m \in 1 .. Len(Tail(s)) : Tail(s)[m] = s[k]
<1>1. Len(s) \in Nat /\ k \in 2 .. Len(s)
  <2>1. k # 1
    OBVIOUS
  <2> QED BY <2>1
<1>2. s # <<>>
  BY <1>1
<1>3. Len(Tail(s)) = Len(s) - 1 /\ \A m \in 1 .. Len(s) - 1 : Tail(s)[m] = s[m + 1]
  BY <1>2
<1> DEFINE m == k - 1
<1>4. m \in 1 .. Len(s) - 1 /\ m + 1 = k
  BY <1>1
<1>5. Tail(s)[m] = s[k]
  <2> HIDE DEF m
  <2> QED BY <1>3, <1>4
<1>6. Tail(s) # <<>>
  <2>1. Len(Tail(s)) # 0
    BY <1>1, <1>3
  <2>2. Len(<<>>) = 0
    OBVIOUS
  <2> QED BY <2>1, <2>2
<1> HIDE DEF m
<1> QED BY <1>3, <1>4, <1>5, <1>6

\* Of what a slice set out from nothing is lost by a step of it, unless it is the
\* last of the slice and another is queued.
LEMMA SliceStep ==
    ASSUME CaptureInv, SweepInv, Goes(scheduler), Sweeps, ~overtaken
    PROVE  LET w == work[scheduler]  v == work'[scheduler] IN
           /\ \A i \in w.seen :
                /\ rows'[i] # NoRow /\ rows'[i].serial
                /\ \/ Target(w.dir, rows'[i], "pdf") \in whole'
                   \/ i \in sweep'.failed \/ ToCome(v, i)
                   \/ v.kind # "sweep" /\ sweep'.running
           /\ v.kind = "sweep" =>
                /\ v.seen = w.seen /\ v.dir = w.dir
                /\ v.pc = "stamp" /\ v.row.serial => Target(v.dir, v.row, "pdf") \in whole'
<1> DEFINE w == work[scheduler]
           v == work'[scheduler]
<1>0. scheduler \in Capturer /\ SweepTypes /\ SliceKnows /\ w.kind = "sweep" /\ sweep.running
  BY DEF Capturer, SweepInv, Sweeps, OneSweep
<1>1. /\ w \in Work /\ w.pc \notin {"idle", "queue"}
      /\ w.ids \in Seq(Id) /\ w.ids # <<>> /\ Len(w.ids) \in Nat \ {0}
      /\ Head(w.ids) \in Id /\ Head(w.ids) = w.ids[1]
  BY <1>0, MyWork DEF HasWork
<1>2. /\ whole \subseteq whole'
      /\ \A i \in Id : rows[i] # NoRow => rows'[i] # NoRow /\ SamePeriod(rows'[i], rows[i])
      /\ sweep.failed \subseteq sweep'.failed
  BY <1>0, GoesFollows DEF Follows
<1>3. \A i \in w.seen :
        /\ i \in Id /\ rows[i] # NoRow /\ rows[i].serial
        /\ rows'[i] # NoRow /\ rows'[i].serial
        /\ Target(w.dir, rows'[i], "pdf") = Target(w.dir, rows[i], "pdf")
        /\ \/ Target(w.dir, rows'[i], "pdf") \in whole'
           \/ i \in sweep'.failed \/ ToCome(w, i)
  <2> TAKE i \in w.seen
  <2>1. i \in Id
    BY <1>1 DEF Work
  <2>2. /\ rows[i] # NoRow /\ rows[i].serial
        /\ \/ Target(w.dir, rows[i], "pdf") \in whole
           \/ i \in sweep.failed \/ ToCome(w, i)
    BY <1>0 DEF SliceKnows, Sweeps
  <2>3. rows'[i] # NoRow /\ SamePeriod(rows'[i], rows[i])
    BY <1>2, <2>1, <2>2
  <2>4. Target(w.dir, rows'[i], "pdf") = Target(w.dir, rows[i], "pdf") /\ rows'[i].serial
    BY <2>2, <2>3 DEF Target, SamePeriod
  <2> QED BY <1>2, <2>1, <2>2, <2>3, <2>4
\* Where the list stays, so does what is to come of it.
<1>4. ASSUME v.ids = w.ids, v.seen = w.seen, v.dir = w.dir,
             v.pc = "stamp" /\ v.row.serial => Target(v.dir, v.row, "pdf") \in whole'
      PROVE  /\ \A i \in w.seen :
                  /\ rows'[i] # NoRow /\ rows'[i].serial
                  /\ \/ Target(w.dir, rows'[i], "pdf") \in whole'
                     \/ i \in sweep'.failed \/ ToCome(v, i)
                     \/ v.kind # "sweep" /\ sweep'.running
             /\ v.kind = "sweep" =>
                  /\ v.seen = w.seen /\ v.dir = w.dir
                  /\ v.pc = "stamp" /\ v.row.serial => Target(v.dir, v.row, "pdf") \in whole'
  BY <1>3, <1>4 DEF ToCome
\* Where it goes on with the tail, the head is done, has failed or had vanished.
<1>5. ASSUME GoOn(scheduler) \/ GoHome(scheduler),
             GoHome(scheduler) => Tail(w.ids) = <<>> \/ sweep'.running,
             \A i \in w.seen : i = Head(w.ids) =>
                Target(w.dir, rows'[i], "pdf") \in whole' \/ i \in sweep'.failed
      PROVE  /\ \A i \in w.seen :
                  /\ rows'[i] # NoRow /\ rows'[i].serial
                  /\ \/ Target(w.dir, rows'[i], "pdf") \in whole'
                     \/ i \in sweep'.failed \/ ToCome(v, i)
                     \/ v.kind # "sweep" /\ sweep'.running
             /\ v.kind = "sweep" =>
                  /\ v.seen = w.seen /\ v.dir = w.dir
                  /\ v.pc = "stamp" /\ v.row.serial => Target(v.dir, v.row, "pdf") \in whole'
  <2>1. \/ GoHome(scheduler) /\ v.kind = "none"
        \/ /\ GoOn(scheduler) /\ v.ids = Tail(w.ids) /\ v.pc = "next" /\ v.seen = w.seen
           /\ v.dir = w.dir
    <3>1. CASE GoHome(scheduler)
      BY <1>0, <3>1, IdleHasNoWork DEF GoHome, SweepTypes
    <3>2. CASE GoOn(scheduler)
      <4>1. work' = [work EXCEPT ![scheduler] = [w EXCEPT !.ids = Tail(@), !.row = NoRow, !.pc = "next"]]
        BY <3>2 DEF GoOn
      <4>2. v = [w EXCEPT !.ids = Tail(@), !.row = NoRow, !.pc = "next"]
        <5> HIDE DEF w
        <5> QED BY <1>0, <4>1 DEF SweepTypes
      <4>3. v.ids = Tail(w.ids) /\ v.pc = "next" /\ v.seen = w.seen /\ v.dir = w.dir
        <5> HIDE DEF w, v
        <5> QED BY <1>1, <4>2 DEF Work
      <4> QED BY <3>2, <4>3
    <3> QED BY <1>5, <3>1, <3>2
  <2>2. ASSUME NEW i \in w.seen, ToCome(w, i), i # Head(w.ids)
        PROVE  Tail(w.ids) # <<>> /\ \E m \in 1 .. Len(Tail(w.ids)) : Tail(w.ids)[m] = i
    <3>1. PICK k \in 1 .. Len(w.ids) : w.ids[k] = i
      BY <2>2 DEF ToCome
    <3> HIDE DEF w
    <3> QED BY <1>1, <2>2, <3>1, RestOfList
  <2>3. ASSUME NEW i \in w.seen
        PROVE  \/ Target(w.dir, rows'[i], "pdf") \in whole'
               \/ i \in sweep'.failed \/ ToCome(v, i)
               \/ v.kind # "sweep" /\ sweep'.running
    <3>1. CASE i = Head(w.ids) \/ ~ToCome(w, i)
      BY <1>3, <1>5, <3>1
    <3>2. CASE i # Head(w.ids) /\ ToCome(w, i)
      <4>1. Tail(w.ids) # <<>> /\ \E m \in 1 .. Len(Tail(w.ids)) : Tail(w.ids)[m] = i
        BY <2>2, <3>2
      <4> HIDE DEF w, v
      <4> QED BY <1>5, <2>1, <4>1 DEF ToCome
    <3> QED BY <3>1, <3>2
  <2> HIDE DEF w, v
  <2> QED BY <1>3, <2>1, <2>3
<1>6. CASE Load(scheduler)
  <2> DEFINE id == Head(w.ids)
             x == [w EXCEPT !.row = rows[id], !.pc = IF rows[id].serial THEN "render" ELSE "stamp"]
  <2>1. v = x
    <3>1. work' = [work EXCEPT ![scheduler] = x]
      BY <1>6 DEF Load
    <3> HIDE DEF x
    <3> QED BY <1>0, <3>1 DEF SweepTypes
  <2>2. /\ v.ids = w.ids /\ v.seen = w.seen /\ v.dir = w.dir
        /\ v.row = rows[id]
        /\ v.pc = "stamp" => ~rows[id].serial
    <3> HIDE DEF w, v, id
    <3>1. CASE rows[id].serial
      BY <1>1, <2>1, <3>1 DEF Work
    <3>2. CASE ~rows[id].serial
      BY <1>1, <2>1, <3>2 DEF Work
    <3> QED BY <3>1, <3>2
  <2>3. v.ids = w.ids /\ v.seen = w.seen /\ v.dir = w.dir /\ ~(v.pc = "stamp" /\ v.row.serial)
    <3> HIDE DEF w, v, id
    <3> QED BY <2>2
  <2> HIDE DEF w, v, x, id
  <2> QED BY <1>4, <2>3 DEF w, v
<1>7. CASE Create(scheduler)
  <2>1. v = [w EXCEPT !.pc = "writing"]
    BY <1>0, <1>7 DEF Create, SweepTypes
  <2>2. v.ids = w.ids /\ v.seen = w.seen /\ v.dir = w.dir /\ v.pc = "writing"
    <3> HIDE DEF w, v
    <3> QED BY <1>1, <2>1 DEF Work
  <2> HIDE DEF w, v
  <2> QED BY <1>4, <2>2 DEF w, v
<1>8. CASE Write(scheduler)
  <2>1. v = [w EXCEPT !.pc = "stamp"] /\ whole' = whole \cup {MyPath(scheduler)}
    BY <1>0, <1>8 DEF Write, SweepTypes
  <2>2. v.ids = w.ids /\ v.seen = w.seen /\ v.dir = w.dir /\ v.row = w.row
    <3> HIDE DEF w, v
    <3> QED BY <1>1, <2>1 DEF Work
  <2>3. MyPath(scheduler) = Target(w.dir, w.row, "pdf")
    BY <1>0 DEF MyPath, Format
  <2>4. Target(v.dir, v.row, "pdf") \in whole'
    <3> HIDE DEF w, v
    <3> QED BY <2>1, <2>2, <2>3
  <2> HIDE DEF w, v
  <2> QED BY <1>4, <2>2, <2>4 DEF w, v
<1>9. CASE Vanished(scheduler)
  <2>1. rows[Head(w.ids)] = NoRow /\ (GoOn(scheduler) \/ GoHome(scheduler))
    BY <1>9 DEF Vanished
  <2>2. GoHome(scheduler) => Tail(w.ids) = <<>> \/ sweep'.running
    <3>1. CASE Tail(w.ids) = <<>>
      BY <3>1
    <3>2. CASE Tail(w.ids) # <<>>
      BY <1>0, <1>9, <3>2 DEF Vanished
    <3> QED BY <3>1, <3>2
  <2>3. \A i \in w.seen : i # Head(w.ids)
    BY <1>3, <2>1
  <2> HIDE DEF w, v
  <2> QED BY <1>5, <2>1, <2>2, <2>3 DEF w, v
<1>10. CASE Stamp(scheduler)
  <2>1. w.pc = "stamp" /\ After(scheduler, sweep.failed) /\ (GoOn(scheduler) \/ GoHome(scheduler))
    BY <1>10 DEF Stamp, After
  <2>2. sweep.failed \in SUBSET Id
    BY <1>0 DEF SweepTypes
  <2>3. ~sweep'.running => Tail(w.ids) = <<>>
    BY <1>0, <1>1, <2>1, <2>2, AfterFollows
  <2>4. rows[Head(w.ids)] # NoRow => SamePeriod(rows[Head(w.ids)], w.row)
    BY <1>0, <1>1, <2>1 DEF CaptureInv, CaptureSound, StillThere
  <2>5. \A i \in w.seen : i = Head(w.ids) => Target(w.dir, rows'[i], "pdf") \in whole'
    <3> TAKE i \in w.seen
    <3> HAVE i = Head(w.ids)
    <3>1. w.row.serial /\ Target(w.dir, rows[i], "pdf") = Target(w.dir, w.row, "pdf")
      BY <1>3, <2>4 DEF SamePeriod, Target
    <3>2. Target(w.dir, w.row, "pdf") \in whole
      BY <1>0, <2>1, <3>1 DEF SliceKnows, Sweeps
    <3> QED BY <1>2, <1>3, <3>1, <3>2
  <2> HIDE DEF w, v
  <2> QED BY <1>5, <2>1, <2>3, <2>5 DEF w, v
<1>11. CASE Fails(scheduler)
  <2>1. After(scheduler, FailedBy(scheduler)) /\ (GoOn(scheduler) \/ GoHome(scheduler))
    BY <1>11 DEF Fails, After
  <2>2. FailedBy(scheduler) = sweep.failed \cup {Head(w.ids)}
    BY <1>0 DEF FailedBy
  <2>3. FailedBy(scheduler) \in SUBSET Id /\ sweep.failed \subseteq FailedBy(scheduler)
    BY <1>0, <1>1, <2>2 DEF SweepTypes
  <2>4. sweep'.failed = FailedBy(scheduler) /\ (~sweep'.running => Tail(w.ids) = <<>>)
    BY <1>0, <1>1, <2>1, <2>3, AfterFollows
  <2>5. \A i \in w.seen : i = Head(w.ids) => i \in sweep'.failed
    BY <2>2, <2>4
  <2> HIDE DEF w, v
  <2> QED BY <1>5, <2>1, <2>4, <2>5 DEF w, v
<1> HIDE DEF w, v
<1>12. CASE Goes(scheduler)
  BY <1>6, <1>7, <1>8, <1>9, <1>10, <1>11, <1>12 DEF Goes, w, v
<1> QED BY <1>12 DEF w, v

\* A step of one thread's work.
LEMMA WorkAfter ==
    ASSUME SweepTypes, NEW t \in Capturer, NEW w \in Work, HasWork(w), work' = [work EXCEPT ![t] = w]
    PROVE  /\ work' \in [Capturer -> Work] /\ \A s \in Capturer : HasWork(work'[s])
           /\ work'[t] = w /\ \A s \in Capturer : s # t => work'[s] = work[s]
BY DEF SweepTypes

\* What a slice knows stays true while other threads go on.
LEMMA SliceKept ==
    ASSUME SweepTypes, SliceKnows, work'[scheduler] = work[scheduler], whole \subseteq whole',
           Sweeps => sweep.failed \subseteq sweep'.failed,
           \A i \in Id : rows[i] # NoRow => rows'[i] # NoRow /\ SamePeriod(rows'[i], rows[i])
    PROVE  SliceKnows'
<1> SUFFICES ASSUME Sweeps' PROVE SliceKnows'
  BY DEF SliceKnows
<1> DEFINE w == work[scheduler]
<1>1. Sweeps /\ w.seen \subseteq Id
  <2>1. Sweeps
    BY DEF Sweeps
  <2>2. w \in Work
    BY MyWork DEF Capturer
  <2> QED BY <2>1, <2>2 DEF Work
<1>2. \A i \in w.seen :
        /\ rows'[i] # NoRow /\ rows'[i].serial
        /\ \/ Target(w.dir, rows'[i], "pdf") \in whole'
           \/ i \in sweep'.failed \/ ToCome(w, i)
  <2> TAKE i \in w.seen
  <2>1. /\ rows[i] # NoRow /\ rows[i].serial
        /\ \/ Target(w.dir, rows[i], "pdf") \in whole
           \/ i \in sweep.failed \/ ToCome(w, i)
    BY <1>1 DEF SliceKnows
  <2>2. rows'[i] # NoRow /\ SamePeriod(rows'[i], rows[i])
    BY <1>1, <2>1
  <2>3. Target(w.dir, rows'[i], "pdf") = Target(w.dir, rows[i], "pdf") /\ rows'[i].serial
    BY <2>1, <2>2 DEF Target, SamePeriod
  <2> QED BY <1>1, <2>1, <2>2, <2>3
<1>3. w.pc = "stamp" /\ w.row.serial => Target(w.dir, w.row, "pdf") \in whole'
  BY <1>1 DEF SliceKnows
<1> QED BY <1>2, <1>3 DEF SliceKnows, ToCome

LEMMA SweepGoes ==
    ASSUME CaptureInv, SweepInv, NEW t \in Capturer, Goes(t)
    PROVE  SweepInv'
<1>1. PICK w : Follows(t, w)
  BY GoesFollows DEF SweepInv
<1>2. SweepTypes /\ OnePeriodEach /\ OneSweep
  BY DEF SweepInv
<1>3. /\ work' \in [Capturer -> Work] /\ \A s \in Capturer : HasWork(work'[s])
      /\ work'[t] = w /\ \A s \in Capturer : s # t => work'[s] = work[s]
  BY <1>1, <1>2, WorkAfter DEF Follows
<1>4. /\ whole \subseteq whole' /\ UNCHANGED <<folder, count, overtaken>> /\ RowsGoOrStay
      /\ \A i \in Id : rows[i] # NoRow => rows'[i] # NoRow /\ SamePeriod(rows'[i], rows[i])
  BY <1>2, GoesFollows
<1>5. SweepTypes'
  BY <1>1, <1>2, <1>3, <1>4 DEF SweepTypes, Follows, RowsGoOrStay
<1>6. OnePeriodEach'
  BY <1>2, <1>4, PeriodsStayApart
<1>7. scheduler \in Capturer /\ Request \subseteq Capturer /\ scheduler \notin Request
  BY CaptureAssumption DEF Capturer
<1>8. w.kind \in {"none", work[t].kind}
  BY <1>1, IdleHasNoWork DEF Follows
<1>9. CASE t = scheduler
  <2>0. \A r \in Request : work'[r] = work[r]
    BY <1>3, <1>7, <1>9
  <2>1. CASE Sweeps
    <3>1. sweep.running /\ ~lane /\ \A r \in Request : work'[r].kind \notin {"sweep", "save"}
      BY <1>2, <2>0, <2>1 DEF OneSweep
    <3>2. OneSweep'
      <4>1. CASE w = Idle
        <5>1. ~Sweeps' /\ (lane' => sweep'.running)
          BY <1>1, <1>3, <1>9, <2>1, <3>1, <4>1, IdleHasNoWork DEF Follows, Sweeps
        <5> QED BY <3>1, <5>1 DEF OneSweep
      <4>2. CASE w # Idle
        <5>1. lane' = lane /\ sweep'.running = sweep.running
          BY <1>1, <1>9, <2>1, <4>2 DEF Follows, Sweeps
        <5> QED BY <3>1, <5>1 DEF OneSweep
      <4> QED BY <4>1, <4>2
    <3>3. ~overtaken' => SliceKnows'
      <4> SUFFICES ASSUME ~overtaken', Sweeps' PROVE SliceKnows'
        BY DEF SliceKnows
      <4>1. ~overtaken
        BY <1>4
      <4> DEFINE x == work[scheduler]  v == work'[scheduler]
      <4>2. /\ \A i \in x.seen :
                 /\ rows'[i] # NoRow /\ rows'[i].serial
                 /\ \/ Target(x.dir, rows'[i], "pdf") \in whole'
                    \/ i \in sweep'.failed \/ ToCome(v, i)
            /\ v.seen = x.seen /\ v.dir = x.dir
            /\ v.pc = "stamp" /\ v.row.serial => Target(v.dir, v.row, "pdf") \in whole'
        <5>1. v.kind = "sweep"
          BY DEF Sweeps
        <5> QED BY <1>9, <2>1, <4>1, <5>1, SliceStep
      <4> HIDE DEF x
      <4> QED BY <4>2 DEF SliceKnows, ToCome
    <3> QED BY <1>5, <1>6, <3>2, <3>3 DEF SweepInv
  <2>2. CASE ~Sweeps
    <3>1. ~Sweeps' /\ UNCHANGED <<sweep, lane>>
      BY <1>1, <1>3, <1>8, <1>9, <2>2 DEF Follows, Sweeps
    <3> QED BY <1>2, <1>5, <1>6, <2>0, <2>2, <3>1 DEF SweepInv, OneSweep, SliceKnows
  <2> QED BY <2>1, <2>2
<1>10. CASE t # scheduler
  <2>1. t \in Request /\ work[t].kind # "sweep" /\ UNCHANGED <<sweep, lane>>
    BY <1>1, <1>2, <1>10 DEF Capturer, OneSweep, Follows
  <2>2. work'[scheduler] = work[scheduler]
    BY <1>3, <1>7, <1>10
  <2>3. \A r \in Request : work'[r].kind \in {"none", work[r].kind}
    BY <1>3, <1>7, <1>8
  <2>4. OneSweep'
    BY <1>2, <2>1, <2>2, <2>3 DEF OneSweep, Sweeps
  <2>5. ~overtaken' => SliceKnows'
    BY <1>2, <1>4, <2>1, <2>2, SliceKept DEF SweepInv
  <2> QED BY <1>5, <1>6, <2>4, <2>5 DEF SweepInv
<1> QED BY <1>9, <1>10

LEMMA SweepReads ==
    ASSUME SweepInv, NEW t \in Capturer, NEW d \in Device, ReadStores(t, d)
    PROVE  SweepInv'
<1>0. SweepTypes /\ OnePeriodEach /\ OneSweep /\ rows \in [Id -> Row \cup {NoRow}]
  BY DEF SweepInv, SweepTypes
<1> DEFINE id == NextId
<1>1. id \in Id /\ id \notin Stored
  <2>1. MaxId \in Nat /\ id <= MaxId
    BY CaptureAssumption DEF ReadStores
  <2>2. id \in Nat \ {0} /\ id \notin Stored
    BY <2>1, NextIdIsFree
  <2> HIDE DEF id
  <2> QED BY <2>1, <2>2 DEF Id
<1> HIDE DEF id
<1>2. PICK bill \in Bill, serial \in BOOLEAN, licensed \in BOOLEAN :
        /\ \A i \in Stored : rows[i].device = d => rows[i].bill < bill
        /\ rows' = [rows EXCEPT ![id] = [device |-> d, bill |-> bill, serial |-> serial,
                                         stamped |-> FALSE]]
        /\ work' = [work EXCEPT ![t] =
                      IF licensed /\ folder # NoFolder
                      THEN [Idle EXCEPT !.kind = "eager", !.pc = "next",
                                        !.ids = <<id>>, !.dir = folder]
                      ELSE Idle]
  BY DEF ReadStores, id
<1>3. work[t] = Idle /\ UNCHANGED <<whole, folder, sweep, lane, count, overtaken>>
  BY DEF ReadStores
<1> DEFINE w == IF licensed /\ folder # NoFolder
                THEN [Idle EXCEPT !.kind = "eager", !.pc = "next", !.ids = <<id>>, !.dir = folder]
                ELSE Idle
           r == [device |-> d, bill |-> bill, serial |-> serial, stamped |-> FALSE]
<1>4. w \in Work /\ HasWork(w) /\ w.kind \in {"none", "eager"}
  <2>1. CASE licensed /\ folder # NoFolder
    <3>1. w = [Idle EXCEPT !.kind = "eager", !.pc = "next", !.ids = <<id>>, !.dir = folder]
      BY <2>1
    <3>2. <<id>> \in Seq(Id) /\ <<id>> # <<>> /\ folder \in Folder \cup {NoFolder}
      BY <1>0, <1>1 DEF SweepTypes
    <3>3. w.kind = "eager" /\ w.pc = "next" /\ w.ids = <<id>> /\ w \in Work
      <4> HIDE DEF w
      <4> QED BY <3>1, <3>2 DEF Idle, Work
    <3> HIDE DEF w
    <3> QED BY <3>2, <3>3 DEF HasWork
  <2>2. CASE ~(licensed /\ folder # NoFolder)
    BY <2>2, IdleHasNoWork
  <2> QED BY <2>1, <2>2
<1>5. r \in Row /\ r.device = d /\ r.bill = bill
  BY DEF Row
<1>6. work' = [work EXCEPT ![t] = w] /\ rows' = [rows EXCEPT ![id] = r]
  BY <1>2
<1> HIDE DEF w, r
<1>7. /\ work' \in [Capturer -> Work] /\ \A s \in Capturer : HasWork(work'[s])
      /\ work'[t] = w /\ \A s \in Capturer : s # t => work'[s] = work[s]
  BY <1>0, <1>4, <1>6, WorkAfter
<1>8. /\ rows' \in [Id -> Row \cup {NoRow}] /\ rows'[id] = r
      /\ \A i \in Id : i # id => rows'[i] = rows[i]
  BY <1>0, <1>1, <1>5, <1>6
<1>9. SweepTypes'
  BY <1>0, <1>3, <1>7, <1>8 DEF SweepTypes
<1>10. OnePeriodEach'
  <2>1. SUFFICES ASSUME NEW i \in Id, NEW j \in Id, rows'[i] # NoRow, rows'[j] # NoRow,
                        rows'[i].device = rows'[j].device, rows'[i].bill = rows'[j].bill, i # j
                 PROVE  FALSE
    BY DEF OnePeriodEach, Stored
  <2>2. ASSUME NEW k \in Id, k # id, rows'[k] # NoRow, rows'[k].device = d, rows'[k].bill = bill
        PROVE  FALSE
    <3>1. k \in Stored /\ rows[k].device = d /\ rows[k].bill = bill
      BY <1>8, <2>2 DEF Stored
    <3>2. bill < bill /\ bill \in Nat
      BY <1>2, <3>1, CaptureAssumption DEF Bill
    <3> QED BY <3>2
  <2>3. i # id /\ j # id
    BY <1>5, <1>8, <2>1, <2>2
  <2>4. i \in Stored /\ j \in Stored /\ rows'[i] = rows[i] /\ rows'[j] = rows[j]
    BY <1>8, <2>1, <2>3 DEF Stored
  <2> QED BY <1>0, <2>1, <2>4 DEF OnePeriodEach
<1>11. scheduler \in Capturer /\ Request \subseteq Capturer /\ scheduler \notin Request
  BY CaptureAssumption DEF Capturer
<1>12. \A s \in Capturer : work'[s].kind = work[s].kind \/ work'[s].kind \in {"none", "eager"}
  BY <1>4, <1>7
<1>13. OneSweep'
  BY <1>0, <1>3, <1>11, <1>12 DEF OneSweep, Sweeps
<1>14. ~overtaken' => SliceKnows'
  <2> SUFFICES ASSUME ~overtaken', Sweeps' PROVE SliceKnows'
    BY DEF SliceKnows
  <2>1. work'[scheduler] = work[scheduler]
    BY <1>4, <1>7, <1>11 DEF Sweeps
  <2>2. \A i \in Id : rows[i] # NoRow => rows'[i] # NoRow /\ SamePeriod(rows'[i], rows[i])
    BY <1>1, <1>8 DEF Stored, SamePeriod
  <2> QED BY <1>0, <1>3, <2>1, <2>2, SliceKept DEF SweepInv
<1> QED BY <1>9, <1>10, <1>13, <1>14 DEF SweepInv

LEMMA SweepDownloads ==
    ASSUME SweepInv, NEW r \in Request, NEW i \in Id, Download(r, i)
    PROVE  SweepInv'
<1>0. SweepTypes /\ OnePeriodEach /\ OneSweep
  BY DEF SweepInv
<1>1. PICK kind \in {"pdf", "image"} :
         work' = [work EXCEPT ![r] = [Idle EXCEPT !.kind = kind, !.pc = "render",
                                        !.ids = <<i>>, !.row = rows[i], !.dir = folder]]
  BY DEF Download
<1>2. UNCHANGED <<rows, whole, folder, sweep, lane, count, overtaken>> /\ r \in Capturer
  BY DEF Download, Capturer
<1> DEFINE w == [Idle EXCEPT !.kind = kind, !.pc = "render", !.ids = <<i>>, !.row = rows[i], !.dir = folder]
<1>3. w.kind = kind /\ w.pc = "render" /\ w.ids = <<i>> /\ w \in Work
  <2>1. <<i>> \in Seq(Id) /\ folder \in Folder \cup {NoFolder} /\ rows[i] \in Row \cup {NoRow}
    BY <1>0 DEF SweepTypes
  <2> QED BY <2>1 DEF Idle, Work
<1>4. work' = [work EXCEPT ![r] = w]
  BY <1>1
<1> HIDE DEF w
<1>5. HasWork(w)
  BY <1>3 DEF HasWork
<1>6. /\ work' \in [Capturer -> Work] /\ \A s \in Capturer : HasWork(work'[s])
      /\ work'[r] = w /\ \A s \in Capturer : s # r => work'[s] = work[s]
  BY <1>0, <1>2, <1>3, <1>4, <1>5, WorkAfter
<1>7. SweepTypes' /\ OnePeriodEach'
  BY <1>0, <1>2, <1>6 DEF SweepTypes, OnePeriodEach, Stored
<1>8. work'[scheduler] = work[scheduler]
  BY <1>6, CaptureAssumption DEF Capturer
<1>9. \A q \in Request : work'[q].kind = work[q].kind \/ work'[q].kind \in {"pdf", "image"}
  BY <1>3, <1>6 DEF Capturer
<1>10. OneSweep'
  BY <1>0, <1>2, <1>8, <1>9 DEF OneSweep, Sweeps
<1>11. ~overtaken' => SliceKnows'
  BY <1>0, <1>2, <1>8, SliceKept DEF SweepInv, SamePeriod
<1> QED BY <1>7, <1>10, <1>11 DEF SweepInv

LEMMA SweepRequested ==
    ASSUME SweepInv, NEW r \in Request, start_capture_sweep(r) \/ QueueFirstSlice(r)
    PROVE  SweepInv'
<1>0. SweepTypes /\ OnePeriodEach /\ OneSweep /\ r \in Capturer
  BY DEF SweepInv, Capturer
<1>1. UNCHANGED <<rows, whole, folder, count, overtaken>>
  BY DEF start_capture_sweep, QueueFirstSlice
<1> DEFINE v == [Idle EXCEPT !.kind = "save", !.pc = "queue"]
<1>2. v \in Work /\ HasWork(v) /\ v.kind = "save"
  <2>1. v.kind = "save" /\ v.pc = "queue" /\ v \in Work
    <3>1. <<>> \in Seq(Id)
      OBVIOUS
    <3> QED BY <3>1 DEF Idle, Work
  <2> HIDE DEF v
  <2> QED BY <2>1 DEF HasWork
<1>3. CASE start_capture_sweep(r)
  <2>1. ~sweep.running /\ sweep' = [running |-> TRUE, failed |-> {}] /\ lane' = lane
        /\ work' = [work EXCEPT ![r] = v]
    BY <1>3 DEF start_capture_sweep
  <2> HIDE DEF v
  <2>2. /\ work' \in [Capturer -> Work] /\ \A s \in Capturer : HasWork(work'[s])
        /\ work'[r] = v /\ \A s \in Capturer : s # r => work'[s] = work[s]
    BY <1>0, <1>2, <2>1, WorkAfter
  <2>3. SweepTypes' /\ OnePeriodEach'
    BY <1>0, <1>1, <2>1, <2>2 DEF SweepTypes, OnePeriodEach, Stored
  <2>4. ~Sweeps /\ ~lane /\ \A q \in Request : work[q].kind \notin {"sweep", "save"}
    BY <1>0, <2>1 DEF OneSweep
  <2>5. ~Sweeps'
    BY <2>2, <2>4, CaptureAssumption DEF Sweeps, Capturer
  <2>6. \A q \in Request \ {r} : work'[q] = work[q]
    BY <2>2 DEF Capturer
  <2>7. OneSweep'
    BY <1>2, <2>1, <2>2, <2>4, <2>5, <2>6 DEF OneSweep
  <2> QED BY <2>3, <2>5, <2>7 DEF SweepInv, SliceKnows
<1>4. CASE QueueFirstSlice(r)
  <2>1. work[r].pc = "queue" /\ lane' = TRUE /\ sweep' = sweep /\ work' = [work EXCEPT ![r] = Idle]
    BY <1>4 DEF QueueFirstSlice
  <2>2. /\ work' \in [Capturer -> Work] /\ \A s \in Capturer : HasWork(work'[s])
        /\ work'[r] = Idle /\ \A s \in Capturer : s # r => work'[s] = work[s]
    BY <1>0, <2>1, WorkAfter, IdleHasNoWork
  <2>3. SweepTypes' /\ OnePeriodEach'
    BY <1>0, <1>1, <2>1, <2>2 DEF SweepTypes, OnePeriodEach, Stored
  <2>4. work[r].kind = "save"
    BY <1>0, <2>1, MyWork DEF HasWork
  <2>5. sweep.running /\ ~Sweeps /\ \A q \in Request \ {r} : work[q].kind \notin {"sweep", "save"}
    BY <1>0, <2>4 DEF OneSweep
  <2>6. \A q \in Request : work'[q].kind \notin {"sweep", "save"}
    BY <2>2, <2>5, IdleHasNoWork DEF Capturer
  <2>7. ~Sweeps'
    BY <2>2, <2>5, CaptureAssumption DEF Sweeps, Capturer
  <2>8. OneSweep'
    BY <2>1, <2>5, <2>6, <2>7 DEF OneSweep
  <2> QED BY <2>3, <2>7, <2>8 DEF SweepInv, SliceKnows
<1> QED BY <1>3, <1>4

\* A slice lists what is missing; what it does not list has its document or has failed.
LEMMA SweepBegins ==
    ASSUME SweepInv, BeginSlice
    PROVE  SweepInv'
<1>0. /\ SweepTypes /\ OnePeriodEach /\ OneSweep /\ scheduler \in Capturer
      /\ rows \in [Id -> Row \cup {NoRow}] /\ sweep \in [running : BOOLEAN, failed : SUBSET Id]
  BY DEF SweepInv, Capturer, SweepTypes
<1> DEFINE targets == InOrder(Missing(folder))
           w == [Idle EXCEPT !.kind = "sweep", !.pc = "next", !.ids = targets,
                             !.dir = folder, !.seen = {i \in Stored : rows[i].serial}]
<1>1. /\ work[scheduler] = Idle /\ lane /\ ~lane' /\ lane' \in BOOLEAN
      /\ rows' = Healed(folder) /\ UNCHANGED <<whole, folder, count>>
      /\ overtaken' = (overtaken \/ \E i \in Stored : Target(folder, rows[i], "pdf") \in torn)
      /\ \/ sweep' = Finished /\ work' = work
         \/ targets # <<>> /\ work' = [work EXCEPT ![scheduler] = w] /\ sweep' = sweep
  BY DEF BeginSlice
<1>2. sweep.running /\ ~Sweeps /\ \A r \in Request : work[r].kind \notin {"sweep", "save"}
  BY <1>0, <1>1, IdleHasNoWork DEF OneSweep, Sweeps
<1>3. ASSUME NEW i \in Id
      PROVE  /\ rows'[i] \in Row \cup {NoRow}
             /\ rows[i] = NoRow => rows'[i] = NoRow
             /\ rows[i] # NoRow => rows'[i] # NoRow /\ SamePeriod(rows'[i], rows[i])
  <2>1. rows'[i] = rows[i] \/ (i \in Stored /\ rows'[i] = [rows[i] EXCEPT !.stamped = TRUE])
    BY <1>1 DEF Healed
  <2>2. CASE rows'[i] = rows[i]
    BY <1>0, <2>2 DEF SamePeriod
  <2>3. CASE i \in Stored /\ rows'[i] = [rows[i] EXCEPT !.stamped = TRUE]
    <3>1. rows[i] \in Row /\ rows[i] # NoRow
      BY <1>0, <2>3 DEF Stored
    <3>2. rows'[i] \in Row /\ SamePeriod(rows'[i], rows[i])
      BY <2>3, <3>1 DEF Row, SamePeriod
    <3> QED BY <3>1, <3>2, NoRowAssumption
  <2> QED BY <2>1, <2>2, <2>3
<1>4. RowsGoOrStay
  <2>1. DOMAIN rows' = Id /\ rows' = [i \in Id |-> rows'[i]]
    BY <1>1 DEF Healed
  <2> QED BY <1>3, <2>1 DEF RowsGoOrStay
<1>5. OnePeriodEach'
  BY <1>0, <1>4, PeriodsStayApart
<1>6. Missing(folder) \in SUBSET Stored
  BY DEF Missing
<1>7. targets \in Seq(Id) /\ \A i \in Missing(folder) : \E k \in 1 .. Len(targets) : targets[k] = i
  BY <1>0, <1>6, ListIsComplete
<1> HIDE DEF targets
<1>8. CASE sweep' = Finished /\ work' = work
  <2>1. Finished \in [running : BOOLEAN, failed : SUBSET Id] /\ ~Sweeps'
    BY <1>0, <1>2, <1>8 DEF Finished, Sweeps
  <2>2. SweepTypes'
    BY <1>0, <1>1, <1>4, <1>8, <2>1 DEF SweepTypes, RowsGoOrStay
  <2>3. OneSweep'
    BY <1>1, <1>2, <1>8, <2>1 DEF OneSweep
  <2> QED BY <1>5, <2>1, <2>2, <2>3 DEF SweepInv, SliceKnows
<1>9. CASE targets # <<>> /\ work' = [work EXCEPT ![scheduler] = w] /\ sweep' = sweep
  <2>1. /\ w \in Work /\ w.kind = "sweep" /\ w.pc = "next" /\ w.ids = targets /\ w.dir = folder
        /\ w.seen = {i \in Stored : rows[i].serial}
    <3>1. folder \in Folder \cup {NoFolder} /\ {i \in Stored : rows[i].serial} \in SUBSET Id
      BY <1>0 DEF SweepTypes, Stored
    <3> QED BY <1>7, <3>1 DEF Idle, Work
  <2> HIDE DEF w
  <2>2. HasWork(w)
    BY <1>9, <2>1 DEF HasWork
  <2>3. /\ work' \in [Capturer -> Work] /\ \A s \in Capturer : HasWork(work'[s])
        /\ work'[scheduler] = w /\ \A s \in Capturer : s # scheduler => work'[s] = work[s]
    BY <1>0, <1>9, <2>1, <2>2, WorkAfter
  <2>4. SweepTypes'
    BY <1>0, <1>1, <1>4, <1>9, <2>3 DEF SweepTypes, RowsGoOrStay
  <2>5. \A r \in Request : work'[r] = work[r]
    BY <2>3, CaptureAssumption DEF Capturer
  <2>6. OneSweep'
    BY <1>1, <1>2, <1>9, <2>1, <2>3, <2>5 DEF OneSweep, Sweeps
  <2>7. ASSUME ~overtaken', NEW i \in w.seen
        PROVE  /\ rows'[i] # NoRow /\ rows'[i].serial
               /\ \/ Target(w.dir, rows'[i], "pdf") \in whole'
                  \/ i \in sweep'.failed \/ ToCome(w, i)
    <3>1. i \in Id /\ i \in Stored /\ rows[i] # NoRow /\ rows[i].serial
      BY <2>1 DEF Stored
    <3>2. rows'[i] # NoRow /\ SamePeriod(rows'[i], rows[i])
      BY <1>3, <3>1
    <3>3. rows'[i].serial /\ Target(w.dir, rows'[i], "pdf") = Target(folder, rows[i], "pdf")
      BY <2>1, <3>1, <3>2 DEF SamePeriod, Target
    <3>4. Target(folder, rows[i], "pdf") \notin torn
      BY <1>1, <2>7, <3>1
    <3>5. CASE i \in sweep.failed
      BY <1>9, <3>2, <3>3, <3>5
    <3>6. CASE Exists(Target(folder, rows[i], "pdf"))
      BY <1>1, <3>2, <3>3, <3>4, <3>6 DEF Exists
    <3>7. CASE i \in Missing(folder)
      BY <1>7, <2>1, <3>2, <3>3, <3>7 DEF ToCome
    <3> QED BY <3>1, <3>5, <3>6, <3>7 DEF Missing
  <2>8. ~overtaken' => SliceKnows'
    BY <2>1, <2>3, <2>7 DEF SliceKnows, ToCome
  <2> QED BY <1>5, <2>4, <2>6, <2>8 DEF SweepInv
<1> QED BY <1>1, <1>8, <1>9

LEMMA SweepCleared ==
    ASSUME SweepInv, NEW d \in Device, clear_readings(d)
    PROVE  SweepInv'
<1>0. SweepTypes /\ OnePeriodEach /\ OneSweep /\ rows \in [Id -> Row \cup {NoRow}]
  BY DEF SweepInv, SweepTypes
<1>1. /\ rows' = [i \in Id |-> IF i \in Stored /\ rows[i].device = d THEN NoRow ELSE rows[i]]
      /\ overtaken' = (overtaken \/ \E t \in Capturer : work[t].ids # <<>>)
      /\ UNCHANGED <<whole, folder, work, sweep, lane>>
      /\ count' = [count EXCEPT !.clears = @ + 1]
  BY DEF clear_readings
<1>2. RowsGoOrStay
  BY <1>0, <1>1 DEF RowsGoOrStay, SamePeriod
<1>3. count' \in [clears : Nat, stops : Nat, restarts : Nat, folders : Nat]
  BY <1>0, <1>1 DEF SweepTypes
<1>4. SweepTypes' /\ OnePeriodEach'
  BY <1>0, <1>1, <1>2, <1>3, PeriodsStayApart DEF SweepTypes, RowsGoOrStay
<1>5. OneSweep'
  BY <1>0, <1>1 DEF OneSweep, Sweeps
<1>6. Sweeps' => overtaken'
  <2>1. scheduler \in Capturer /\ HasWork(work[scheduler])
    BY <1>0 DEF SweepTypes, Capturer
  <2> QED BY <1>1, <2>1 DEF Sweeps, HasWork
<1> QED BY <1>4, <1>5, <1>6 DEF SweepInv, SliceKnows

\* What leaves rows, files and captures alone.
LEMMA SweepLeftAlone ==
    ASSUME SweepInv, UNCHANGED <<rows, whole, work, overtaken>>,
           lane' \in {lane, FALSE}, folder' \in Folder \cup {NoFolder},
           count' \in [clears : Nat, stops : Nat, restarts : Nat, folders : Nat],
           sweep' = sweep \/ (~Sweeps /\ lane /\ ~lane' /\ sweep' = Finished)
    PROVE  SweepInv'
<1>0. SweepTypes /\ OnePeriodEach /\ OneSweep
  BY DEF SweepInv
<1>1. sweep' \in [running : BOOLEAN, failed : SUBSET Id]
  BY <1>0 DEF SweepTypes, Finished
<1>2. SweepTypes' /\ OnePeriodEach'
  BY <1>0, <1>1 DEF SweepTypes, OnePeriodEach, Stored
<1>3. OneSweep'
  <2>0. (lane' => lane) /\ work' = work /\ (Sweeps' <=> Sweeps)
    <3>1. CASE lane' = lane
      BY <3>1 DEF Sweeps
    <3>2. CASE lane' = FALSE
      BY <3>2 DEF Sweeps
    <3> QED BY <3>1, <3>2
  <2>1. CASE sweep' = sweep
    BY <1>0, <2>0, <2>1 DEF OneSweep
  <2>2. CASE ~Sweeps /\ lane /\ ~lane'
    BY <1>0, <2>0, <2>2 DEF OneSweep
  <2> QED BY <2>1, <2>2
<1>4. ~overtaken' => SliceKnows'
  <2>1. CASE sweep' = sweep
    BY <1>0, <2>1, SliceKept DEF SweepInv, SamePeriod
  <2>2. CASE ~Sweeps
    BY <2>2 DEF SliceKnows, Sweeps
  <2> QED BY <2>1, <2>2
<1> QED BY <1>2, <1>3, <1>4 DEF SweepInv

LEMMA SweepAfterAnyStep ==
    ASSUME CaptureInv, SweepInv, [CaptureNext]_captureVars
    PROVE  SweepInv'
<1>0. /\ folder \in Folder \cup {NoFolder} /\ lane \in BOOLEAN
      /\ count \in [clears : Nat, stops : Nat, restarts : Nat, folders : Nat]
  BY DEF SweepInv, SweepTypes
<1>1. ASSUME NEW t \in Capturer, Goes(t) PROVE SweepInv'
  BY <1>1, SweepGoes
<1>2. ASSUME NEW t \in Capturer, NEW d \in Device, ReadStores(t, d) PROVE SweepInv'
  BY <1>2, SweepReads
<1>3. ASSUME NEW r \in Request, start_capture_sweep(r) \/ QueueFirstSlice(r) PROVE SweepInv'
  BY <1>3, SweepRequested
<1>4. ASSUME NEW r \in Request, NEW i \in Id, Download(r, i) PROVE SweepInv'
  BY <1>4, SweepDownloads
<1>5. CASE BeginSlice
  BY <1>5, SweepBegins
<1>6. CASE SliceEndsEarly
  <2>1. ~Sweeps
    BY <1>6, IdleHasNoWork DEF SliceEndsEarly, Sweeps
  <2> QED BY <1>0, <1>6, <2>1, SweepLeftAlone DEF SliceEndsEarly
<1>7. ASSUME NEW d \in Device, clear_readings(d) PROVE SweepInv'
  BY <1>7, SweepCleared
<1>8. ASSUME NEW dir \in Folder \cup {NoFolder}, put_billing_settings(dir) PROVE SweepInv'
  <2>1. count' \in [clears : Nat, stops : Nat, restarts : Nat, folders : Nat]
    BY <1>0, <1>8 DEF put_billing_settings
  <2> QED BY <1>8, <2>1, SweepLeftAlone DEF put_billing_settings
<1>9. CASE SchedulerStops
  <2>1. count' \in [clears : Nat, stops : Nat, restarts : Nat, folders : Nat]
    BY <1>0, <1>9 DEF SchedulerStops
  <2> QED BY <1>0, <1>9, <2>1, SweepLeftAlone DEF SchedulerStops
<1>10. CASE SchedulerStarts \/ UNCHANGED captureVars
  BY <1>0, <1>10, SweepLeftAlone DEF SchedulerStarts, captureVars
<1>11. CASE Restart
  <2>1. /\ work' = [t \in Capturer |-> Idle] /\ sweep' = [running |-> FALSE, failed |-> {}]
        /\ lane' = FALSE /\ UNCHANGED <<rows, folder>> /\ count' = [count EXCEPT !.restarts = @ + 1]
    BY <1>11 DEF Restart
  <2>2. \A t \in Capturer : work'[t] = Idle
    BY <2>1
  <2>3. SweepTypes'
    <3>1. work' \in [Capturer -> Work] /\ \A t \in Capturer : HasWork(work'[t])
      BY <2>1, <2>2, IdleHasNoWork
    <3>2. count' \in [clears : Nat, stops : Nat, restarts : Nat, folders : Nat]
      BY <1>0, <2>1
    <3>3. sweep' \in [running : BOOLEAN, failed : SUBSET Id]
      BY <2>1
    <3> QED BY <2>1, <3>1, <3>2, <3>3 DEF SweepInv, SweepTypes
  <2>4. OnePeriodEach'
    BY <2>1 DEF SweepInv, OnePeriodEach, Stored
  <2>5. ~Sweeps' /\ \A r \in Request : work'[r].kind = "none"
    BY <2>2, IdleHasNoWork DEF Sweeps, Capturer
  <2>6. OneSweep'
    BY <2>1, <2>5 DEF OneSweep
  <2> QED BY <2>3, <2>4, <2>5, <2>6 DEF SweepInv, SliceKnows
<1> QED BY <1>1, <1>2, <1>3, <1>4, <1>5, <1>6, <1>7, <1>8, <1>9, <1>10, <1>11 DEF CaptureNext

\* Only a step of the slice itself ends the sweep while it runs.
LEMMA SweepEnds ==
    ASSUME CaptureInv, SweepInv, [CaptureNext]_captureVars,
           Sweeps, sweep.running, ~sweep'.running, count'.restarts = count.restarts, ~overtaken',
           NEW i \in work[scheduler].seen
    PROVE  \/ Target(work[scheduler].dir, rows'[i], "pdf") \in whole' \cup torn'
           \/ i \in sweep'.failed
<1>0. SweepTypes /\ OneSweep /\ scheduler \in Capturer /\ work[scheduler].kind # "none"
  BY DEF SweepInv, Capturer, Sweeps
<1>1. Goes(scheduler)
  <2>1. ASSUME NEW t \in Request, Goes(t) PROVE FALSE
    <3>1. t \in Capturer /\ work[t].kind # "sweep"
      BY <1>0 DEF OneSweep, Capturer
    <3>2. sweep' = sweep
      BY <1>0, <2>1, <3>1, GoesFollows DEF Follows
    <3> QED BY <3>2
  <2>2. ASSUME sweep' = sweep PROVE FALSE
    BY <2>2
  <2>3. ~lane
    BY <1>0 DEF OneSweep
  <2>4. ~Restart
    <3>1. ASSUME Restart PROVE FALSE
      <4>1. count.restarts \in Nat /\ count'.restarts = count.restarts + 1
        BY <1>0, <3>1 DEF Restart, SweepTypes
      <4> QED BY <4>1
    <3> QED BY <3>1
  <2>5. \A r \in Request : ~start_capture_sweep(r)
    BY DEF start_capture_sweep
  <2> QED BY <2>1, <2>2, <2>3, <2>4, <2>5
          DEF CaptureNext, captureVars, Capturer, ReadStores, QueueFirstSlice, Download, BeginSlice,
              SliceEndsEarly, clear_readings, put_billing_settings, SchedulerStops, SchedulerStarts
<1>2. ~overtaken
  BY <1>0, <1>1, GoesFollows
<1>3. work'[scheduler].kind # "sweep"
  <2>1. PICK w : Follows(scheduler, w)
    BY <1>0, <1>1, GoesFollows
  <2>2. w = Idle
    BY <2>1 DEF Follows, Sweeps
  <2>3. work'[scheduler] = Idle
    BY <1>0, <2>1, <2>2 DEF Follows, SweepTypes
  <2> QED BY <2>3, IdleHasNoWork
<1> DEFINE x == work[scheduler]  v == work'[scheduler]
<1>4. \/ Target(x.dir, rows'[i], "pdf") \in whole'
      \/ i \in sweep'.failed \/ ToCome(v, i)
      \/ v.kind # "sweep" /\ sweep'.running
  BY <1>1, <1>2, SliceStep
<1>5. ~ToCome(v, i)
  <2>1. v = Idle
    <3>1. PICK w : Follows(scheduler, w)
      BY <1>0, <1>1, GoesFollows
    <3>2. w = Idle
      BY <3>1 DEF Follows, Sweeps
    <3> QED BY <1>0, <3>1, <3>2 DEF Follows, SweepTypes
  <2>2. Idle.ids = <<>>
    BY DEF Idle
  <2> QED BY <2>1, <2>2 DEF ToCome
<1> QED BY <1>4, <1>5

(* A sweep that captures to the end leaves no period without a document    *)
(* but those that failed in it, for any number of meters, periods, slices  *)
(* and threads: none that a slice set out from is forgotten between        *)
(* slices, or behind a row that vanished.                                  *)
THEOREM SweepIsComplete == CaptureSpec => SweepLeavesNothing
<1>1. NoRow \notin Row /\ MaxId \in Nat
  BY CaptureAssumption, NoRowAssumption
<1>2. CaptureInit => CaptureInv /\ SweepInv
  BY InvAtFirst, SweepAtFirst
<1>3. CaptureInv /\ SweepInv /\ [CaptureNext]_captureVars => (CaptureInv /\ SweepInv)'
  BY <1>1, InvAfterAnyStep, SweepAfterAnyStep
<1>4. CaptureInv /\ SweepInv /\ [CaptureNext]_captureVars =>
        [LET my == work[scheduler] IN
         my.kind = "sweep" /\ sweep.running /\ ~sweep'.running /\ count'.restarts = count.restarts
           => \A i \in my.seen : rows'[i] # NoRow /\ rows'[i].serial =>
                \/ Target(my.dir, rows'[i], "pdf") \in whole' \cup torn'
                \/ i \in sweep'.failed \/ overtaken']_captureVars
  BY SweepEnds DEF Sweeps
<1> QED BY <1>2, <1>3, <1>4, PTL DEF CaptureSpec, SweepLeavesNothing
=============================================================================
