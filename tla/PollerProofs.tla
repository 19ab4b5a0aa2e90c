---------------------------- MODULE PollerProofs ----------------------------
(***************************************************************************)
(* Proofs about the Poller's rotation, for any set of devices, requests    *)
(* and listeners and any number of runs.                                   *)
(*                                                                         *)
(* RotationFollowsRows is not inductive: that a launched run serves the    *)
(* rows of now needs guard and running to exclude each other, and that at  *)
(* most one worker goes on needs every run but the current one to be shut  *)
(* down.  RunsInOrder says so.                                             *)
(*                                                                         *)
(* Below it, the Poller as the license drives it: that it still is the     *)
(* Poller, and that its listeners follow the state.                        *)
(***************************************************************************)
EXTENDS LicensedPoller, FiniteSetTheorems, TLAPS

\* A snapshot is taken only of a stopped Poller; runs are numbered in order,
\* every run but the running one is shut down, and a worker serves a device of
\* its run's rotation.
RunsInOrder ==
    /\ guard # None => ~running
    /\ \A r \in Run : shutdown[r] <=> r <= run /\ ~(running /\ r = run)
    /\ \A r \in Run, d \in Device :
          worker[r][d] # "none" => r <= run /\ d \in rotation[r]

IInv == TypeOK /\ RunsInOrder /\ RotationFollowsRows

USE DEF Caller, Run

LEMMA StartsWell == Init => IInv
<1> SUFFICES ASSUME Init PROVE IInv
  OBVIOUS
<1> USE PollerAssumption DEF Init
<1>1. TypeOK
  <2>1. [d \in Device |-> "none"] \in [Device -> WorkerState]
    BY DEF WorkerState
  <2>2. worker \in [Run -> [Device -> WorkerState]]
    BY <2>1
  <2>3. \A c \in Caller : pc[c] = "idle" /\ guard # c
    OBVIOUS
  <2>4. /\ rotation \in [Run -> SUBSET Device]
        /\ shutdown \in [Run -> BOOLEAN]
        /\ pc \in [Caller -> CallerState]
    BY DEF CallerState
  <2>5. run \in 0 .. MaxRuns
    OBVIOUS
  <2> QED BY <2>2, <2>3, <2>4, <2>5 DEF TypeOK
<1>2. RunsInOrder
  BY DEF RunsInOrder
<1>3. RotationFollowsRows
  BY DEF RotationFollowsRows
<1> QED BY <1>1, <1>2, <1>3 DEF IInv

\* A request that commits and is about to stop the Poller.
LEMMA CommitKeeps ==
    ASSUME IInv, NEW c \in Caller, NEW d \in Device, Put(c, d) \/ TakeOut(c, d)
    PROVE  IInv'
<1> USE PollerAssumption DEF IInv, Put, TakeOut
<1>1. /\ pc[c] = "idle" /\ c \in Request /\ rows' \subseteq Device
      /\ pc' = [pc EXCEPT ![c] = "stop"]
      /\ UNCHANGED <<running, run, guard, snapshot, rotation, shutdown, worker>>
  BY DEF TypeOK
<1>2. TypeOK'
  BY <1>1 DEF TypeOK, CallerState
<1>3. RunsInOrder'
  BY <1>1 DEF RunsInOrder
<1>4. StopPending'
  BY <1>1 DEF StopPending, TypeOK
<1>5. RotationFollowsRows'
  BY <1>4 DEF RotationFollowsRows
<1> QED BY <1>2, <1>3, <1>5

LEMMA CallKeeps ==
    ASSUME IInv, NEW c \in Caller, CallStart(c) \/ CallStop(c)
    PROVE  IInv'
<1>1. PICK s \in {"only start", "only stop"} :
        /\ pc[c] = "idle" /\ pc' = [pc EXCEPT ![c] = s]
        /\ UNCHANGED <<rows, running, run, guard, snapshot, rotation, shutdown, worker>>
  BY DEF CallStart, CallStop
<1>2. TypeOK'
  BY <1>1 DEF IInv, TypeOK, CallerState
<1>3. RunsInOrder'
  BY <1>1 DEF IInv, RunsInOrder
<1>4. StopPending => StopPending'
  BY <1>1 DEF IInv, StopPending, TypeOK
<1>5. RotationFollowsRows'
  BY <1>1, <1>4 DEF IInv, RotationFollowsRows
<1> QED BY <1>2, <1>3, <1>5 DEF IInv

LEMMA StopKeeps ==
    ASSUME IInv, NEW c \in Caller, Stop(c)
    PROVE  IInv'
<1>1. TypeOK'
  BY PollerAssumption DEF IInv, Stop, TypeOK, CallerState
<1>2. /\ guard = None /\ guard' = None /\ ~running'
      /\ UNCHANGED <<run, rotation, worker>>
      /\ \A r \in Run : shutdown'[r] <=> shutdown[r] \/ (running /\ r = run)
  BY DEF Stop
<1>3. RunsInOrder'
  <2>1. run \in Nat
    BY PollerAssumption DEF IInv, TypeOK
  <2>2. ASSUME NEW r \in Run
        PROVE  shutdown'[r] <=> r <= run' /\ ~(running' /\ r = run')
    <3>1. shutdown[r] <=> r <= run /\ ~(running /\ r = run)
      BY DEF IInv, RunsInOrder
    <3> QED BY <1>2, <2>1, <3>1
  <2> QED BY <1>2, <2>2 DEF IInv, RunsInOrder
<1>4. RotationFollowsRows'
  BY <1>2 DEF RotationFollowsRows
<1> QED BY <1>1, <1>3, <1>4 DEF IInv

LEMMA SnapshotKeeps ==
    ASSUME IInv, NEW c \in Caller, Snapshot(c)
    PROVE  IInv'
<1> USE PollerAssumption DEF IInv, Snapshot
<1>1. TypeOK'
  <2>1. CASE running \/ ~Enabled
    BY <2>1 DEF TypeOK, CallerState
  <2>2. CASE ~(running \/ ~Enabled)
    <3>1. /\ guard' = c /\ pc' = [pc EXCEPT ![c] = "launch"]
          /\ \A e \in Caller : pc[e] # "launch"
      BY <2>2 DEF TypeOK
    <3>2. \A e \in Caller : pc'[e] = "launch" <=> guard' = e
      BY <3>1 DEF TypeOK
    <3> QED BY <2>2, <3>2 DEF TypeOK, CallerState
  <2> QED BY <2>1, <2>2
<1>2. RunsInOrder'
  BY DEF RunsInOrder
<1>3. StopPending => StopPending'
  BY DEF StopPending, TypeOK
<1>4. RotationFollowsRows'
  BY <1>3 DEF RotationFollowsRows
<1> QED BY <1>1, <1>2, <1>4

LEMMA LaunchKeeps ==
    ASSUME IInv, NEW c \in Caller, Launch(c)
    PROVE  IInv'
<1> USE PollerAssumption DEF IInv, Launch
<1>1. /\ guard = c /\ guard # None /\ ~running
      /\ run \in Nat /\ run + 1 \in Run
  BY DEF TypeOK, RunsInOrder
<1>2. /\ rotation' \in [Run -> SUBSET Device] /\ rotation'[run'] = snapshot
      /\ \A r \in Run : r # run' => rotation'[r] = rotation[r]
  BY <1>1 DEF TypeOK
<1>3. [d \in Device |-> IF d \in snapshot THEN "top" ELSE "none"] \in [Device -> WorkerState]
  BY DEF WorkerState
<1>4. /\ worker' \in [Run -> [Device -> WorkerState]]
      /\ \A r \in Run : r # run' => worker'[r] = worker[r]
      /\ \A d \in Device : worker'[run'][d] # "none" => d \in snapshot
  BY <1>1, <1>3 DEF TypeOK
<1>5. TypeOK'
  <2>1. \A e \in Caller : pc'[e] = "launch" <=> guard' = e
    BY <1>1 DEF TypeOK
  <2>2. pc' \in [Caller -> CallerState] /\ guard' \in Caller \cup {None}
    BY DEF TypeOK, CallerState
  <2>3. run' \in 0 .. MaxRuns /\ run' \in Run
    BY <1>1
  <2> QED BY <1>2, <1>4, <2>1, <2>2, <2>3 DEF TypeOK
<1>6. RunsInOrder'
  <2>1. \A r \in Run : shutdown'[r] <=> r <= run' /\ ~(running' /\ r = run')
    BY <1>1 DEF RunsInOrder, TypeOK
  <2>2. ASSUME NEW r \in Run, NEW d \in Device, worker'[r][d] # "none"
        PROVE  r <= run' /\ d \in rotation'[r]
    <3>1. CASE r = run'
      BY <3>1, <1>1, <1>2, <1>4, <2>2
    <3>2. CASE r # run'
      BY <3>2, <1>1, <1>2, <1>4, <2>2 DEF RunsInOrder
    <3> QED BY <3>1, <3>2
  <2> QED BY <2>1, <2>2 DEF RunsInOrder
<1>7. StopPending => StopPending'
  BY DEF StopPending, TypeOK
<1>8. RotationFollowsRows'
  BY <1>1, <1>2, <1>7 DEF RotationFollowsRows
<1> QED BY <1>5, <1>6, <1>8

\* A worker's step: where it goes, and that it was a worker before.
LEMMA WorkerMoves ==
    ASSUME IInv, NEW r \in Run, NEW d \in Device, WorkerStep(r, d)
    PROVE  \E to \in WorkerState :
              WorkerTo(r, d, to) /\ worker[r][d] # "none"
BY DEF WorkerStep, Exits, PollBegins, PollEnds, Recorded, IntervalOver, WorkerState

LEMMA WorkerKeeps ==
    ASSUME IInv, NEW r \in Run, NEW d \in Device, WorkerStep(r, d)
    PROVE  IInv'
<1>1. PICK to \in WorkerState : WorkerTo(r, d, to) /\ worker[r][d] # "none"
  BY WorkerMoves
<1>2. /\ worker' \in [Run -> [Device -> WorkerState]]
      /\ \A s \in Run, e \in Device :
            worker'[s][e] # "none" => worker[s][e] # "none"
  BY <1>1 DEF WorkerTo, IInv, TypeOK
<1>3. UNCHANGED <<rows, running, run, guard, snapshot, rotation, shutdown, pc>>
  BY <1>1 DEF WorkerTo
<1>4. TypeOK'
  BY <1>2, <1>3 DEF IInv, TypeOK
<1>5. RunsInOrder'
  BY <1>2, <1>3 DEF IInv, RunsInOrder
<1>6. RotationFollowsRows'
  BY <1>3 DEF IInv, RotationFollowsRows, StopPending
<1> QED BY <1>4, <1>5, <1>6 DEF IInv

LEMMA StepKeeps == IInv /\ [Next]_pollerVars => IInv'
<1> SUFFICES ASSUME IInv, [Next]_pollerVars PROVE IInv'
  OBVIOUS
<1>1. CASE \E c \in Caller : CallStart(c) \/ CallStop(c)
  BY <1>1, CallKeeps
<1>2. CASE \E c \in Caller : CallStep(c)
  BY <1>2, StopKeeps, SnapshotKeeps, LaunchKeeps DEF CallStep
<1>3. CASE \E c \in Caller, d \in Device : Put(c, d) \/ TakeOut(c, d)
  BY <1>3, CommitKeeps
<1>4. CASE \E r \in Run, d \in Device : WorkerStep(r, d)
  BY <1>4, WorkerKeeps
<1>5. CASE UNCHANGED pollerVars
  BY <1>5 DEF pollerVars, IInv, TypeOK, RunsInOrder, RotationFollowsRows, StopPending
<1> QED BY <1>1, <1>2, <1>3, <1>4, <1>5 DEF Next

\* The inductive invariant of the Poller.
THEOREM Invariant == Spec => []IInv
BY StartsWell, StepKeeps, PTL DEF Spec

\* Every variable of the Poller keeps to its type.
THEOREM TypeCorrect == Spec => []TypeOK
<1>1. IInv => TypeOK
  BY DEF IInv
<1> QED BY <1>1, Invariant, PTL

\* The rotation never forgets a committed change: it equals the enabled rows
\* or a request is about to restart the Poller (api/devices.py, _enabled_devices).
THEOREM NoChangeIsLost == Spec => []RotationFollowsRows
<1>1. IInv => RotationFollowsRows
  BY DEF IInv
<1> QED BY <1>1, Invariant, PTL

\* Two workers of one device never both go on, whatever runs they are left from.
THEOREM NoDoubleWorker == Spec => []OneWorkerGoesOn
<1>1. IInv => OneWorkerGoesOn
  BY DEF IInv, TypeOK, RunsInOrder, OneWorkerGoesOn
<1> QED BY <1>1, Invariant, PTL

\* A paused or deleted device gets no new read after its request's stop().
THEOREM NoReadAfterTakeOut == Spec => TakenOutIsLeftAlone
<1>1. IInv /\ [Next]_pollerVars =>
        [\A r \in Run, d \in Device :
            worker[r][d] # "polling" /\ worker'[r][d] = "polling"
                => running /\ r = run /\ (d \in rows \/ StopPending)]_pollerVars
  <2> SUFFICES ASSUME IInv, Next,
                      NEW r \in Run, NEW d \in Device,
                      worker[r][d] # "polling", worker'[r][d] = "polling"
               PROVE  running /\ r = run /\ (d \in rows \/ StopPending)
    OBVIOUS
  <2>1. PollBegins(r, d)
    <3>1. CASE \E c \in Caller : CallStart(c) \/ CallStop(c) \/ Stop(c) \/ Snapshot(c)
      BY <3>1 DEF CallStart, CallStop, Stop, Snapshot
    <3>2. CASE \E c \in Caller, e \in Device : Put(c, e) \/ TakeOut(c, e)
      BY <3>2 DEF Put, TakeOut
    <3>3. CASE \E c \in Caller : Launch(c)
      BY <3>3 DEF Launch, IInv, TypeOK
    <3>4. CASE \E s \in Run, e \in Device : WorkerStep(s, e)
      <4>1. PICK s \in Run, e \in Device : WorkerStep(s, e)
        BY <3>4
      <4>2. worker'[r][d] # worker[r][d] => s = r /\ e = d
        <5>1. PICK to \in WorkerState : WorkerTo(s, e, to)
          BY <4>1, WorkerMoves
        <5> QED BY <5>1 DEF WorkerTo, IInv, TypeOK
      <4>3. WorkerStep(r, d)
        BY <4>1, <4>2
      <4> QED
        BY <4>3 DEF WorkerStep, Exits, PollBegins, PollEnds, Recorded, IntervalOver,
                    WorkerTo, IInv, TypeOK
    <3> QED BY <3>1, <3>2, <3>3, <3>4 DEF Next, CallStep
  <2>2. worker[r][d] # "none" /\ ~shutdown[r]
    BY <2>1 DEF PollBegins
  <2>3. running /\ r = run /\ d \in rotation[r]
    BY <2>2 DEF IInv, RunsInOrder
  <2> QED BY <2>3 DEF IInv, RotationFollowsRows
<1> QED BY <1>1, Invariant, PTL DEF Spec, TakenOutIsLeftAlone

-----------------------------------------------------------------------------
(* The bound on runs under the license: each call that will start the      *)
(* Poller, and each that may lead to one, has a run kept for it.  So a     *)
(* listener's start() is one that Poller!RunLeft lets in.                  *)

Starter(c) ==
    \/ c \in MayStart
    \/ c \in Listener /\ duty[c] = "evaluate"
    \/ c \in Listener /\ duty[c] = "poller" /\ news[c] = "active"
    \/ c \in admitted

Starters == {c \in Caller : Starter(c)}

\* What each thread does in the Poller, and for whom.
Errands ==
    /\ duty \in [Listener -> {"nothing", "evaluate", "poller", "scheduler"}]
    /\ news \in [Listener -> {"none", "active", "limited"}]
    /\ admitted \in SUBSET Request
    /\ \A l \in Listener : pc[l] # "idle" => duty[l] = "scheduler"
    /\ \A l \in Listener : pc[l] = "only stop" => news[l] # "active"
    /\ \A c \in Request : pc[c] # "only stop"
    /\ \A c \in admitted : pc[c] = "idle"

RunIsKept == run + Cardinality(Starters) <= MaxRuns

LInv == IInv /\ Errands /\ RunIsKept

LEMMA CallersAreFinite ==
    ASSUME NEW S \in SUBSET Caller
    PROVE  IsFiniteSet(S) /\ Cardinality(S) \in Nat
BY PollerAssumption, FS_Subset, FS_CardinalityType

\* One more caller at the most.
LEMMA OneMore ==
    ASSUME NEW S \in SUBSET Caller, NEW T \in SUBSET Caller, NEW c, S \in SUBSET (T \cup {c})
    PROVE  Cardinality(S) <= Cardinality(T) + 1
<1>1. IsFiniteSet(T) /\ Cardinality(T) \in Nat /\ IsFiniteSet(S) /\ Cardinality(S) \in Nat
  BY CallersAreFinite
<1>2. IsFiniteSet(T \cup {c}) /\ Cardinality(T \cup {c}) <= Cardinality(T) + 1
  <2>1. Cardinality(T \cup {c}) = IF c \in T THEN Cardinality(T) ELSE Cardinality(T) + 1
    BY <1>1, FS_AddElement
  <2>2. IsFiniteSet(T \cup {c})
    BY <1>1, FS_AddElement
  <2> QED BY <1>1, <2>1, <2>2
<1>3. Cardinality(S) <= Cardinality(T \cup {c}) /\ Cardinality(T \cup {c}) \in Nat
  BY <1>2, FS_Subset, FS_CardinalityType
<1> QED BY <1>1, <1>2, <1>3

\* No more callers.
LEMMA NoMore ==
    ASSUME NEW T \in SUBSET Caller, NEW S \in SUBSET T
    PROVE  Cardinality(S) <= Cardinality(T) /\ Cardinality(S) \in Nat /\ Cardinality(T) \in Nat
BY CallersAreFinite, FS_Subset

\* One caller less.
LEMMA OneLess ==
    ASSUME NEW T \in SUBSET Caller, NEW c \in T, NEW S \in SUBSET (T \ {c})
    PROVE  Cardinality(S) + 1 <= Cardinality(T)
<1>1. IsFiniteSet(T) /\ Cardinality(T) \in Nat
  BY CallersAreFinite
<1>2. IsFiniteSet(T \ {c}) /\ Cardinality(T \ {c}) = Cardinality(T) - 1
  BY <1>1, FS_RemoveElement
<1>3. Cardinality(S) <= Cardinality(T \ {c}) /\ Cardinality(S) \in Nat
  BY <1>2, FS_Subset, FS_CardinalityType
<1> QED BY <1>1, <1>2, <1>3

LEMMA LicensedStart == LicensedInit => LInv
<1> SUFFICES ASSUME LicensedInit PROVE LInv
  OBVIOUS
<1>1. IInv
  BY StartsWell DEF LicensedInit
<1>2. Errands
  BY DEF LicensedInit, Init, Errands
<1>3. Starters = {}
  BY DEF LicensedInit, Init, Starters, Starter, MayStart
<1>4. Cardinality(Starters) = 0 /\ run = 0
  BY <1>3, FS_EmptySet DEF LicensedInit, Init
<1>5. RunIsKept
  BY <1>4, PollerAssumption DEF RunIsKept
<1> QED BY <1>1, <1>2, <1>5 DEF LInv

-----------------------------------------------------------------------------
(* Each step of the composition is a step of the Poller, or none.            *)

\* A listener's start() or stop(), as the Poller knows them.
LEMMA TellPollerIsACall ==
    ASSUME LInv, NEW l \in Listener, TellPoller(l)
    PROVE  CallStart(l) \/ CallStop(l)
<1>1. pc[l] = "idle"
  BY DEF LInv, Errands, TellPoller
<1>2. ASSUME news[l] = "active"
      PROVE  RunLeft
  <2>1. l \in Starters \ MayStart
    BY <1>1, <1>2 DEF Starters, Starter, MayStart, TellPoller
  <2>2. MayStart \in SUBSET (Starters \ {l}) /\ Starters \in SUBSET Caller
    BY <2>1 DEF Starters, Starter, MayStart
  <2>3. Cardinality(MayStart) + 1 <= Cardinality(Starters)
    BY <2>1, <2>2, OneLess
  <2>4. Cardinality(MayStart) \in Nat /\ Cardinality(Starters) \in Nat
    BY <2>2, CallersAreFinite
  <2>5. run \in Nat
    BY PollerAssumption DEF LInv, IInv, TypeOK
  <2> QED BY <2>3, <2>4, <2>5, PollerAssumption DEF LInv, RunIsKept, RunLeft
<1> QED BY <1>1, <1>2 DEF TellPoller, CallStart, CallStop

\* What a step is to the Poller.
PollerSees == Next \/ UNCHANGED pollerVars

LEMMA StepIsThePollers ==
    ASSUME LInv, [LicensedNext]_vars
    PROVE  PollerSees
<1>1. CASE \E l \in Listener : TellPoller(l)
  BY <1>1, TellPollerIsACall DEF PollerSees, Next
<1>2. CASE \E c \in Request : Commits(c)
  BY <1>2 DEF PollerSees, Next, Commits
<1>3. CASE \E c \in Caller : PollerCall(c)
  BY <1>3 DEF PollerSees, Next, PollerCall
<1>4. CASE \E r \in Run, d \in Device : PollerWorker(r, d)
  BY <1>4 DEF PollerSees, Next, PollerWorker
<1>5. CASE UNCHANGED vars
  BY <1>5 DEF PollerSees, vars
<1> QED
  BY <1>1, <1>2, <1>3, <1>4, <1>5
  DEF LicensedNext, PollerSees, Lapses, Ages, CurrentState, Activate, ReEvaluate,
      TellScheduler, Admit

\* What a step leaves of the callers a run is kept for, when it begins no run.
LEMMA KeptOrOwed ==
    ASSUME LInv, run' = run,
           \/ Starters' \in SUBSET Starters
           \/ \E c : RunOwed /\ Starters' \in SUBSET (Starters \cup {c}),
           Starters' \in SUBSET Caller
    PROVE  RunIsKept'
<1>0. Starters \in SUBSET Caller
  BY DEF Starters
<1>1. run \in Nat /\ MaxRuns \in Nat /\ Cardinality(Starters) \in Nat
      /\ Cardinality(Starters') \in Nat
  BY <1>0, PollerAssumption, CallersAreFinite DEF LInv, IInv, TypeOK
<1>2. CASE Starters' \in SUBSET Starters
  BY <1>0, <1>1, <1>2, NoMore DEF LInv, RunIsKept
<1>3. ASSUME NEW c, RunOwed, Starters' \in SUBSET (Starters \cup {c})
      PROVE  RunIsKept'
  <2>1. Starters \in SUBSET Owed /\ Owed \in SUBSET Caller
    BY DEF Starters, Starter, Owed, MayStart, Busy, LInv, Errands
  <2>2. Cardinality(Starters) <= Cardinality(Owed) /\ Cardinality(Owed) \in Nat
    BY <2>1, NoMore
  <2>3. Cardinality(Starters') <= Cardinality(Starters) + 1
    BY <1>0, <1>3, OneMore
  <2> QED BY <1>1, <1>3, <2>2, <2>3 DEF RunOwed, RunIsKept
<1> QED BY <1>2, <1>3

-----------------------------------------------------------------------------
(* Each step keeps the errands and the runs.                                 *)

\* No caller moves in the Poller.
LEMMA EvaluationKeeps ==
    ASSUME LInv, NEW l \in Listener, CurrentState(l) \/ Activate(l) \/ ReEvaluate(l)
    PROVE  Errands' /\ RunIsKept'
<1>1. /\ pc' = pc /\ run' = run /\ admitted' = admitted
      /\ \E d \in {"nothing", "evaluate", "poller"} : duty' = [duty EXCEPT ![l] = d]
      /\ pc[l] = "idle"
  BY DEF LInv, Errands, CurrentState, Activate, ReEvaluate, Evaluate, pollerVars, Busy
<1>2. news' = news \/ news' = [news EXCEPT ![l] = Verdict]
  BY DEF CurrentState, Activate, ReEvaluate, Evaluate
<1>3. Verdict \in {"active", "limited"}
  BY DEF Verdict
<1>4. Errands'
  <2>1. duty' \in [Listener -> {"nothing", "evaluate", "poller", "scheduler"}]
    BY <1>1 DEF LInv, Errands
  <2>2. news' \in [Listener -> {"none", "active", "limited"}]
    BY <1>2, <1>3 DEF LInv, Errands
  <2>3. \A m \in Listener : pc'[m] # "idle" => duty'[m] = "scheduler"
    BY <1>1 DEF LInv, Errands
  <2>4. \A m \in Listener : pc'[m] = "only stop" => news'[m] # "active"
    BY <1>1, <1>2 DEF LInv, Errands
  <2> QED BY <1>1, <2>1, <2>2, <2>3, <2>4 DEF LInv, Errands
<1>5. MayStart' = MayStart
  BY <1>1 DEF MayStart
<1>6. Starters' \in SUBSET (Starters \cup {l}) /\ Starters' \in SUBSET Caller
  BY <1>1, <1>2, <1>5 DEF Starters, Starter, LInv, Errands
<1>7. RunOwed \/ Starters' \in SUBSET Starters
  <2>1. CASE CurrentState(l)
    <3>1. CASE licensed
      BY <2>1, <3>1 DEF CurrentState
    <3>2. CASE ~licensed
      <4>1. news'[l] = "limited" /\ duty'[l] # "evaluate"
        BY <2>1, <3>2 DEF CurrentState, Evaluate, Verdict, LInv, Errands
      <4>2. Starters' \in SUBSET Starters
        BY <1>1, <1>2, <1>5, <4>1 DEF Starters, Starter, LInv, Errands
      <4> QED BY <4>2
    <3> QED BY <3>1, <3>2
  <2>2. CASE Activate(l)
    BY <2>2 DEF Activate
  <2>3. CASE ReEvaluate(l)
    <3>1. l \in Starters
      BY <2>3 DEF Starters, Starter, ReEvaluate
    <3> QED BY <1>6, <3>1
  <2> QED BY <2>1, <2>2, <2>3
<1>8. RunIsKept'
  BY <1>1, <1>6, <1>7, KeptOrOwed
<1> QED BY <1>4, <1>8

LEMMA TellingKeeps ==
    ASSUME LInv, NEW l \in Listener, TellPoller(l) \/ TellScheduler(l)
    PROVE  Errands' /\ RunIsKept'
<1>1. /\ run' = run /\ admitted' = admitted /\ news' = news
      /\ \E d \in {"nothing", "scheduler"} : duty' = [duty EXCEPT ![l] = d]
      /\ pc[l] = "idle" /\ pc \in [Caller -> CallerState]
  BY DEF LInv, IInv, TypeOK, Errands, TellPoller, TellScheduler, pollerVars
<1>2. \/ /\ TellPoller(l) /\ duty[l] = "poller" /\ duty'[l] = "scheduler"
         /\ pc' = [pc EXCEPT ![l] = IF news[l] = "active" THEN "only start" ELSE "only stop"]
      \/ pc' = pc
  BY DEF LInv, Errands, TellPoller, TellScheduler, pollerVars
<1>3. Errands'
  <2>1. duty' \in [Listener -> {"nothing", "evaluate", "poller", "scheduler"}]
    BY <1>1 DEF LInv, Errands
  <2>2. \A m \in Listener : pc'[m] # "idle" => duty'[m] = "scheduler"
    BY <1>1, <1>2 DEF LInv, Errands
  <2>3. \A m \in Listener : pc'[m] = "only stop" => news'[m] # "active"
    BY <1>1, <1>2 DEF LInv, Errands
  <2>4. \A c \in Request : pc'[c] = pc[c]
    BY <1>1, <1>2, LicenseAssumption
  <2> QED BY <1>1, <2>1, <2>2, <2>3, <2>4 DEF LInv, Errands
<1>4. Starters' \in SUBSET Starters
  <2> SUFFICES ASSUME NEW c \in Caller, Starter(c)'
               PROVE  Starter(c)
    BY DEF Starters
  <2>1. CASE c # l
    BY <1>1, <1>2, <2>1 DEF Starter, MayStart, LInv, Errands
  <2>2. CASE c = l
    BY <1>1, <1>2, <2>2 DEF Starter, MayStart, LInv, Errands
  <2> QED BY <2>1, <2>2
<1>5. RunIsKept'
  BY <1>1, <1>4, KeptOrOwed DEF Starters
<1> QED BY <1>3, <1>5

LEMMA RequestKeeps ==
    ASSUME LInv, NEW c \in Request, Admit(c) \/ Commits(c)
    PROVE  Errands' /\ RunIsKept'
<1>1. CASE Admit(c)
  <2>1. UNCHANGED <<run, pc, duty, news>> /\ admitted' = admitted \cup {c} /\ pc[c] = "idle"
    BY <1>1 DEF Admit, pollerVars
  <2>2. Errands'
    BY <2>1 DEF LInv, Errands
  <2>3. Starters' \in SUBSET (Starters \cup {c})
    BY <2>1 DEF Starters, Starter, MayStart
  <2>4. RunIsKept'
    BY <1>1, <2>1, <2>3, KeptOrOwed DEF Admit, Starters
  <2> QED BY <2>2, <2>4
<1>2. CASE Commits(c)
  <2>1. /\ UNCHANGED <<run, duty, news>> /\ admitted' = admitted \ {c} /\ c \in admitted
        /\ pc' = [pc EXCEPT ![c] = "stop"]
    BY <1>2 DEF Commits, Put, TakeOut
  <2>2. pc \in [Caller -> CallerState] /\ c \notin Listener
    BY LicenseAssumption DEF LInv, IInv, TypeOK
  <2>3. Errands'
    BY <2>1, <2>2 DEF LInv, Errands
  <2>4. Starters' \in SUBSET Starters
    BY <2>1, <2>2 DEF Starters, Starter, MayStart
  <2>5. RunIsKept'
    BY <2>1, <2>4, KeptOrOwed DEF Starters
  <2> QED BY <2>3, <2>5
<1> QED BY <1>1, <1>2

LEMMA PollerCallKeeps ==
    ASSUME LInv, NEW c \in Caller, PollerCall(c)
    PROVE  Errands' /\ RunIsKept'
<1>1. UNCHANGED <<duty, news, admitted>> /\ pc \in [Caller -> CallerState]
  BY DEF PollerCall, licenseVars, LInv, IInv, TypeOK
<1>2. \/ /\ run' = run /\ pc' = pc
      \/ /\ run' = run /\ pc[c] = "stop" /\ pc' = [pc EXCEPT ![c] = "start"]
      \/ /\ run' = run /\ pc[c] \in {"only stop", "start", "only start"}
         /\ pc' = [pc EXCEPT ![c] = "idle"]
      \/ /\ run' = run /\ pc[c] \in {"start", "only start"}
         /\ pc' = [pc EXCEPT ![c] = "launch"]
      \/ /\ run' = run + 1 /\ pc[c] = "launch" /\ pc' = [pc EXCEPT ![c] = "idle"]
  BY DEF PollerCall, CallStep, Stop, Snapshot, Launch
<1>3. Errands'
  BY <1>1, <1>2 DEF LInv, Errands
<1>4. Starters' \in SUBSET Starters /\ Starters' \in SUBSET Caller
  BY <1>1, <1>2 DEF Starters, Starter, MayStart
<1>5. RunIsKept'
  <2>1. CASE run' = run
    BY <1>4, <2>1, KeptOrOwed
  <2>2. CASE run' = run + 1 /\ pc[c] = "launch" /\ pc' = [pc EXCEPT ![c] = "idle"]
    <3>1. c \in Starters /\ Starters \in SUBSET Caller
      BY <2>2 DEF Starters, Starter, MayStart
    <3>2. c \notin Starters'
      BY <1>1, <2>2 DEF Starters, Starter, MayStart, LInv, Errands
    <3>3. Cardinality(Starters') + 1 <= Cardinality(Starters)
      BY <1>4, <3>1, <3>2, OneLess
    <3>4. Cardinality(Starters) \in Nat /\ Cardinality(Starters') \in Nat
      BY <1>4, <3>1, CallersAreFinite
    <3>5. run \in Nat /\ MaxRuns \in Nat
      BY PollerAssumption DEF LInv, IInv, TypeOK
    <3> QED BY <2>2, <3>3, <3>4, <3>5 DEF LInv, RunIsKept
  <2> QED BY <1>2, <2>1, <2>2
<1> QED BY <1>3, <1>5

LEMMA LicensedStep == LInv /\ [LicensedNext]_vars => LInv'
<1> SUFFICES ASSUME LInv, [LicensedNext]_vars PROVE LInv'
  OBVIOUS
<1>1. IInv'
  BY StepIsThePollers, StepKeeps DEF PollerSees, LInv
<1>2. ASSUME UNCHANGED <<pc, run, duty, news, admitted>>
      PROVE  Errands' /\ RunIsKept'
  <2>1. Starters' = Starters
    BY <1>2 DEF Starters, Starter, MayStart
  <2> QED BY <1>2, <2>1 DEF LInv, Errands, RunIsKept
<1>3. CASE Lapses \/ Ages \/ UNCHANGED vars
  BY <1>1, <1>2, <1>3 DEF LInv, Lapses, Ages, vars, pollerVars, licenseVars
<1>4. CASE \E r \in Run, d \in Device : PollerWorker(r, d)
  <2>1. PICK r \in Run, d \in Device : WorkerStep(r, d) /\ UNCHANGED licenseVars
    BY <1>4 DEF PollerWorker
  <2>2. \E state_ \in WorkerState : WorkerTo(r, d, state_)
    BY <2>1, WorkerMoves DEF LInv
  <2> QED BY <1>1, <1>2, <2>1, <2>2 DEF LInv, WorkerTo, licenseVars
<1> QED
  BY <1>1, <1>3, <1>4, EvaluationKeeps, TellingKeeps, RequestKeeps, PollerCallKeeps
  DEF LicensedNext, LInv

(* Driven by the license, the Poller is the Poller: each evaluation,       *)
(* delivery, admission and commit is a step of Poller!Next or none, and a  *)
(* listener's call finds a run left for it.                                *)
THEOREM StillThePoller == LicensedSpec => StillAPoller
<1>1. LicensedInit => Init
  BY DEF LicensedInit
<1>2. LInv /\ [LicensedNext]_vars => [Next]_pollerVars
  BY StepIsThePollers DEF PollerSees
<1> QED BY <1>1, <1>2, LicensedStart, LicensedStep, PTL DEF LicensedSpec, Spec, StillAPoller

(* So, under a license that comes and goes, no two workers of one device   *)
(* go on, and no change of the rotation is lost.                           *)
THEOREM LicensedWorkers == LicensedSpec => [](OneWorkerGoesOn /\ RotationFollowsRows)
BY StillThePoller, NoDoubleWorker, NoChangeIsLost, PTL DEF StillAPoller

-----------------------------------------------------------------------------
(* The listeners follow the state, if they return within the TTL and        *)
(* activations come from one thread: with two, an activation and a lapse    *)
(* deliver "active" and "limited" side by side, and the last to arrive      *)
(* stays.                                                                   *)

OneActivation == \A a, b \in Activator : a = b

Delivering(l) == duty[l] \in {"poller", "scheduler"}

\* One thread delivers at a time, and what it delivers is the state of now:
\* under the lock because nobody else evaluates, and after an activation
\* because nobody does while the state is fresh.
NewsIsState ==
    /\ \A l, m \in Listener : Delivering(l) /\ Delivering(m) => l = m
    /\ \A l \in Listener : Delivering(l) => news[l] = state
    /\ rlock # None => rlock \in Listener /\ Delivering(rlock)
    /\ \A l \in Listener : Delivering(l) /\ rlock # l => l \in Activator /\ ~stale
    /\ \A l \in Listener : duty[l] = "evaluate" => l \in Activator

\* Each listener has done what the state says, or somebody is about to tell it.
PollerHeard ==
    Enabled /\ state = "active" =>
        \/ running
        \/ \E c \in Caller : pc[c] \in {"start", "only start", "launch"}
        \/ \E l \in Listener : duty[l] = "poller"

SchedulerHeard ==
    \/ state = "none"
    \/ jobs <=> (Enabled /\ state = "active")
    \/ \E l \in Listener : Delivering(l)

LicenseTypes ==
    /\ licensed \in BOOLEAN /\ stale \in BOOLEAN /\ jobs \in BOOLEAN
    /\ state \in {"none", "active", "limited"}

NInv == LInv /\ LicenseTypes /\ NewsIsState /\ PollerHeard /\ SchedulerHeard

LEMMA NewsStart == LicensedInit => NInv
<1> SUFFICES ASSUME LicensedInit PROVE NInv
  OBVIOUS
<1>1. LInv
  BY LicensedStart
<1>2. LicenseTypes /\ PollerHeard /\ SchedulerHeard
  BY DEF LicensedInit, LicenseTypes, PollerHeard, SchedulerHeard
<1>3. NewsIsState
  BY DEF LicensedInit, NewsIsState, Delivering
<1> QED BY <1>1, <1>2, <1>3 DEF NInv

\* An evaluation: no thread delivers when it begins, so this one delivers alone.
LEMMA EvaluationNews ==
    ASSUME NInv, OneActivation, NEW l \in Listener, NEW locked \in BOOLEAN,
           Evaluate(l, locked), UNCHANGED <<pollerVars, jobs>>, licensed' \in BOOLEAN,
           ~Delivering(l), rlock = None, stale \/ l \in Activator,
           ~locked => l \in Activator
    PROVE  LicenseTypes' /\ NewsIsState' /\ PollerHeard' /\ SchedulerHeard'
<1>1. \A m \in Listener : ~Delivering(m)
  <2> SUFFICES ASSUME NEW m \in Listener, Delivering(m) PROVE FALSE
    OBVIOUS
  <2>1. m # rlock /\ m # l
    BY PollerAssumption
  <2>2. m \in Activator /\ ~stale
    BY <2>1 DEF NInv, NewsIsState
  <2> QED BY <2>1, <2>2 DEF OneActivation
<1>2. /\ state' = Verdict /\ stale' = FALSE
      /\ news \in [Listener -> {"none", "active", "limited"}]
      /\ duty \in [Listener -> {"nothing", "evaluate", "poller", "scheduler"}]
      /\ news' = [news EXCEPT ![l] = Verdict]
      /\ pc' = pc /\ running' = running /\ jobs' = jobs
  BY DEF Evaluate, NInv, LInv, Errands, pollerVars
<1>3. Verdict \in {"active", "limited"}
  BY DEF Verdict
<1>4. LicenseTypes'
  BY <1>2, <1>3 DEF NInv, LicenseTypes
<1>5. ASSUME state # Verdict
      PROVE  NewsIsState' /\ PollerHeard' /\ SchedulerHeard'
  <2>1. duty' = [duty EXCEPT ![l] = "poller"] /\ rlock' = IF locked THEN l ELSE None
    BY <1>5 DEF Evaluate
  <2>2. duty'[l] = "poller" /\ news'[l] = state' /\ Delivering(l)'
    BY <1>2, <2>1 DEF Delivering
  <2>3. \A m \in Listener \ {l} : ~Delivering(m)'
    BY <1>1, <1>2, <2>1 DEF Delivering
  <2>4. NewsIsState'
    <3>1. \A m \in Listener : duty'[m] = "evaluate" => m \in Activator
      BY <1>2, <2>1 DEF NInv, NewsIsState
    <3>2. rlock' # None => rlock' = l
      BY <2>1
    <3>3. rlock' # l => l \in Activator
      BY <2>1
    <3>4. ~stale'
      BY <1>2
    <3>5. \A m \in Listener : Delivering(m)' => m = l
      BY <2>3
    <3> QED BY <2>2, <3>1, <3>2, <3>3, <3>4, <3>5 DEF NewsIsState
  <2> QED BY <2>2, <2>4 DEF PollerHeard, SchedulerHeard
<1>6. ASSUME state = Verdict
      PROVE  NewsIsState' /\ PollerHeard' /\ SchedulerHeard'
  <2>1. duty' = [duty EXCEPT ![l] = "nothing"] /\ rlock' = None /\ state' = state
    BY <1>2, <1>6 DEF Evaluate
  <2>2. \A m \in Listener : ~Delivering(m)'
    BY <1>1, <1>2, <2>1 DEF Delivering
  <2>3. \A m \in Listener : duty[m] # "poller"
    BY <1>1 DEF Delivering
  <2>4. NewsIsState'
    BY <1>2, <2>1, <2>2 DEF NInv, NewsIsState
  <2>5. PollerHeard'
    BY <1>2, <2>1, <2>3 DEF NInv, PollerHeard
  <2>6. SchedulerHeard'
    BY <1>1, <1>2, <2>1 DEF NInv, SchedulerHeard
  <2> QED BY <2>4, <2>5, <2>6
<1> QED BY <1>4, <1>5, <1>6

\* A delivery: to the Poller, then to the Scheduler.
LEMMA DeliveryNews ==
    ASSUME NInv, NEW l \in Listener, TellPoller(l) \/ TellScheduler(l)
    PROVE  LicenseTypes' /\ NewsIsState' /\ PollerHeard' /\ SchedulerHeard'
<1>0. /\ news \in [Listener -> {"none", "active", "limited"}]
      /\ duty \in [Listener -> {"nothing", "evaluate", "poller", "scheduler"}]
      /\ pc \in [Caller -> CallerState] /\ l \in Caller /\ Enabled \in BOOLEAN
  BY PollerAssumption DEF NInv, LInv, IInv, TypeOK, Errands
<1>1. /\ Delivering(l) /\ news[l] = state
      /\ UNCHANGED <<state, licensed, stale, news, running>>
  BY DEF TellPoller, TellScheduler, NInv, NewsIsState, Delivering, pollerVars
<1>2. \A m \in Listener \ {l} : ~Delivering(m) /\ duty'[m] = duty[m]
  BY <1>1 DEF TellPoller, TellScheduler, NInv, LInv, Errands, NewsIsState
<1>3. CASE TellPoller(l)
  <2>1. /\ duty' = [duty EXCEPT ![l] = "scheduler"] /\ UNCHANGED <<rlock, jobs>>
        /\ pc' = [pc EXCEPT ![l] = IF news[l] = "active" THEN "only start" ELSE "only stop"]
    BY <1>3 DEF TellPoller
  <2>2. \A m \in Listener : Delivering(m)' <=> Delivering(m)
    BY <1>0, <1>1, <2>1 DEF Delivering
  <2>3. \A m \in Listener : duty'[m] = "evaluate" => duty[m] = "evaluate"
    BY <1>0, <2>1
  <2>4. NewsIsState'
    BY <1>1, <2>1, <2>2, <2>3 DEF NInv, NewsIsState
  <2>5. PollerHeard'
    <3>1. state' = "active" => pc'[l] = "only start"
      BY <1>0, <1>1, <2>1
    <3> QED BY <1>0, <3>1 DEF PollerHeard
  <2>6. SchedulerHeard' /\ LicenseTypes'
    BY <1>1, <2>1, <2>2 DEF SchedulerHeard, LicenseTypes, NInv
  <2> QED BY <2>4, <2>5, <2>6
<1>4. CASE TellScheduler(l)
  <2>1. /\ duty' = [duty EXCEPT ![l] = "nothing"] /\ pc' = pc
        /\ jobs' = (Enabled /\ news[l] = "active") /\ duty[l] = "scheduler"
        /\ rlock' = IF rlock = l THEN None ELSE rlock
    BY <1>4 DEF TellScheduler, pollerVars
  <2>2. \A m \in Listener : ~Delivering(m)'
    BY <1>0, <1>2, <2>1 DEF Delivering
  <2>3. rlock' = None
    BY <1>2, <2>1 DEF NInv, NewsIsState
  <2>4. NewsIsState'
    BY <1>0, <1>1, <2>1, <2>2, <2>3 DEF NInv, NewsIsState
  <2>5. PollerHeard'
    BY <1>0, <1>1, <1>2, <2>1 DEF PollerHeard, NInv, Delivering
  <2>6. jobs' <=> (Enabled /\ state' = "active")
    BY <1>0, <1>1, <2>1
  <2>7. jobs' \in BOOLEAN
    BY <1>0, <2>1
  <2>8. LicenseTypes'
    BY <1>1, <2>7 DEF LicenseTypes, NInv
  <2> QED BY <2>4, <2>5, <2>6, <2>8 DEF SchedulerHeard
<1> QED BY <1>3, <1>4

\* Nothing is evaluated or delivered.
LEMMA NoNews ==
    ASSUME NInv, UNCHANGED <<state, rlock, duty, news, jobs>>, licensed' \in BOOLEAN,
           stale' \in BOOLEAN, stale' = stale \/ \A l \in Listener : ~Delivering(l)
    PROVE  LicenseTypes' /\ NewsIsState' /\ SchedulerHeard'
<1>1. \A m \in Listener : Delivering(m)' <=> Delivering(m)
  BY DEF Delivering
<1>2. NewsIsState'
  BY <1>1 DEF NInv, NewsIsState
<1>3. LicenseTypes' /\ SchedulerHeard'
  BY <1>1 DEF NInv, LicenseTypes, SchedulerHeard
<1> QED BY <1>2, <1>3

\* A call in the Poller: a stop() of a listener is of a state that has gone,
\* and a restart() still has its start() to come.
LEMMA CallHeard ==
    ASSUME NInv, NEW c \in Caller, CallStep(c), UNCHANGED <<state, duty, news>>
    PROVE  PollerHeard'
<1> SUFFICES ASSUME Enabled, state = "active", ~running', \A l \in Listener : duty[l] # "poller"
             PROVE  \E b \in Caller : pc'[b] \in {"start", "only start", "launch"}
  BY DEF PollerHeard
<1>0. pc \in [Caller -> CallerState]
  BY DEF NInv, LInv, IInv, TypeOK
<1>1. CASE Stop(c)
  <2>1. pc[c] # "only stop"
    <3> SUFFICES ASSUME pc[c] = "only stop" PROVE FALSE
      OBVIOUS
    <3>1. c \in Listener /\ duty[c] = "scheduler" /\ news[c] # "active"
      BY DEF NInv, LInv, Errands
    <3> QED BY <3>1 DEF NInv, NewsIsState, Delivering
  <2>2. pc'[c] = "start"
    BY <1>0, <1>1, <2>1 DEF Stop
  <2> QED BY <2>2
<1>2. CASE Snapshot(c)
  <2>1. ~running /\ pc'[c] = "launch"
    BY <1>0, <1>2 DEF Snapshot
  <2> QED BY <2>1
<1>3. CASE Launch(c)
  BY <1>3 DEF Launch
<1> QED BY <1>1, <1>2, <1>3 DEF CallStep

LEMMA NewsStep == PromptDelivery /\ OneActivation => (NInv /\ [LicensedNext]_vars => NInv')
<1> SUFFICES ASSUME PromptDelivery, OneActivation, NInv, [LicensedNext]_vars PROVE NInv'
  OBVIOUS
<1>0. LInv' /\ licensed \in BOOLEAN /\ stale \in BOOLEAN
  BY LicensedStep DEF NInv, LicenseTypes
<1> DEFINE Goal == LicenseTypes' /\ NewsIsState' /\ PollerHeard' /\ SchedulerHeard'
<1>1. ASSUME Lapses PROVE Goal
  <2>1. LicenseTypes' /\ NewsIsState' /\ SchedulerHeard'
    BY <1>0, <1>1, NoNews DEF Lapses
  <2>2. PollerHeard'
    BY <1>1 DEF Lapses, pollerVars, NInv, PollerHeard
  <2> QED BY <2>1, <2>2
<1>2. ASSUME Ages PROVE Goal
  <2>1. \A l \in Listener : ~Delivering(l)
    BY <1>2 DEF Ages, Busy, Delivering
  <2>2. LicenseTypes' /\ NewsIsState' /\ SchedulerHeard'
    BY <1>0, <1>2, <2>1, NoNews DEF Ages
  <2>3. PollerHeard'
    BY <1>2 DEF Ages, pollerVars, NInv, PollerHeard
  <2> QED BY <2>2, <2>3
<1>3. ASSUME NEW c \in Caller, PollerCall(c)
      PROVE  Goal
  <2>1. LicenseTypes' /\ NewsIsState' /\ SchedulerHeard'
    BY <1>0, <1>3, NoNews DEF PollerCall, licenseVars
  <2>2. PollerHeard'
    BY <1>3, CallHeard DEF PollerCall, licenseVars
  <2> QED BY <2>1, <2>2
<1>4. ASSUME NEW r \in Run, NEW d \in Device, PollerWorker(r, d)
      PROVE  Goal
  <2>1. LicenseTypes' /\ NewsIsState' /\ SchedulerHeard'
    BY <1>0, <1>4, NoNews DEF PollerWorker, licenseVars
  <2>2. \E w \in WorkerState : WorkerTo(r, d, w)
    BY <1>4, WorkerMoves DEF PollerWorker, NInv, LInv
  <2>3. UNCHANGED <<running, pc, state, duty>>
    BY <1>4, <2>2 DEF PollerWorker, WorkerTo, licenseVars
  <2>4. PollerHeard'
    BY <2>3 DEF NInv, PollerHeard
  <2> QED BY <2>1, <2>4
<1>5. ASSUME NEW l \in Listener, CurrentState(l)
      PROVE  Goal
  <2>1. ~Delivering(l) /\ duty[l] # "evaluate"
    BY <1>5 DEF CurrentState, Busy, Delivering
  <2>2. UNCHANGED <<pollerVars, licensed, jobs>> /\ Evaluate(l, TRUE) /\ rlock = None /\ stale
    BY <1>5 DEF CurrentState
  <2> QED BY <1>0, <2>1, <2>2, EvaluationNews
<1>6. ASSUME NEW l \in Listener, Activate(l)
      PROVE  Goal
  <2>1. /\ duty' = [duty EXCEPT ![l] = "evaluate"] /\ licensed' \in BOOLEAN /\ l \in Activator
        /\ UNCHANGED <<pollerVars, state, stale, rlock, news, jobs>> /\ duty[l] = "nothing"
        /\ duty \in [Listener -> {"nothing", "evaluate", "poller", "scheduler"}]
    BY <1>6 DEF Activate, Busy, NInv, LInv, Errands
  <2>2. \A m \in Listener : /\ Delivering(m)' <=> Delivering(m)
                            /\ duty'[m] = "poller" <=> duty[m] = "poller"
                            /\ duty'[m] = "evaluate" => m = l \/ duty[m] = "evaluate"
    BY <2>1 DEF Delivering
  <2>3. NewsIsState'
    BY <2>1, <2>2 DEF NInv, NewsIsState
  <2>4. PollerHeard'
    BY <2>1, <2>2 DEF NInv, PollerHeard, pollerVars
  <2>5. LicenseTypes' /\ SchedulerHeard'
    BY <1>0, <2>1, <2>2 DEF NInv, LicenseTypes, SchedulerHeard
  <2> QED BY <2>3, <2>4, <2>5
<1>7. ASSUME NEW l \in Listener, ReEvaluate(l)
      PROVE  Goal
  <2>1. l \in Activator /\ ~Delivering(l)
    BY <1>7 DEF ReEvaluate, NInv, NewsIsState, Delivering
  <2>2. UNCHANGED <<pollerVars, licensed, jobs>> /\ Evaluate(l, FALSE) /\ rlock = None
    BY <1>7 DEF ReEvaluate
  <2> QED BY <1>0, <2>1, <2>2, EvaluationNews
<1>8. ASSUME NEW c \in Request, Admit(c) \/ Commits(c)
      PROVE  Goal
  <2>1. UNCHANGED <<running, licensed, state, stale, rlock, duty, news, jobs>>
    BY <1>8 DEF Admit, Commits, Put, TakeOut, pollerVars
  <2>2. \/ pc' = pc
        \/ pc[c] = "idle" /\ pc' = [pc EXCEPT ![c] = "stop"]
    BY <1>8 DEF Admit, Commits, Put, TakeOut, pollerVars
  <2>3. pc \in [Caller -> CallerState]
    BY DEF NInv, LInv, IInv, TypeOK
  <2>4. \A b \in Caller : pc[b] \in {"start", "only start", "launch"}
                             => pc'[b] \in {"start", "only start", "launch"}
    BY <2>2, <2>3
  <2>5. PollerHeard'
    BY <2>1, <2>4 DEF NInv, PollerHeard
  <2>6. LicenseTypes' /\ NewsIsState' /\ SchedulerHeard'
    BY <1>0, <2>1, NoNews
  <2> QED BY <2>5, <2>6
<1>9. ASSUME UNCHANGED vars PROVE Goal
  <2>1. UNCHANGED <<licenseVars, running, pc>>
    BY <1>9 DEF vars, pollerVars
  <2>2. LicenseTypes' /\ NewsIsState' /\ SchedulerHeard'
    BY <1>0, <2>1, NoNews DEF licenseVars
  <2>3. PollerHeard'
    BY <2>1 DEF licenseVars, NInv, PollerHeard
  <2> QED BY <2>2, <2>3
<1>10. ASSUME NEW l \in Listener, TellPoller(l) \/ TellScheduler(l)
       PROVE  Goal
  BY <1>10, DeliveryNews
<1>11. Goal
  BY <1>1, <1>2, <1>3, <1>4, <1>5, <1>6, <1>7, <1>8, <1>9, <1>10 DEF LicensedNext
<1> QED BY <1>0, <1>11 DEF NInv

LEMMA NewsGivesState == NInv => ListenersFollowState
<1> SUFFICES ASSUME NInv, Quiet, state # "none"
             PROVE  /\ jobs <=> (Enabled /\ state = "active")
                    /\ Enabled /\ state = "active" => running
  BY DEF ListenersFollowState
<1>1. \A l \in Listener : ~Delivering(l) /\ duty[l] # "poller"
  BY DEF Quiet, Busy, Delivering
<1>2. \A c \in Caller : pc[c] = "idle"
  BY DEF Quiet, Busy
<1>3. jobs <=> (Enabled /\ state = "active")
  BY <1>1 DEF NInv, SchedulerHeard
<1>4. Enabled /\ state = "active" => running
  BY <1>1, <1>2 DEF NInv, PollerHeard
<1> QED BY <1>3, <1>4

(* Once everybody has returned, the Scheduler does what the cached state   *)
(* says and a licensed machine polls: current_state() tells its listeners  *)
(* under the lock, activate() after it, and neither's news is overtaken.   *)
THEOREM ListenersFollow ==
    PromptDelivery /\ OneActivation => (LicensedSpec => []ListenersFollowState)
<1> SUFFICES ASSUME PromptDelivery /\ OneActivation
             PROVE  LicensedSpec => []ListenersFollowState
  OBVIOUS
<1>1. NInv /\ [LicensedNext]_vars => NInv'
  BY NewsStep
<1> QED BY <1>1, NewsStart, NewsGivesState, PTL DEF LicensedSpec
=============================================================================
