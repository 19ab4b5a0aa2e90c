------------------------- MODULE DeviceStatusProofs -------------------------
(***************************************************************************)
(* Proofs about the device status, for any sets of workers, requests and   *)
(* operators and any threshold: what holds however the transactions        *)
(* overlap, and what holds when they do not.                               *)
(***************************************************************************)
EXTENDS DeviceStatus, TLAPS

USE DEF Recorder, Session

LEMMA StrikeType ==
    ASSUME NEW n \in 0 .. MaxStrikes
    PROVE  /\ Strike(n) \in 1 .. MaxStrikes
           /\ n >= OfflineAfter => Strike(n) >= OfflineAfter
BY ThresholdAssumption DEF Strike, MaxStrikes

LEMMA AssignedType ==
    ASSUME NEW d \in Row, NEW what \in Task
    PROVE  Assigned(what, d) \in Row
<1>1. d.enabled \in BOOLEAN /\ d.status \in Status /\ d.failures \in 0 .. MaxStrikes
  BY DEF Row
<1>2. 0 \in 0 .. MaxStrikes /\ Strike(d.failures) \in 0 .. MaxStrikes
  BY <1>1, StrikeType, ThresholdAssumption DEF MaxStrikes
<1>3. record_success(d) \in Row
  BY <1>2 DEF record_success, Row, Status
<1>4. record_no_driver(d) \in Row
  BY <1>2 DEF record_no_driver, Row, Status
<1>5. record_failure(d) \in Row
  BY <1>1, <1>2 DEF record_failure, Row, Status
<1>6. [d EXCEPT !.enabled = FALSE] \in Row
  BY DEF Row
<1>7. [record_no_driver(d) EXCEPT !.enabled = TRUE] \in Row
  BY <1>4 DEF Row
<1> QED BY <1>3, <1>4, <1>5, <1>6, <1>7 DEF Assigned

LEMMA FlushedType ==
    ASSUME NEW old \in Row, NEW new \in Row, row \in Row
    PROVE  Flushed(old, new) \in Row
BY DEF Flushed, Row

\* A session moves on: the types of what belongs to it.
LEMMA GoesType ==
    ASSUME TypeOK, NEW s \in Session, NEW where \in {"idle", "told", "loaded"},
           NEW what \in Task, NEW seen \in Row \cup {NoRow},
           where = "loaded" <=> seen # NoRow, where = "idle" <=> what = "none",
           Goes(s, where, what, seen)
    PROVE  /\ phase' \in [Session -> {"idle", "told", "loaded"}]
           /\ task' \in [Session -> Task]
           /\ loaded' \in [Session -> Row \cup {NoRow}]
           /\ \A t \in Session : /\ phase'[t] = "loaded" <=> loaded'[t] # NoRow
                                 /\ phase'[t] = "idle" <=> task'[t] = "none"
<1>1. /\ phase' \in [Session -> {"idle", "told", "loaded"}]
      /\ task' \in [Session -> Task]
      /\ loaded' \in [Session -> Row \cup {NoRow}]
  BY DEF TypeOK, Goes
<1>2. ASSUME NEW t \in Session
      PROVE  /\ phase'[t] = "loaded" <=> loaded'[t] # NoRow
             /\ phase'[t] = "idle" <=> task'[t] = "none"
  <2>1. CASE t = s
    BY <2>1 DEF TypeOK, Goes
  <2>2. CASE t # s
    BY <2>2 DEF TypeOK, Goes
  <2> QED BY <2>1, <2>2
<1> QED BY <1>1, <1>2

LEMMA InitType == Init => TypeOK /\ LogMatchesStatus
<1> SUFFICES ASSUME Init PROVE TypeOK /\ LogMatchesStatus
  OBVIOUS
<1>1. Created \in Row /\ Legacy \in Row
  BY ThresholdAssumption DEF Created, Legacy, Row, Status, MaxStrikes
<1>2. TypeOK
  <2>1. row \in Row /\ log \in [last : {"none", "online", "offline"}, turn : BOOLEAN]
        /\ answers \in BOOLEAN /\ driven \in BOOLEAN /\ overlapped \in BOOLEAN
    <3>1. /\ row \in Row /\ answers \in BOOLEAN /\ driven \in BOOLEAN /\ overlapped \in BOOLEAN
          /\ \E k \in {"none", "online"} : log = [last |-> k, turn |-> FALSE]
      BY <1>1 DEF Init
    <3> QED BY <3>1
  <2>2. /\ phase \in [Session -> {"idle", "told", "loaded"}]
        /\ task \in [Session -> Task]
        /\ loaded \in [Session -> Row \cup {NoRow}]
    BY DEF Init, Task
  <2>3. \A s \in Session : phase[s] = "idle" /\ task[s] = "none" /\ loaded[s] = NoRow
    BY DEF Init
  <2> QED BY <2>1, <2>2, <2>3 DEF TypeOK
<1>3. LogMatchesStatus
  BY DEF Init, LogMatchesStatus, Created, Legacy
<1> QED BY <1>2, <1>3

LEMMA StepType == TypeOK /\ [Next]_vars => TypeOK'
<1> SUFFICES ASSUME TypeOK, [Next]_vars PROVE TypeOK'
  OBVIOUS
<1>0. "none" \in Task /\ NoRow \in Row \cup {NoRow}
  BY DEF Task
<1>1. ASSUME NEW r \in Recorder, Ask(r) PROVE TypeOK'
  <2>1. PICK what \in {"ok", "failed", "no_driver"} : Goes(r, "told", what, NoRow)
    BY <1>1 DEF Ask
  <2>2. what \in Task /\ what # "none"
    BY DEF Task
  <2> QED BY <1>0, <1>1, <2>1, <2>2, GoesType DEF Ask, TypeOK
<1>2. ASSUME NEW o \in Operator, Click(o) PROVE TypeOK'
  <2>1. PICK what \in {"pause", "resume"} : Goes(o, "told", what, NoRow)
    BY <1>2 DEF Click
  <2>2. what \in Task /\ what # "none"
    BY DEF Task
  <2> QED BY <1>0, <1>2, <2>1, <2>2, GoesType DEF Click, TypeOK
<1>3. ASSUME NEW s \in Session, LoadNothing(s) PROVE TypeOK'
  BY <1>0, <1>3, GoesType DEF LoadNothing, Ends, TypeOK
<1>4. ASSUME NEW s \in Session, Load(s) PROVE TypeOK'
  <2>1. task[s] \in Task /\ task[s] # "none" /\ row \in Row \cup {NoRow} /\ row # NoRow
    BY <1>4 DEF Load, TypeOK
  <2> QED BY <1>4, <2>1, GoesType DEF Load, Meets, TypeOK
<1>5. ASSUME NEW s \in Session, Commit(s) PROVE TypeOK'
  <2>1. loaded[s] \in Row /\ row \in Row /\ task[s] \in Task
    BY <1>5 DEF Commit, TypeOK
  <2>2. Assigned(task[s], loaded[s]) \in Row
    BY <2>1, AssignedType
  <2>3. row' \in Row
    BY <1>5, <2>1, <2>2, FlushedType DEF Commit
  <2>4. EventOf(loaded[s], Assigned(task[s], loaded[s])) \in {"none", "online", "offline"}
    BY <2>2 DEF EventOf, Row, Status
  <2>5. log' \in [last : {"none", "online", "offline"}, turn : BOOLEAN]
    <3> DEFINE event == EventOf(loaded[s], Assigned(task[s], loaded[s]))
    <3>1. log' = log \/ log' = [last |-> event, turn |-> ~log.turn]
      BY <1>5 DEF Commit, Logged
    <3>2. event \in {"none", "online", "offline"}
      BY <2>4
    <3> HIDE DEF event
    <3>3. log \in [last : {"none", "online", "offline"}, turn : BOOLEAN]
      BY DEF TypeOK
    <3>4. (~log.turn) \in BOOLEAN
      BY <3>3
    <3>5. CASE log' = log
      BY <3>3, <3>5
    <3>6. CASE log' = [last |-> event, turn |-> ~log.turn]
      <4>1. PICK bit \in BOOLEAN : log' = [last |-> event, turn |-> bit]
        BY <3>4, <3>6, Zenon
      <4> QED BY <3>2, <4>1
    <3> QED BY <3>1, <3>5, <3>6
  <2> QED BY <1>0, <1>5, <2>3, <2>5, GoesType DEF Commit, Ends, TypeOK
<1>6. ASSUME NEW s \in Session, RollBack(s) PROVE TypeOK'
  <2>1. \/ Goes(s, "told", "last_resort", NoRow)
        \/ Goes(s, "idle", "none", NoRow)
    BY <1>6 DEF RollBack, Ends
  <2>2. "last_resort" \in Task
    BY DEF Task
  <2> QED BY <1>0, <1>6, <2>1, <2>2, GoesType DEF RollBack, TypeOK
<1>7. CASE delete_device
  BY <1>7 DEF delete_device, TypeOK
<1>8. CASE create_device
  <2>1. Created \in Row
    BY ThresholdAssumption DEF Created, Row, Status, MaxStrikes
  <2> QED BY <1>8, <2>1 DEF create_device, TypeOK
<1>9. CASE update_device
  BY <1>9 DEF update_device, TypeOK
<1>10. CASE Meter
  BY <1>10 DEF Meter, TypeOK
<1>11. CASE UNCHANGED vars
  BY <1>11 DEF vars, TypeOK
<1> QED BY <1>1, <1>2, <1>3, <1>4, <1>5, <1>6, <1>7, <1>8, <1>9, <1>10, <1>11 DEF Next

\* Every variable of the device status keeps to its type.
THEOREM TypeCorrect == Spec => []TypeOK
BY InitType, StepType, PTL DEF Spec

-----------------------------------------------------------------------------
(* However the transactions overlap.                                       *)

\* A commit adds the event of exactly the status column it writes.
LEMMA CommitLogs ==
    ASSUME TypeOK, LogMatchesStatus, NEW s \in Session, Commit(s)
    PROVE  LogMatchesStatus'
<1> DEFINE old == loaded[s]
           new == Assigned(task[s], loaded[s])
<1>1. row' = Flushed(old, new) /\ row # NoRow
  BY DEF Commit
<1>2. row'.status = IF new.status # old.status THEN new.status ELSE row.status
  BY <1>1 DEF Flushed
<1>3. CASE new.status = old.status
  <2>1. log' = log
    BY <1>3 DEF Commit, EventOf
  <2> QED BY <1>1, <1>2, <1>3, <2>1 DEF LogMatchesStatus
<1>4. CASE new.status # old.status /\ new.status # "unknown"
  <2>1. new.status \in Status
    <3>1. loaded[s] \in Row /\ task[s] \in Task
      BY DEF Commit, TypeOK
    <3> QED BY <3>1, AssignedType DEF Row
  <2>2. EventOf(old, new) = new.status /\ new.status # "none"
    BY <1>4, <2>1 DEF EventOf, Status
  <2>3. log'.last = new.status
    BY <2>2 DEF Commit, Logged
  <2> QED BY <1>2, <1>4, <2>3 DEF LogMatchesStatus
<1>5. CASE new.status # old.status /\ new.status = "unknown"
  BY <1>2, <1>5 DEF LogMatchesStatus
<1> QED BY <1>3, <1>4, <1>5

LEMMA StepLogs == TypeOK /\ LogMatchesStatus /\ [Next]_vars => LogMatchesStatus'
<1> SUFFICES ASSUME TypeOK, LogMatchesStatus, [Next]_vars PROVE LogMatchesStatus'
  OBVIOUS
<1>1. CASE UNCHANGED <<row, log>>
  BY <1>1 DEF LogMatchesStatus
<1>2. CASE delete_device
  BY <1>2 DEF delete_device, LogMatchesStatus
<1>3. CASE create_device
  BY <1>3 DEF create_device, Created, LogMatchesStatus
<1>4. CASE \E s \in Session : Commit(s)
  BY <1>4, CommitLogs
<1> QED BY <1>1, <1>2, <1>3, <1>4
        DEF Next, vars, Ask, Click, LoadNothing, Load, RollBack, update_device, Meter

\* The event log never contradicts the stored status, in spite of overlapping
\* transactions, deletions and a reused id (acquisition/status.py).
THEOREM LogAgrees == Spec => []LogMatchesStatus
BY InitType, StepType, StepLogs, PTL DEF Spec
-----------------------------------------------------------------------------
(* Until transactions overlap, a loaded row is the row itself.             *)

LoadedIsCurrent ==
    \A s \in Session : phase[s] = "loaded" =>
        /\ loaded[s] = row /\ row # NoRow
        /\ \A t \in Session \ {s} : phase[t] # "loaded"

SerialInv == TypeOK /\ (~overlapped => LoadedIsCurrent /\ StatusMatchesStrikes)

LEMMA SerialInit == Init => SerialInv
<1> SUFFICES ASSUME Init PROVE SerialInv
  OBVIOUS
<1>1. LoadedIsCurrent
  BY DEF Init, LoadedIsCurrent
<1>2. StatusMatchesStrikes
  BY ThresholdAssumption DEF Init, StatusMatchesStrikes, Created, Legacy
<1> QED BY <1>1, <1>2, InitType DEF SerialInv

\* Every task leaves a row whose status and strikes agree, given such a row.
LEMMA AssignedAgrees ==
    ASSUME NEW d \in Row, d.status = "offline" <=> d.failures >= OfflineAfter,
           NEW what \in Task
    PROVE  LET n == Assigned(what, d)
           IN  n.status = "offline" <=> n.failures >= OfflineAfter
<1>1. d.failures \in 0 .. MaxStrikes /\ d.status \in Status
  BY DEF Row
<1>2. d.failures >= OfflineAfter => Strike(d.failures) >= OfflineAfter
  BY <1>1, StrikeType
<1>3. ~(0 >= OfflineAfter)
  BY ThresholdAssumption
<1>4. DEFINE ok == record_success(d)
<1>5. ok.status = "online" /\ ok.failures = 0
  BY DEF record_success, Row
<1>6. DEFINE nothing == record_no_driver(d)
<1>7. nothing.status = "unknown" /\ nothing.failures = 0
  BY DEF record_no_driver, Row
<1>8. DEFINE failed == record_failure(d)
<1>9. failed.status = "offline" <=> failed.failures >= OfflineAfter
  <2>1. /\ failed.failures = Strike(d.failures)
        /\ failed.status = IF Strike(d.failures) >= OfflineAfter THEN "offline" ELSE d.status
    BY DEF record_failure, Row
  <2> QED BY <1>2, <2>1
<1>10. DEFINE paused == [d EXCEPT !.enabled = FALSE]
<1>11. paused.status = d.status /\ paused.failures = d.failures
  BY DEF Row
<1>12. DEFINE resumed == [record_no_driver(d) EXCEPT !.enabled = TRUE]
<1>13. resumed.status = "unknown" /\ resumed.failures = 0
  BY DEF record_no_driver, Row
<1> HIDE DEF ok, nothing, failed, paused, resumed
<1>14. Assigned(what, d) \in {ok, nothing, failed, paused, resumed}
  BY DEF Assigned, ok, nothing, failed, paused, resumed
<1> QED BY <1>3, <1>5, <1>7, <1>9, <1>11, <1>13, <1>14

LEMMA SerialStep == SerialInv /\ [Next]_vars => SerialInv'
<1> SUFFICES ASSUME SerialInv, [Next]_vars, ~overlapped'
             PROVE  LoadedIsCurrent' /\ StatusMatchesStrikes'
  BY StepType DEF SerialInv
<1>0. TypeOK /\ TypeOK'
  BY StepType DEF SerialInv
<1>a. ~overlapped
  BY <1>0 DEF TypeOK, Next, vars, Ask, Click, LoadNothing, Load, Meets, Commit, RollBack,
              delete_device, create_device, update_device, Meter
<1>b. LoadedIsCurrent /\ StatusMatchesStrikes
  BY <1>a DEF SerialInv
<1> DEFINE Goal == LoadedIsCurrent' /\ StatusMatchesStrikes'
<1>1. CASE UNCHANGED vars
  BY <1>b, <1>1 DEF vars, LoadedIsCurrent, StatusMatchesStrikes
<1>2. ASSUME NEW s \in Session, NEW where \in {"idle", "told"}, NEW what,
             Goes(s, where, what, NoRow), UNCHANGED row
      PROVE  Goal
  BY <1>0, <1>b, <1>2 DEF Goes, TypeOK, LoadedIsCurrent, StatusMatchesStrikes
<1>3. CASE \E r \in Recorder : Ask(r)
  BY <1>2, <1>3 DEF Ask
<1>4. CASE \E o \in Operator : Click(o)
  BY <1>2, <1>4 DEF Click
<1>5. CASE \E s \in Session : LoadNothing(s)
  BY <1>2, <1>5 DEF LoadNothing, Ends
<1>6. CASE \E s \in Session : RollBack(s)
  BY <1>2, <1>6 DEF RollBack, Ends
<1>7. ASSUME NEW s \in Session, Load(s) PROVE Goal
  <2>1. \A t \in Session \ {s} : phase[t] # "loaded"
    BY <1>7 DEF Load, Meets
  <2>2. LoadedIsCurrent'
    BY <1>0, <1>7, <2>1 DEF Load, Goes, TypeOK, LoadedIsCurrent
  <2>3. StatusMatchesStrikes'
    BY <1>b, <1>7 DEF Load, StatusMatchesStrikes
  <2> QED BY <2>2, <2>3
<1>8. ASSUME NEW s \in Session, Commit(s) PROVE Goal
  <2>1. /\ loaded[s] = row /\ row \in Row /\ task[s] \in Task
        /\ \A t \in Session \ {s} : phase[t] # "loaded"
    BY <1>0, <1>b, <1>8 DEF Commit, LoadedIsCurrent, TypeOK
  <2>2. row' = Flushed(row, Assigned(task[s], row)) /\ row # NoRow
    BY <1>8, <2>1 DEF Commit
  <2>3. Assigned(task[s], row) \in Row
    BY <2>1, AssignedType
  <2>4. /\ row'.status = Assigned(task[s], row).status
        /\ row'.failures = Assigned(task[s], row).failures
    BY <2>2 DEF Flushed
  <2>5. StatusMatchesStrikes'
    BY <1>b, <2>1, <2>2, <2>4, AssignedAgrees DEF StatusMatchesStrikes
  <2>6. LoadedIsCurrent'
    BY <1>0, <1>8, <2>1 DEF Commit, Ends, Goes, TypeOK, LoadedIsCurrent
  <2> QED BY <2>5, <2>6
<1>9. CASE delete_device
  <2>1. \A s \in Session : phase[s] # "loaded"
    BY <1>9 DEF delete_device
  <2> QED BY <1>9, <2>1 DEF delete_device, LoadedIsCurrent, StatusMatchesStrikes
<1>10. CASE create_device
  <2>1. StatusMatchesStrikes'
    BY <1>10, ThresholdAssumption DEF create_device, Created, StatusMatchesStrikes
  <2> QED BY <1>b, <1>10, <2>1 DEF create_device, LoadedIsCurrent
<1>11. CASE update_device \/ Meter
  BY <1>b, <1>11 DEF update_device, Meter, LoadedIsCurrent, StatusMatchesStrikes
<1> QED BY <1>1, <1>3, <1>4, <1>5, <1>6, <1>7, <1>8, <1>9, <1>10, <1>11 DEF Next

\* Until two transactions overlap, a device is Offline exactly from the
\* threshold of consecutive failures on (db/models.py:154), for any threshold
\* and any number of workers, requests and operators.
THEOREM StrikesAgree == Spec => []StrikesAgreeUntilOverlap
<1>1. SerialInv => StrikesAgreeUntilOverlap
  BY DEF SerialInv, StrikesAgreeUntilOverlap
<1> QED BY <1>1, SerialStep, SerialInit, PTL DEF Spec
=============================================================================
