---------------------------- MODULE DeviceStatus ----------------------------
(***************************************************************************)
(* The status of one device (acquisition/status.py): the row of `devices`  *)
(* that Poller workers, Read-now requests and operators write, each in a   *)
(* transaction of its own.                                                 *)
(*                                                                         *)
(* A recorder first asks the meter, then loads the row, then commits.      *)
(* Nothing locks the row between the load and the commit (SQLite starts    *)
(* its write transaction at the UPDATE, and the endpoint lock was given    *)
(* back after the read), and the session's UPDATE names only the columns   *)
(* that differ from what it loaded.  So two transactions may overlap, and  *)
(* a commit mixes its columns with those of the other one.                 *)
(*                                                                         *)
(* A deleted device's id is given to the next device created (the key is   *)
(* a plain SQLite rowid), so a late commit can land on another device.     *)
(***************************************************************************)
EXTENDS Naturals

CONSTANTS
    Worker,         \* Poller workers for this id: the current and retired ones
    Request,        \* Read-now requests
    Operator,       \* Pause and Resume requests
    OfflineAfter,   \* OFFLINE_AFTER_CONSECUTIVE_FAILURES
    BusyDatabase,   \* whether a commit may fail on a busy database
    NoRow           \* the device is deleted

ASSUME ThresholdAssumption == OfflineAfter \in Nat \ {0}
ASSUME SwitchAssumption == BusyDatabase \in BOOLEAN

Recorder == Worker \cup Request
Session  == Recorder \cup Operator

Status == {"online", "offline", "unknown"}

\* Strikes from the threshold on all mean the same, but each differs from
\* the one before it, which is what makes the session write the column.
MaxStrikes == OfflineAfter + 1
Strike(n)  == IF n = MaxStrikes THEN OfflineAfter ELSE n + 1

Row == [enabled : BOOLEAN, status : Status, failures : 0 .. MaxStrikes]

Created == [enabled |-> TRUE, status |-> "online", failures |-> 0]
Legacy  == [enabled |-> TRUE, status |-> "unknown", failures |-> 0]

VARIABLES
    row,        \* the committed row, or NoRow
    log,        \* the last status event recorded for the row (retention may have
                \* removed it since), and a bit that each one flips
    answers,    \* whether the meter answers its serial register
    driven,     \* whether this build has a driver for the stored model
    phase,      \* what each session does
    task,       \* what each session is about to record
    loaded,     \* the row each session loaded
    overlapped  \* history: two transactions on the row have overlapped

vars == <<row, log, answers, driven, phase, task, loaded, overlapped>>

Task == {"none", "ok", "failed", "no_driver", "last_resort", "pause", "resume"}

TypeOK ==
    /\ row \in Row \cup {NoRow}
    /\ log \in [last : {"none", "online", "offline"}, turn : BOOLEAN]
    /\ answers \in BOOLEAN /\ driven \in BOOLEAN /\ overlapped \in BOOLEAN
    /\ phase \in [Session -> {"idle", "told", "loaded"}]
    /\ task \in [Session -> Task]
    /\ loaded \in [Session -> Row \cup {NoRow}]
    /\ \A s \in Session : /\ phase[s] = "loaded" <=> loaded[s] # NoRow
                          /\ phase[s] = "idle" <=> task[s] = "none"

Init ==
    /\ \/ row = Created /\ driven = TRUE /\ log = [last |-> "online", turn |-> FALSE]
       \/ row = Legacy /\ driven \in BOOLEAN /\ log = [last |-> "none", turn |-> FALSE]
    /\ answers \in BOOLEAN
    /\ phase = [s \in Session |-> "idle"]
    /\ task = [s \in Session |-> "none"]
    /\ loaded = [s \in Session |-> NoRow]
    /\ overlapped = FALSE

Goes(s, where, what, seen) ==
    /\ phase' = [phase EXCEPT ![s] = where]
    /\ task' = [task EXCEPT ![s] = what]
    /\ loaded' = [loaded EXCEPT ![s] = seen]

Ends(s) == Goes(s, "idle", "none", NoRow)

\* One event of kind k is added to the log.
Logged(k) == log' = [last |-> k, turn |-> ~log.turn]

-----------------------------------------------------------------------------
(* Reading the meter: a tick of a worker, the liveness read of Read now.   *)

\* A device without a driver has no worker.  Read now says so without asking,
\* and so does each start() of the Poller (one more Request to this module).
Ask(r) ==
    /\ phase[r] = "idle" /\ row # NoRow
    /\ driven \/ r \in Request
    /\ Goes(r, "told", IF ~driven THEN "no_driver"
                       ELSE IF answers THEN "ok" ELSE "failed", NoRow)
    /\ UNCHANGED <<row, log, answers, driven, overlapped>>

\* A click on Pause or Resume; one that would change nothing returns early.
Click(o) ==
    /\ phase[o] = "idle" /\ row # NoRow
    /\ Goes(o, "told", IF row.enabled THEN "pause" ELSE "resume", NoRow)
    /\ UNCHANGED <<row, log, answers, driven, overlapped>>

-----------------------------------------------------------------------------
(* The transaction: load, then commit or roll back.                        *)

\* A step of s on the row, while other transactions may have it loaded.
Meets(s) ==
    overlapped' = (overlapped \/ \E o \in Session \ {s} : phase[o] = "loaded")

\* The device is gone, or the click has already been obeyed: return.
LoadNothing(s) ==
    /\ phase[s] = "told"
    /\ \/ row = NoRow
       \/ task[s] = "pause" /\ row # NoRow /\ ~row.enabled
       \/ task[s] = "resume" /\ row # NoRow /\ row.enabled
    /\ Ends(s)
    /\ UNCHANGED <<row, log, answers, driven, overlapped>>

Load(s) ==
    /\ phase[s] = "told" /\ row # NoRow
    /\ task[s] = "pause" => row.enabled
    /\ task[s] = "resume" => ~row.enabled
    /\ Goes(s, "loaded", task[s], row)
    /\ Meets(s)
    /\ UNCHANGED <<row, log, answers, driven>>

\* What a task assigns to the row it loaded.
record_no_driver(d) == [d EXCEPT !.status = "unknown", !.failures = 0]

record_success(d) == [d EXCEPT !.status = "online", !.failures = 0]

\* Mutant: a device of unknown status counts no strikes.
record_failureOfKnown(d) ==
    [d EXCEPT !.failures = IF d.status = "unknown" THEN 0 ELSE Strike(@),
              !.status = IF d.status # "unknown" /\ Strike(d.failures) >= OfflineAfter
                         THEN "offline" ELSE @]

record_failure(d) ==
    [d EXCEPT !.failures = Strike(@),
              !.status = IF Strike(d.failures) >= OfflineAfter THEN "offline" ELSE @]

Assigned(what, d) ==
    CASE what = "ok"        -> record_success(d)
      [] what = "no_driver" -> record_no_driver(d)
      [] what = "pause"     -> [d EXCEPT !.enabled = FALSE]
      [] what = "resume"    -> [record_no_driver(d) EXCEPT !.enabled = TRUE]
      [] OTHER              -> record_failure(d)

\* Mutant: every column is written, changed or not.
FlushedWhole(old, new) == new

\* The UPDATE the session flushes: the columns that differ from the loaded row.
Flushed(old, new) ==
    [enabled  |-> IF new.enabled # old.enabled THEN new.enabled ELSE row.enabled,
     status   |-> IF new.status # old.status THEN new.status ELSE row.status,
     failures |-> IF new.failures # old.failures THEN new.failures ELSE row.failures]

\* The status event of the same transaction: recorded when the loaded status
\* differs from the new one and the new one is a fact about the meter.
EventOf(old, new) ==
    IF new.status # old.status /\ new.status # "unknown" THEN new.status ELSE "none"

Commit(s) ==
    /\ phase[s] = "loaded" /\ row # NoRow
    /\ LET old == loaded[s]
           new == Assigned(task[s], old)
       IN  /\ row' = Flushed(old, new)
           /\ IF EventOf(old, new) # "none" THEN Logged(EventOf(old, new))
                                            ELSE UNCHANGED log
    /\ Ends(s)
    /\ UNCHANGED <<answers, driven, overlapped>>

\* The UPDATE finds no row (the device was deleted) or the database stays
\* busy: nothing is written.  A worker's handler of last resort then counts
\* the tick as a failure, once; a request ends with an error.
RollBack(s) ==
    /\ phase[s] = "loaded" /\ (row = NoRow \/ BusyDatabase)
    /\ IF s \in Worker /\ task[s] # "last_resort"
         THEN Goes(s, "told", "last_resort", NoRow)
         ELSE Ends(s)
    /\ UNCHANGED <<row, log, answers, driven, overlapped>>

-----------------------------------------------------------------------------
(* Other writers of the row, one statement each.                           *)

delete_device ==
    /\ row # NoRow
    /\ overlapped' = (overlapped \/ \E s \in Session : phase[s] = "loaded")
    /\ row' = NoRow /\ log' = [last |-> "none", turn |-> FALSE]
    /\ UNCHANGED <<answers, driven, phase, task, loaded>>

\* The new device was probed a moment ago, and takes the free id.
create_device ==
    /\ row = NoRow /\ answers
    /\ row' = Created /\ log' = [last |-> "online", turn |-> FALSE]
    /\ driven' = TRUE
    /\ UNCHANGED <<answers, phase, task, loaded, overlapped>>

\* Update writes no status column; it gives a legacy row a model with a driver.
update_device ==
    /\ row # NoRow /\ ~driven /\ answers
    /\ driven' = TRUE
    /\ UNCHANGED <<row, log, answers, phase, task, loaded, overlapped>>

Meter ==
    /\ answers' = ~answers
    /\ UNCHANGED <<row, log, driven, phase, task, loaded, overlapped>>

Next ==
    \/ \E r \in Recorder : Ask(r)
    \/ \E o \in Operator : Click(o)
    \/ \E s \in Session : LoadNothing(s) \/ Load(s) \/ Commit(s) \/ RollBack(s)
    \/ delete_device \/ create_device \/ update_device
    \/ Meter

Spec == Init /\ [][Next]_vars

\* A worker ticks as long as its device is enabled, and Manual Reads do not
\* make it skip every tick; every transaction goes on.
Fairness ==
    /\ \A w \in Worker : WF_vars(row # NoRow /\ row.enabled /\ Ask(w))
    /\ \A s \in Session : /\ WF_vars(LoadNothing(s)) /\ WF_vars(Load(s))
                          /\ WF_vars(Commit(s) \/ RollBack(s))

FairSpec == Spec /\ Fairness

-----------------------------------------------------------------------------
(* What holds however the transactions overlap.                            *)

\* The event log never contradicts the row: a device that is stored as online
\* or offline has an event (or its creation) saying so, and no later event
\* says otherwise.  Event and column share a transaction, and a column the
\* session did not change is not written back over a newer one.
LogMatchesStatus ==
    row # NoRow /\ row.status # "unknown" => log.last = row.status

\* A meter that stops answering for good ends Offline and stays there, in
\* spite of updates lost to each other.
DeadMeterGoesOffline ==
    <>[](row # NoRow /\ driven /\ row.enabled /\ ~answers)
        => <>[](row # NoRow /\ row.status = "offline")

\* A meter that answers from some point on ends Online with no strikes.
AnsweringMeterGoesOnline ==
    <>[](row # NoRow /\ driven /\ row.enabled /\ answers)
        => <>[](row # NoRow /\ row.status = "online" /\ row.failures = 0)

(* What holds as long as no two transactions have overlapped.              *)

\* db/models.py:154 of the strike counter: it "can never disagree with the
\* status it produced".  Offline exactly from the threshold on.
StatusMatchesStrikes ==
    row # NoRow => (row.status = "offline" <=> row.failures >= OfflineAfter)

\* Only overlapping transactions can make status and strikes disagree: no
\* sequence of ticks, reads, pauses, deletions and failing commits does.
StrikesAgreeUntilOverlap == ~overlapped => StatusMatchesStrikes

\* Events record changes only: a status event is added exactly by the step
\* that changes the stored status to what the event says.
EventsRecordChangesOnly ==
    [][~overlapped' /\ log'.turn # log.turn /\ row # NoRow /\ row' # NoRow
          => row.status # row'.status /\ row'.status = log'.last]_vars
=============================================================================
