------------------------------- MODULE Billing -------------------------------
(***************************************************************************)
(* The billing read of one device (acquisition/billing.py): the whole      *)
(* buffer of the meter is read each time, closed periods are inserted if   *)
(* absent, and the one Open Period slot is moved.  The Billing Change      *)
(* Check, which rides on the load-profile walk, decides whether to read    *)
(* before the daily job does.  Delete all data (api/devices.py) may fall   *)
(* between any two statements of a store.                                  *)
(*                                                                         *)
(* Closed periods are numbered in the order the meter closed them; the     *)
(* meter keeps the last Ring of them.  A row remembers which period it was *)
(* read from: the code cannot see that, the properties can.                *)
(***************************************************************************)
EXTENDS Naturals, Sequences, FiniteSets, FiniteSetsExt

CONSTANTS
    Manual,         \* Read-now requests
    Background,     \* the Scheduler's thread: the daily job and the walk's check
    Ring,           \* how many closed periods the meter keeps
    MaxPeriods,     \* bound: periods the meter closes in a behaviour
    MaxDate,        \* bound: bill dates its clock may stamp
    MaxClears,      \* bound: times an operator deletes all data
    None

ASSUME BillingAssumption ==
    /\ Ring \in Nat \ {0} /\ MaxPeriods \in Nat \ {0, 1}
    /\ MaxDate \in Nat \ {0} /\ MaxClears \in Nat
    /\ Manual \cap Background = {} /\ None \notin Manual \cup Background

Reader == Manual \cup Background
Period == 1 .. MaxPeriods
Date   == 1 .. MaxDate

VARIABLES
    dates,      \* the bill date of each period the meter has closed, oldest first
    profile,    \* whether this meter family's buffer holds an Open Period
    rows,       \* the closed periods in billing_readings
    slot,       \* the period that was running when the Open Period row was read, or 0
    line,       \* who holds the Transport Endpoint, of these readers
    reader,     \* each reader's progress
    clears

vars == <<dates, profile, rows, slot, line, reader, clears>>

ClosedRow == [bill_date : Date, sequence : Nat, period : Period]

\* pc: "visit" is a load-profile walk about to run the check, "triggered" the
\* walk after it gave the line back, "reading" a billing read that holds the
\* line, "storing" one between two statements of _store.  `through` is the newest
\* period of the buffer it read, `open` whether that had an open entry, `at` the
\* entry it looks up next.
Idle    == [pc |-> "idle", through |-> 0, open |-> FALSE, at |-> 0]
Reading == [pc : {"idle", "visit", "triggered", "reading", "storing"},
            through : 0 .. MaxPeriods, open : BOOLEAN, at : 0 .. MaxPeriods]

TypeOK ==
    /\ dates \in Seq(Date) /\ Len(dates) <= MaxPeriods
    /\ profile \in BOOLEAN
    /\ rows \subseteq ClosedRow
    /\ slot \in 0 .. MaxPeriods + 1
    /\ line \in Reader \cup {None}
    /\ reader \in [Reader -> Reading]
    /\ \A r \in Reader : line = r <=> reader[r].pc \in {"visit", "reading", "storing"}
    /\ clears \in 0 .. MaxClears

\* A meter with some history, an empty table, and perhaps an Open Period row
\* from before its driver said that the family has none.
Init ==
    /\ dates \in {<<>>, <<1>>, <<1, 1>>}
    /\ profile \in BOOLEAN
    /\ rows = {}
    /\ slot \in IF profile THEN {0} ELSE {0, 1}
    /\ line = None
    /\ reader = [r \in Reader |-> Idle]
    /\ clears = 0

-----------------------------------------------------------------------------
(* The meter.                                                              *)

\* What it held when `through` periods had been closed.
Buffer(through) == {p \in 1 .. through : p + Ring > through}
Held == Buffer(Len(dates))

\* A period ends: or two in the same second, when a tariff is rescaled.  The
\* meter's clock may have been set back, but stamps no second it stamped before.
Closes ==
    \E d \in Date, pair \in BOOLEAN :
        /\ \A p \in DOMAIN dates : dates[p] # d
        /\ dates' = dates \o IF pair THEN <<d, d>> ELSE <<d>>
        /\ Len(dates') <= MaxPeriods
        /\ UNCHANGED <<profile, rows, slot, line, reader, clears>>

-----------------------------------------------------------------------------
(* What the Billing Change Check compares.                                 *)

\* MAX(bill_date) of the closed rows, 0 for no row: no meter stamps that.
NewestStored == Max({0} \cup {row.bill_date : row \in rows})

\* Mutant: only a newer bill date counts as a change.
ChangedForward ==
    dates # <<>> /\ dates[Len(dates)] > NewestStored

\* The meter's newest closed bill date is another one, or nothing is stored.
Changed ==
    dates # <<>> /\ dates[Len(dates)] # NewestStored

-----------------------------------------------------------------------------
(* read_and_store_billing.                                                 *)

Leave(r) ==
    /\ line' = None
    /\ reader' = [reader EXCEPT ![r] = Idle]

\* Mutant: the daily job reads only what the check finds changed.
TakeLineIfChanged(r) ==
    /\ reader[r].pc = "triggered" \/ (reader[r].pc = "idle" /\ (r \in Manual \/ Changed))
    /\ line = None
    /\ line' = r
    /\ reader' = [reader EXCEPT ![r] = [Idle EXCEPT !.pc = "reading"]]
    /\ UNCHANGED <<dates, profile, rows, slot, clears>>

\* Read now waits for the line, the Scheduler takes it or goes on without: what a
\* busy line costs either is no step here.
TakeLine(r) ==
    /\ reader[r].pc \in {"idle", "triggered"} /\ line = None
    /\ line' = r
    /\ reader' = [reader EXCEPT ![r] = [Idle EXCEPT !.pc = "reading"]]
    /\ UNCHANGED <<dates, profile, rows, slot, clears>>

\* The line was taken between the check and the read it asked for.
SkipsTriggered(r) ==
    /\ reader[r].pc = "triggered" /\ line # None
    /\ reader' = [reader EXCEPT ![r] = Idle]
    /\ UNCHANGED <<dates, profile, rows, slot, line, clears>>

\* The whole buffer, in one round trip.  A family with an Open Period may for once
\* not report it.
ReadBuffer(r) ==
    /\ reader[r].pc = "reading"
    /\ \E open \in {profile, FALSE} :
         reader' = [reader EXCEPT ![r] = [pc |-> "storing", through |-> Len(dates),
                                          open |-> open, at |-> Len(dates)]]
    /\ UNCHANGED <<dates, profile, rows, slot, line, clears>>

\* Connecting, reading or storing raises: nothing of the transaction remains.  A
\* slot deleted between its SELECT and its UPDATE is one way to get here.
ReadFails(r) ==
    /\ reader[r].pc \in {"reading", "storing"}
    /\ Leave(r)
    /\ UNCHANGED <<dates, profile, rows, slot, clears>>

-----------------------------------------------------------------------------
(* _store.                                                                 *)

\* Mutant: counted from the oldest entry of the buffer.
SequenceFromOldest(through, p) ==
    Cardinality({q \in Buffer(through) : q < p /\ dates[q] = dates[p]})

\* The Billing Sequence: the position among the entries of one bill date, counted
\* from the newest.
Sequence(through, p) ==
    Cardinality({q \in Buffer(through) : q > p /\ dates[q] = dates[p]})

RowOf(through, p) ==
    [bill_date |-> dates[p], sequence |-> Sequence(through, p), period |-> p]

\* A row has this key, whatever period it was read from.
Stored(through, p) ==
    \E row \in rows : /\ row.bill_date = dates[p]
                      /\ row.sequence = Sequence(through, p)

\* An entry that is stored is left alone.  Until the first INSERT no transaction
\* is open, and each SELECT sees what is committed by then.
FindStored(r) ==
    LET my == reader[r] IN
    /\ my.pc = "storing" /\ my.at \in Buffer(my.through)
    /\ Stored(my.through, my.at)
    /\ reader' = [reader EXCEPT ![r].at = @ - 1]
    /\ UNCHANGED <<dates, profile, rows, slot, line, clears>>

\* Where the Open Period slot is left: moved, or cleared if the family has none.
SlotAfter(r) ==
    IF reader[r].open THEN reader[r].through + 1 ELSE IF profile THEN slot ELSE 0

\* Nothing was read, and nothing is written.
Nothing(r) == reader[r].through = 0 /\ ~reader[r].open

\* The first INSERT takes the database's write lock, so from there to the commit
\* the store is one step: the absent entries from here on, then the slot.
Commit(r) ==
    LET my     == reader[r]
        absent == {p \in Buffer(my.through) : p <= my.at /\ ~Stored(my.through, p)}
    IN  /\ my.pc = "storing"
        /\ my.at \in Buffer(my.through) => ~Stored(my.through, my.at)
        /\ rows' = rows \cup {RowOf(my.through, p) : p \in absent}
        /\ slot' = IF Nothing(r) THEN slot ELSE SlotAfter(r)
        /\ Leave(r)
        /\ UNCHANGED <<dates, profile, clears>>

-----------------------------------------------------------------------------
(* The Billing Change Check, and Delete all data.                          *)

\* The load-profile cycle comes by and has walked.
Visit(r) ==
    /\ reader[r].pc = "idle" /\ line = None
    /\ line' = r
    /\ reader' = [reader EXCEPT ![r] = [Idle EXCEPT !.pc = "visit"]]
    /\ UNCHANGED <<dates, profile, rows, slot, clears>>

\* The line is given back before the read that a change asks for, since the lock
\* is not reentrant.  A check that fails asks for nothing.
billing_change_check(r) ==
    /\ reader[r].pc = "visit"
    /\ line' = None
    /\ \E trigger \in {Changed, FALSE} :
         reader' = [reader EXCEPT ![r].pc = IF trigger THEN "triggered" ELSE "idle"]
    /\ UNCHANGED <<dates, profile, rows, slot, clears>>

clear_readings ==
    /\ clears < MaxClears
    /\ rows' = {} /\ slot' = 0
    /\ clears' = clears + 1
    /\ UNCHANGED <<dates, profile, line, reader>>

ReadStep(r) ==
    \/ TakeLine(r) \/ ReadBuffer(r) \/ FindStored(r) \/ Commit(r) \/ ReadFails(r)
    \/ SkipsTriggered(r)

Next ==
    \/ \E r \in Reader : ReadStep(r)
    \/ \E r \in Background : Visit(r) \/ billing_change_check(r)
    \/ Closes \/ clear_readings

Spec == Init /\ [][Next]_vars

\* A thread in a read or a check goes on.  The daily job comes by for ever, as long
\* as the device is enabled and not Offline, and its reads do not fail for ever.
Fairness ==
    /\ \A r \in Reader : WF_vars(ReadBuffer(r) \/ ReadFails(r) \/ FindStored(r) \/ Commit(r))
    /\ \A r \in Background :
         /\ WF_vars(billing_change_check(r))
         /\ SF_vars(TakeLine(r)) /\ SF_vars(ReadBuffer(r))
         /\ SF_vars(FindStored(r)) /\ SF_vars(Commit(r))

FairSpec == Spec /\ Fairness

-----------------------------------------------------------------------------
(* A key names one period for good: the row found under the key that an     *)
(* entry of the buffer has today was read from that entry.  So a stored     *)
(* period is never taken for another, nor stored twice, when the ring drops *)
(* the older one of a pair.                                                 *)
RowsAreMeterEntries ==
    \A row \in rows : \A p \in Held :
        row.bill_date = dates[p] /\ row.sequence = Sequence(Len(dates), p)
            => row.period = p

(* A period that the meter holds and the table lacks is noticed by the next *)
(* Billing Change Check, also when the clock was set back and when data were *)
(* deleted in the middle of a store.  Only the newest one of a pair may wait *)
(* for the daily read, since its bill date is stored with its partner.       *)
MissingIsNoticed ==
    \A p \in Held : ~Stored(Len(dates), p) =>
        Changed \/ dates[p] = dates[Len(dates)]

(* The Open Period slot never goes back to a period that has been closed    *)
(* since, although two reads of one buffer may overlap a rollover: only      *)
(* because a read is stored before it gives the line back.                   *)
OpenSlotMovesForward == [][slot' # 0 => slot' >= slot]_vars

(* Whatever failed, was skipped, deleted or overtaken, in the end every      *)
(* closed period the meter still holds is stored.                            *)
EveryPeriodIsStored == <>[](\A p \in Held : Stored(Len(dates), p))
=============================================================================
