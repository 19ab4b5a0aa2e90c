------------------------------ MODULE EnergySummary ------------------------------
(***************************************************************************)
(* The stored Energy Summary of one device: energy_summary_days, which the *)
(* Scheduler recomputes each pass from the Interval Readings and the       *)
(* calendar (db/energy_summary_store.py), the file it rewrites from that   *)
(* (export/energy_csv.py), and Retention, which cuts the readings by the   *)
(* instant and the days by the local date (db/retention.py).  The three    *)
(* are jobs of one thread; readings arrive, are declared invalid or are    *)
(* all deleted, Holidays change and settings are edited in other threads,  *)
(* between any two statements of a job.                                    *)
(*                                                                         *)
(* Time is counted in halves of a local day: the even half is off-peak,    *)
(* the odd one peak (Holidays has the hours), and a reading is worth one   *)
(* unit.  updated_at is left to CentralPush.                               *)
(***************************************************************************)
EXTENDS Integers, FiniteSets, FiniteSetsExt

CONSTANTS
    RETENTION_DAYS,
    MaxHalf,        \* bound: the clock
    MaxEdits,       \* bound: changes of the calendar, the settings and what was
                    \* stored, and passes over the device, or files, that fail
    NoDay           \* no row of the table, no file

Half == 0 .. MaxHalf
DayOf(half) == half \div 2
Day  == 0 .. DayOf(MaxHalf)

\* The eight buckets, as the half-days in them: import and export go alike.
Split == [peak : 0 .. 1, offpeak : 0 .. 1, holiday : 0 .. 2]

VARIABLES
    half,       \* the clock
    readings,   \* the half-days of the valid Interval Readings
    calendar,   \* the days that are Holidays
    table,      \* energy_summary_days
    file,       \* the Energy Export File
    saves,      \* auto-save is on, a folder is set, the device is enabled
    job,        \* where the thread is, with the days it has computed
    revised,    \* history: days some reading of which was taken back
    most,       \* history: the most energy a row of each day has held
    edits

vars == <<half, readings, calendar, table, file, saves, job, revised, most, edits>>

Rest == [pc |-> "rest", today |-> 0, computed |-> NoDay]

Table == [Day -> Split \cup {NoDay}]

TypeOK ==
    /\ half \in Half /\ readings \subseteq Half /\ calendar \subseteq Day
    /\ table \in Table /\ file \in Table \cup {NoDay} /\ saves \in BOOLEAN
    /\ job \in [pc : {"rest", "compute", "commit", "export"}, today : Day,
                computed : Table \cup {NoDay}]
    /\ revised \subseteq Day /\ most \in [Day -> 0 .. 2] /\ edits \in 0 .. MaxEdits

Empty == [d \in Day |-> NoDay]

Init ==
    /\ half = 0 /\ readings = {} /\ calendar = {} /\ table = Empty /\ file = NoDay
    /\ saves = TRUE /\ job = Rest /\ revised = {} /\ most = [d \in Day |-> 0] /\ edits = 0

local_today == DayOf(half)

\* Mutant: a window that begins a day early.
WindowEarly(today) == {d \in Day : d >= today - RETENTION_DAYS /\ d <= today}

\* The ninety local days that end today.
Window(today) == {d \in Day : d >= today - (RETENTION_DAYS - 1) /\ d <= today}

\* One row for each day that has a valid reading.
energy_summary_rows(days) ==
    [d \in Day |->
       LET of == {h \in readings : DayOf(h) = d} IN
       IF d \notin days \/ of = {} THEN NoDay
       ELSE IF d \in calendar THEN [peak |-> 0, offpeak |-> 0, holiday |-> Cardinality(of)]
       ELSE [peak |-> Cardinality({h \in of : h % 2 = 1}),
             offpeak |-> Cardinality({h \in of : h % 2 = 0}), holiday |-> 0]]

Stored(t, days) == [d \in Day |-> IF d \in days THEN t[d] ELSE NoDay]

-----------------------------------------------------------------------------
(* The jobs.  A session holds no snapshot: each SELECT sees what is        *)
(* committed when it runs.                                                 *)

energy_summary_recompute_cycle ==
    /\ job.pc = "rest"
    /\ job' = [Rest EXCEPT !.pc = "compute", !.today = local_today]
    /\ UNCHANGED <<half, readings, calendar, table, file, saves, revised, most, edits>>

_recompute_device ==
    /\ job.pc = "compute"
    /\ job' = [job EXCEPT !.pc = "commit", !.computed = energy_summary_rows(Window(job.today))]
    /\ UNCHANGED <<half, readings, calendar, table, file, saves, revised, most, edits>>

\* Mutant: a stored day nobody produces any more stays.
StaleNever(existing, computed) == {}

Stale(existing, computed) == {d \in Day : existing[d] # NoDay /\ computed[d] = NoDay}

Total(row) == IF row = NoDay THEN 0 ELSE row.peak + row.offpeak + row.holiday

\* Days are inserted, those that differ updated, stale ones deleted, in one
\* transaction: no other thread writes the table.
CommitDevice ==
    LET days     == Window(job.today)
        existing == Stored(table, days)
        to == [d \in Day |-> IF job.computed[d] # NoDay THEN job.computed[d]
                             ELSE IF d \in Stale(existing, job.computed) THEN NoDay ELSE table[d]]
    IN /\ job.pc = "commit"
       /\ table' = to
       /\ most' = [d \in Day |-> IF Total(to[d]) > most[d] THEN Total(to[d]) ELSE most[d]]
       /\ job' = [Rest EXCEPT !.pc = "export"]
       /\ UNCHANGED <<half, readings, calendar, file, saves, revised, edits>>

\* Behind the recompute in the same pass.  No day in the window leaves the file be.
export_device_energy ==
    LET days == Stored(table, Window(local_today)) IN
    /\ job.pc = "export" /\ job' = Rest
    /\ file' = IF saves /\ days # Empty THEN days ELSE file
    /\ UNCHANGED <<half, readings, calendar, table, saves, revised, most, edits>>

Edits == edits < MaxEdits /\ edits' = edits + 1

\* "One device must never strand the rest", nor one file the others.
JobFails ==
    /\ job.pc # "rest" /\ Edits
    /\ job' = IF job.pc = "export" THEN Rest ELSE [Rest EXCEPT !.pc = "export"]
    /\ UNCHANGED <<half, readings, calendar, table, file, saves, revised, most>>

purge_expired ==
    /\ job.pc = "rest"
    /\ readings' = {h \in readings : h >= half - 2 * RETENTION_DAYS}
    /\ table' = [d \in Day |-> IF d < local_today - (RETENTION_DAYS - 1) THEN NoDay ELSE table[d]]
    /\ UNCHANGED <<half, calendar, file, saves, job, revised, most, edits>>

-----------------------------------------------------------------------------
(* The other threads.                                                      *)

Tick == /\ half < MaxHalf /\ half' = half + 1
        /\ UNCHANGED <<readings, calendar, table, file, saves, job, revised, most, edits>>

\* Readings arrive in order (LoadProfile) and late perhaps; no read reaches further
\* back than Retention.
ReadingIsStored ==
    /\ \E h \in Half : /\ h <= half /\ h >= half - 2 * RETENTION_DAYS
                       /\ readings # {} => h = Max({Max(readings) + 1, half - 2 * RETENTION_DAYS})
                       /\ readings' = readings \cup {h}
    /\ UNCHANGED <<half, calendar, table, file, saves, job, revised, most, edits>>

HolidayChanges ==
    /\ Edits
    /\ \E d \in Day : calendar' = IF d \in calendar THEN calendar \ {d} ELSE calendar \cup {d}
    /\ UNCHANGED <<half, readings, table, file, saves, job, revised, most>>

\* A re-read finds an interval all invalid; Delete all data takes every reading.
ReadingsAreTakenBack ==
    /\ Edits
    /\ \E gone \in {{h} : h \in readings} \cup {readings} :
         /\ readings' = readings \ gone
         /\ revised' = revised \cup {DayOf(h) : h \in gone}
    /\ UNCHANGED <<half, calendar, table, file, saves, job, most>>

SettingsChange ==
    /\ Edits /\ saves' = ~saves
    /\ UNCHANGED <<half, readings, calendar, table, file, job, revised, most>>

Work == energy_summary_recompute_cycle \/ _recompute_device \/ CommitDevice \/ export_device_energy

Next == \/ Work \/ JobFails \/ purge_expired
        \/ Tick \/ ReadingIsStored \/ HolidayChanges \/ ReadingsAreTakenBack \/ SettingsChange

Spec == Init /\ [][Next]_vars

\* A pass every fifteen minutes.
FairSpec == Spec /\ WF_vars(Work)

-----------------------------------------------------------------------------
(* A day is never stored with less than it once held: Retention's two     *)
(* cuts, by the instant and by the local date, never leave a day in the    *)
(* window with part of its readings.  Only readings taken back lower it.   *)
StoredDayIsWhole ==
    \A d \in Day \ revised : table[d] # NoDay => Total(table[d]) >= most[d]

(* Whatever changed under a pass, the days of the window come to agree     *)
(* with the readings and the calendar as they are, and the file with them. *)
EnergyCatchesUp ==
    LET now == energy_summary_rows(Window(local_today)) IN
    []<>(/\ Stored(table, Window(local_today)) = now
         /\ saves /\ now # Empty => file = now)
=============================================================================
