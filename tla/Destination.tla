------------------------------ MODULE Destination ------------------------------
(***************************************************************************)
(* The Database Destination (dataout/sync.py, schema.py, destination.py).  *)
(* A cycle of the Scheduler adds what is missing of the two tables in the  *)
(* customer's database, replaces the billing rows in one transaction,      *)
(* sends the merged load profile of a meter in chunks from the             *)
(* destination's own newest row, and deletes what is older than the Mirror *)
(* Window.  A row that was sent never changes.                             *)
(*                                                                         *)
(* The destination keeps local time, this machine UTC.                     *)
(***************************************************************************)
EXTENDS Naturals, FiniteSetsExt

CONSTANTS
    MaxTime,        \* bound: intervals that the meter records
    Window,         \* RETENTION_DAYS
    Skew,           \* SKEW_CAP
    Rewind,         \* DBDEST_WATERMARK_REWIND_SEC
    Offset,         \* METER_LOCAL_UTC_OFFSET_HOURS
    RowChunk,       \* DBDEST_ROW_CHUNK
    SecondLogger,   \* whether the model has a Logger 2
    Disowned,       \* intervals the meter marked all-invalid
    Feature,        \* of "billing" and "load_profile": what is licensed
    MaxBills,       \* bound: changes of the billing rows
    MaxMishaps      \* bound: failures, crashes, and what people change

Time  == 1 .. MaxTime
None  == 0
Local == {t + Offset : t \in Time}

VARIABLES
    now,
    l1, l2,         \* intervals stored of each logger
    l2_stored,      \* MAX(created_at) of Logger 2
    begun,          \* history: when the first Logger 1 row was stored
    identified,     \* whether the meter's serial is known
    bills,          \* the billing rows here, and at the destination
    copy,
    table,          \* what shape the destination's load profile table has
    dest,           \* its rows
    configured,
    work,
    last,           \* the status of the last cycle
    mishaps

store == <<now, l1, l2, l2_stored, begun, identified, bills>>
vars  == <<store, copy, table, dest, configured, work, last, mishaps>>

Idle == [pc |-> "idle", refused |-> FALSE, start |-> None, cap |-> None, late |-> FALSE]
Work == [pc : {"idle", "reconcile", "billing", "sources", "chunk", "purge"},
         refused : BOOLEAN, start : 0 .. MaxTime, cap : 0 .. MaxTime, late : BOOLEAN]
Sent == {"none", "half", "whole"}

TypeOK ==
    /\ {now, l2_stored, begun} \subseteq 0 .. MaxTime
    /\ l1 \subseteq Time /\ l2 \subseteq Time
    /\ identified \in BOOLEAN /\ bills \in 0 .. MaxBills /\ copy \in 0 .. MaxBills
    /\ table \in {"missing", "outdated", "current", "per_logger", "no_key"}
    /\ dest \in [Local -> Sent] /\ configured \in BOOLEAN
    /\ work \in Work /\ last \in {"none", "done", "late", "failed"} /\ mishaps \in 0 .. MaxMishaps

NoRows == [t \in Local |-> "none"]

Init ==
    /\ now = 1 /\ l1 = {} /\ l2 = {} /\ l2_stored = None /\ begun = None
    /\ identified = FALSE /\ bills = 0 /\ copy = 0
    /\ table \in {"missing", "outdated", "per_logger", "no_key"} /\ dest = NoRows
    /\ configured = FALSE /\ work = Idle /\ last = "none" /\ mishaps = 0

Happens == mishaps < MaxMishaps /\ mishaps' = mishaps + 1

Newest(times)  == Max(times \cup {None})
Minus(a, b)    == IF a > b THEN a - b ELSE 0
_to_local(t)   == t + Offset
_from_local(t) == Minus(t, Offset)
Expired(t)     == t + Window < now

-----------------------------------------------------------------------------
(* This machine and the customer.                                          *)

Tick ==
    /\ now < MaxTime /\ now' = now + 1
    /\ UNCHANGED <<l1, l2, l2_stored, begun, identified, bills, copy, table, dest, configured,
                   work, last, mishaps>>

Follows(logger) == IF logger = {} THEN Max({1, Minus(now, Window)}) ELSE Newest(logger) + 1

\* A load profile visit reads Logger 1 to the present and one chunk or more of
\* Logger 2; the walk of either may fail.
Visit(first, second) ==
    /\ IF first /\ second THEN UNCHANGED mishaps ELSE Happens
    /\ l1' = IF first THEN l1 \cup (Follows(l1) .. now) ELSE l1
    /\ \E until \in Follows(l2) .. now :
         l2' = IF second /\ SecondLogger THEN l2 \cup (Follows(l2) .. until) ELSE l2
    /\ l2_stored' = IF l2' # l2 THEN now ELSE l2_stored
    /\ begun' = IF begun = None /\ l1' # {} THEN now ELSE begun
    /\ identified' = TRUE
    /\ l1' # l1 \/ l2' # l2
    /\ UNCHANGED <<now, bills, copy, table, dest, configured, work, last>>

purge_expired ==
    /\ work = Idle /\ \E t \in l1 \cup l2 : Expired(t)
    /\ l1' = {t \in l1 : ~Expired(t)} /\ l2' = {t \in l2 : ~Expired(t)}
    /\ UNCHANGED <<now, l2_stored, begun, identified, bills, copy, table, dest, configured,
                   work, last, mishaps>>

BillingRead ==
    /\ bills < MaxBills /\ bills' = bills + 1
    /\ UNCHANGED <<now, l1, l2, l2_stored, begun, identified, copy, table, dest, configured,
                   work, last, mishaps>>

clear_readings ==
    /\ Happens /\ l1 # {}
    /\ l1' = {} /\ l2' = {} /\ l2_stored' = None /\ begun' = None
    /\ UNCHANGED <<now, identified, bills, copy, table, dest, configured, work, last>>

put_database_destination ==
    /\ configured' = ~configured /\ IF configured' THEN UNCHANGED mishaps ELSE Happens
    /\ UNCHANGED <<store, copy, table, dest, work, last>>

\* The customer drops the table, as the message about its shape asks for.
DropTable ==
    /\ table # "missing" /\ table' = "missing" /\ dest' = NoRows
    /\ IF table \in {"per_logger", "no_key"} THEN UNCHANGED mishaps ELSE Happens
    /\ UNCHANGED <<store, copy, configured, work, last>>

-----------------------------------------------------------------------------
(* The cycle.                                                              *)

To(pc)       == work' = [work EXCEPT !.pc = pc]
Ends(status) == work' = Idle /\ last' = status
Late         == work' = [work EXCEPT !.pc = "purge", !.late = TRUE]

Start ==
    /\ work = Idle /\ configured
    /\ work' = [Idle EXCEPT !.pc = "reconcile"]
    /\ UNCHANGED <<store, copy, table, dest, configured, last, mishaps>>

\* Tables and columns are added, nothing else is touched.  A table without the
\* unique key ends the cycle, the per-logger one only the load profile's part of it.
reconcile ==
    /\ work.pc = "reconcile"
    /\ table' = IF table \in {"missing", "outdated"} THEN "current" ELSE table
    /\ IF table = "no_key" THEN Ends("failed")
       ELSE /\ work' = [work EXCEPT !.pc = "billing", !.refused = table = "per_logger"]
            /\ UNCHANGED last
    /\ UNCHANGED <<store, copy, dest, configured, mishaps>>

AfterBilling == IF "load_profile" \in Feature THEN To("sources") /\ UNCHANGED last ELSE Ends("done")

\* A row without a serial of its own has the device's, or is left out.
_replace_billing ==
    /\ work.pc = "billing"
    /\ copy' = IF "billing" \notin Feature THEN copy ELSE IF identified THEN bills ELSE 0
    /\ AfterBilling
    /\ UNCHANGED <<store, table, dest, configured, mishaps>>

\* _out_of_budget, before anything was sent.
SkipBilling ==
    /\ work.pc = "billing" /\ Happens /\ AfterBilling
    /\ UNCHANGED <<store, copy, table, dest, configured>>

Rows == {t \in Local : dest[t] # "none"}

\* Mutant: the local time of the destination is taken for ours.
_watermark_startLocal == IF Rows = {} THEN None ELSE Minus(Max(Rows), Rewind)

_watermark_start == IF Rows = {} THEN None ELSE Minus(_from_local(Max(Rows)), Rewind)

\* merged_rows_cap, for a writer that cannot repair a row it has sent: rows wait for
\* Logger 2 as long as it stores anything at all.
Cap ==
    LET spine == Newest(l1)  second == Newest(l2) IN
    IF ~SecondLogger THEN spine
    ELSE IF second = None THEN Minus(spine, Skew)
    ELSE IF second >= Minus(spine, Skew) THEN Min({spine, second})
    ELSE IF l2_stored >= Minus(now, Skew) THEN second
    ELSE spine

\* The destination's watermarks, then the sources.
_merge_sources ==
    /\ work.pc = "sources" /\ table # "missing"
    /\ IF work.refused THEN Ends("failed")
       ELSE /\ work' = IF l1 = {} \/ ~identified THEN [work EXCEPT !.pc = "purge"]
                       ELSE [work EXCEPT !.pc = "chunk", !.start = _watermark_start, !.cap = Cap]
            /\ UNCHANGED last
    /\ UNCHANGED <<store, copy, table, dest, configured, mishaps>>

SendNothing ==
    /\ work.pc = "sources" /\ ~work.refused /\ Happens /\ Late
    /\ UNCHANGED <<store, copy, table, dest, configured, last>>

Pending == {t \in l1 \ Disowned : t > work.start /\ t <= work.cap}

\* Mutant: a page of the rows in no order.
_source_chunkUnordered ==
    {rows \in SUBSET Pending : Cardinality(rows) = Min({RowChunk, Cardinality(Pending)})}

\* The oldest of them, a page at most.
_source_chunk ==
    {rows \in SUBSET Pending :
       /\ Cardinality(rows) = Min({RowChunk, Cardinality(Pending)})
       /\ \A r \in rows, t \in Pending \ rows : r < t}

\* ON DUPLICATE KEY UPDATE of a column that does not change: what is there stays.
Inserted(rows) ==
    [t \in Local |->
       IF dest[t] = "none" /\ _from_local(t) \in rows
       THEN IF SecondLogger /\ _from_local(t) \notin l2 THEN "half" ELSE "whole"
       ELSE dest[t]]

_send_device ==
    /\ work.pc = "chunk" /\ table # "missing"
    /\ \E rows \in _source_chunk :
         /\ dest' = Inserted(rows)
         /\ IF Cardinality(rows) < RowChunk THEN To("purge")
            ELSE (work' = [work EXCEPT !.start = Newest(rows)]) \/ Late
    /\ UNCHANGED <<store, copy, table, configured, last, mishaps>>

Old == {t \in Rows : t < _to_local(Minus(now, Window))}

\* Mutant: the budget is looked at before the first batch.
_purge_destinationLate ==
    /\ work.pc = "purge" /\ table # "missing"
    /\ \/ UNCHANGED dest /\ Ends("late")
       \/ /\ Cardinality(Old) < RowChunk /\ Ends("done")
          /\ dest' = [t \in Local |-> IF t \in Old THEN "none" ELSE dest[t]]
    /\ UNCHANGED <<store, copy, table, configured, mishaps>>

\* Batches of what is older than the window, whichever the server finds first; the
\* budget is looked at after each.
_purge_destination ==
    /\ work.pc = "purge" /\ table # "missing"
    /\ \E gone \in SUBSET Old :
         /\ Cardinality(gone) = Min({RowChunk, Cardinality(Old)})
         /\ dest' = [t \in Local |-> IF t \in gone THEN "none" ELSE dest[t]]
         /\ IF Cardinality(gone) < RowChunk THEN Ends(IF work.late THEN "late" ELSE "done")
            ELSE Ends("late") \/ (~work.late /\ UNCHANGED <<work, last>>)
    /\ UNCHANGED <<store, copy, table, configured, mishaps>>

\* The customer dropped the table under the cycle.
TableGone ==
    /\ work.pc \in {"sources", "chunk", "purge"} /\ table = "missing" /\ Ends("failed")
    /\ UNCHANGED <<store, copy, table, dest, configured, mishaps>>

\* A statement fails, its transaction committed or not, or the process stops.
Fails ==
    /\ Happens /\ work.pc # "idle"
    /\ \/ UNCHANGED dest
       \/ work.pc = "chunk" /\ table # "missing" /\ \E rows \in _source_chunk : dest' = Inserted(rows)
    /\ \/ UNCHANGED copy
       \/ work.pc = "billing" /\ "billing" \in Feature /\ identified /\ copy' = bills
    /\ \E status \in {"failed", "none"} : Ends(status)
    /\ UNCHANGED <<store, table, configured>>

Goes ==
    \/ reconcile \/ _replace_billing \/ SkipBilling \/ _merge_sources \/ SendNothing
    \/ _send_device \/ _purge_destination \/ TableGone \/ Fails

Next ==
    \/ Tick \/ purge_expired \/ BillingRead \/ clear_readings
    \/ \E first, second \in BOOLEAN : Visit(first, second)
    \/ put_database_destination \/ DropTable \/ Start \/ Goes

Spec == Init /\ [][Next]_vars

\* The job runs every fifteen minutes, and a statement that hangs times out.
Fairness == WF_vars(Start \/ Goes)

FairSpec == Spec /\ Fairness

-----------------------------------------------------------------------------
(* No hole behind the destination's newest row, where nothing would ever   *)
(* be sent again: through chunks, budgets, failed transactions, data       *)
(* deleted here and tables dropped there.                                  *)
NoHoleAtDestination ==
    \A t \in l1 \ Disowned :
        ~Expired(t) /\ _to_local(t) <= Newest(Rows) => dest[_to_local(t)] # "none"

Reachable == configured /\ table \notin {"per_logger", "no_key"} /\ identified

(* The destination comes to hold the billing rows as they are here, and    *)
(* every merged row that no longer waits for its Logger 2 values.          *)
DestinationCatchesUp ==
    []<>(Reachable =>
            /\ "billing" \in Feature => copy = bills
            /\ "load_profile" \in Feature =>
                 \A t \in l1 \ Disowned :
                     ~Expired(t) /\ t <= Cap => dest[_to_local(t)] # "none")

(* Rows past the Mirror Window go, were every cycle's budget spent on      *)
(* sending.                                                                *)
MirrorWindowHolds == []<>(Reachable /\ "load_profile" \in Feature => Old = {})

\* load_profile_query.py: "the escape fires only once Logger 2 has stored nothing for
\* SKEW_CAP".
HalfOnlyWhenSilent ==
    [][\A t \in Local : dest[t] = "none" /\ dest'[t] = "half" =>
           now > Max({begun, l2_stored}) + Skew]_vars
=============================================================================
