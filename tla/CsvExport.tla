------------------------------- MODULE CsvExport -------------------------------
(***************************************************************************)
(* The export files of one meter (export/csv_export.py, billing_csv.py,    *)
(* energy_csv.py, writer.py).  The Load Profile CSV is appended to behind  *)
(* a watermark kept in the device's row, rewritten as a whole when its     *)
(* head changes or it is gone, and rewritten once a day to what the table  *)
(* still holds.  The billing and energy files are rewritten every time.    *)
(*                                                                         *)
(* The job thread runs the fifteen-minute export and the daily trim; a     *)
(* request thread runs Save CSV now.  A lock per meter lets one of them in *)
(* at a time, but the rows, the settings and the meter's row change under  *)
(* it: a SELECT sees what is committed when it runs.                       *)
(***************************************************************************)
EXTENDS Naturals, FiniteSetsExt

CONSTANTS
    scheduler, saver,   \* the job thread and a request thread
    Folder, NoFolder,
    Head,               \* heads: the customer and site of the meter
    MaxTime,            \* bound: intervals that the meter records
    Window,             \* RETENTION_DAYS
    Skew,               \* SKEW_CAP
    SecondLogger,       \* whether the model has a Logger 2
    Disowned,           \* intervals the meter marked all-invalid
    MaxMishaps          \* bound: crashes, failed writes, and what operators change

ASSUME CsvExportAssumption ==
    /\ scheduler # saver /\ NoFolder \notin Folder /\ Head # {}
    /\ {MaxTime, Window, Skew, MaxMishaps} \subseteq Nat /\ Skew <= Window
    /\ SecondLogger \in BOOLEAN /\ Disowned \subseteq 1 .. MaxTime

Thread == {scheduler, saver}
Time   == 1 .. MaxTime
None   == 0                 \* no watermark, an empty MAX()

VARIABLES
    now,        \* the interval the meter recorded last
    l1, l2,     \* intervals stored of Logger 1 and Logger 2
    device,     \* the meter's row: head, enabled, watermark
    setting,    \* the export folder and the auto-save switch
    files,      \* the Load Profile CSV in each folder
    fresh,      \* whether the billing and energy files hold every record there is
    work,       \* what each thread is writing
    mishaps,
    excused     \* history: the file and the watermark may disagree until a rewrite

vars == <<now, l1, l2, device, setting, files, fresh, work,
          mishaps, excused>>
world == <<now, l1, l2, setting>>

\* rows: how often, and with its Logger 2 partner or without, an interval is in it.
Missing == [head |-> "missing", rows |-> [t \in Time |-> "none"]]
File    == [head : Head \cup {"missing"},
            rows : [Time -> {"none", "half", "whole", "twice"}]]
Idle    == [pc |-> "idle", job |-> "none", dir |-> NoFolder, head |-> "missing",
            cap |-> None, top |-> None, rows |-> [t \in Time |-> "none"]]
Work    == [pc   : {"idle", "look", "max", "rows", "append", "windowmax", "window",
                    "replace", "empty", "commit", "others"},
            job  : {"none", "save", "export", "trim"},
            dir  : Folder \cup {NoFolder}, head : Head \cup {"missing"},
            cap  : 0 .. MaxTime, top : 0 .. MaxTime,
            rows : [Time -> {"none", "half", "whole", "twice"}]]

TypeOK ==
    /\ now \in 0 .. MaxTime /\ l1 \subseteq Time /\ l2 \subseteq Time
    /\ device \in [head : Head, enabled : BOOLEAN, watermark : 0 .. MaxTime]
    /\ setting \in [dir : Folder \cup {NoFolder}, auto : BOOLEAN]
    /\ files \in [Folder -> File]
    /\ fresh \in BOOLEAN
    /\ excused \in BOOLEAN
    /\ work \in [Thread -> Work] /\ mishaps \in 0 .. MaxMishaps

Init ==
    /\ now = 0 /\ l1 = {} /\ l2 = {}
    /\ device \in [head : {CHOOSE h \in Head : TRUE}, enabled : {TRUE}, watermark : {None}]
    /\ setting \in [dir : Folder, auto : {TRUE}]
    /\ files = [d \in Folder |-> Missing]
    /\ fresh = FALSE
    /\ work = [t \in Thread |-> Idle] /\ mishaps = 0 /\ excused = FALSE

-----------------------------------------------------------------------------
(* The table.                                                              *)

Newest(logger) == Max(logger \cup {None})
Expired(t)     == t + Window < now
Minus(a, b)    == IF a > b THEN a - b ELSE 0

\* merged_rows_cap: rows wait for Logger 2, unless it is stale; one that was never
\* seen holds back no more than the skew.
Cap(spine) ==
    LET second == Newest(l2) IN
    IF ~SecondLogger THEN spine
    ELSE IF second = None THEN Minus(spine, Skew)
    ELSE IF second >= Minus(spine, Skew) THEN Min({spine, second})
    ELSE spine

\* merged_rows_select: Logger 1 is the spine; what the meter disowned is left out.
Merged(times) ==
    [t \in Time |-> IF t \notin (times \cap l1) \ Disowned THEN "none"
                    ELSE IF SecondLogger /\ t \notin l2 THEN "half" ELSE "whole"]

NoRows == [t \in Time |-> "none"]

-----------------------------------------------------------------------------
(* The world around an export.                                             *)

\* The meter records an interval, the daily purge removes what has expired.
Tick ==
    /\ now < MaxTime /\ now' = now + 1
    /\ UNCHANGED <<l1, l2, device, setting, files, fresh, work,
                   mishaps, excused>>

\* A walk stores the intervals of a logger in order, from the floor of the backfill.
Follows(logger) ==
    IF logger = {} THEN Max({1, Minus(now, Window)}) ELSE Newest(logger) + 1

StoreFirst ==
    /\ Follows(l1) <= now /\ l1' = l1 \cup {Follows(l1)}
    /\ UNCHANGED <<now, l2, device, setting, files, fresh, work,
                   mishaps, excused>>

StoreSecond ==
    /\ SecondLogger /\ Follows(l2) <= now /\ l2' = l2 \cup {Follows(l2)}
    /\ UNCHANGED <<now, l1, device, setting, files, fresh, work,
                   mishaps, excused>>

purge_expired ==
    /\ work[scheduler] = Idle /\ \E t \in l1 \cup l2 : Expired(t)
    /\ l1' = {t \in l1 : ~Expired(t)} /\ l2' = {t \in l2 : ~Expired(t)}
    /\ UNCHANGED <<now, device, setting, files, fresh, work,
                   mishaps, excused>>

\* A period closes, a summary day is recomputed.
StoreRecords ==
    /\ fresh /\ fresh' = FALSE
    /\ UNCHANGED <<now, l1, l2, device, setting, files, work, mishaps, excused>>

\* Mutant: a lock that every caller gets anew.
UnlockedAlways == TRUE

\* _device_lock: nobody is writing this meter's CSV.
Unlocked == \A t \in Thread : work[t].pc \in {"idle", "others"}

Happens == mishaps < MaxMishaps /\ mishaps' = mishaps + 1

\* Delete all data leaves the watermark where it is.
clear_readings ==
    /\ Happens /\ l1 \cup l2 # {}
    /\ l1' = {} /\ l2' = {}
    /\ excused' = TRUE
    /\ UNCHANGED <<now, device, setting, files, fresh, work>>

\* The customer or the site is edited, the meter is paused or resumed.
EditDevice(head, enabled) ==
    /\ Happens /\ device' = [device EXCEPT !.head = head, !.enabled = enabled]
    /\ device' # device
    /\ UNCHANGED <<world, files, fresh, work, excused>>

put_export_settings(dir, auto) ==
    /\ Happens /\ (auto => dir # NoFolder)
    /\ setting' = [dir |-> dir, auto |-> auto] /\ setting' # setting
    /\ excused' = (excused \/ dir # setting.dir)
    /\ UNCHANGED <<now, l1, l2, device, files, fresh, work>>

DeleteFile(dir) ==
    /\ Happens /\ files[dir] # Missing
    /\ files' = [files EXCEPT ![dir] = Missing]
    /\ excused' = (excused \/ ~Unlocked)
    /\ UNCHANGED <<world, device, fresh, work>>

\* The process stops and comes back: the table and the folder are what is left.
Crash ==
    /\ Happens
    /\ work' = [t \in Thread |-> Idle]
    /\ excused' = (excused \/ \E t \in Thread : work[t].pc = "commit")
    /\ UNCHANGED <<world, device, files, fresh>>

-----------------------------------------------------------------------------
(* One call: Save CSV now, the export of a cycle, the trim of a day.       *)

To(t, pc)  == work' = [work EXCEPT ![t].pc = pc]

\* The call is over; an export goes on with the meter's other files, whatever
\* became of this one.
Leave(t) ==
    work' = [work EXCEPT ![t] = IF @.job = "export" THEN [Idle EXCEPT !.job = "export",
                                                           !.pc = "others"] ELSE Idle]

\* The lock is taken, settings, row and frontier are read: or the call holds.  An
\* export holds without a Logger 1 row, a trim goes on to empty the file.
Enter(t, job) ==
    /\ work[t] = Idle /\ Unlocked
    /\ job = "save" <=> t = saver
    /\ job = "export" => device.enabled
    /\ setting.dir # NoFolder /\ (job # "save" => setting.auto)
    /\ work' = [work EXCEPT ![t] =
                 [Idle EXCEPT !.job = job, !.dir = setting.dir, !.head = device.head,
                    !.cap = Cap(Newest(l1)), !.top = Newest(l1),
                    !.pc = IF l1 = {} /\ job = "export" THEN "others" ELSE "look"]]
    /\ l1 = {} => job # "save"
    /\ UNCHANGED <<world, device, files, fresh, mishaps, excused>>

\* Mutant: a file that is gone is begun anew behind the watermark.
LookResuming(t) ==
    LET my == work[t]  file == files[my.dir] IN
    /\ my.pc = "look"
    /\ IF my.job = "trim"
       THEN IF file = Missing THEN Leave(t)
            ELSE To(t, IF my.top = None THEN "empty" ELSE "windowmax")
       ELSE To(t, IF file # Missing /\ file.head # my.head THEN "windowmax" ELSE "max")
    /\ UNCHANGED <<world, device, files, fresh, mishaps, excused>>

\* A head that does not match, or a file that is gone, is written as a whole; a trim
\* never makes a file; the rest is appended to.
Look(t) ==
    LET my == work[t]  file == files[my.dir] IN
    /\ my.pc = "look"
    /\ IF my.job = "trim"
       THEN IF file = Missing THEN Leave(t)
            ELSE To(t, IF my.top = None THEN "empty" ELSE "windowmax")
       ELSE To(t, IF file # Missing /\ file.head # my.head THEN "windowmax"
                  ELSE IF file = Missing /\ device.watermark # None THEN "windowmax"
                  ELSE "max")
    /\ UNCHANGED <<world, device, files, fresh, mishaps, excused>>

Pending(t)  == {i \in l1 : i > device.watermark /\ i <= work[t].cap}
InWindow(t) == {i \in l1 : ~Expired(i) /\ i <= work[t].cap}

\* The watermark goes by the newest row, be it one that is left out.
\* Two SELECTs each: rows may be deleted between them.
FindNewest(t) ==
    /\ work[t].pc = "max"
    /\ LET top == Newest(Pending(t)) IN
       IF top = None THEN Leave(t)
       ELSE work' = [work EXCEPT ![t].top = top, ![t].pc = "rows"]
    /\ UNCHANGED <<world, device, files, fresh, mishaps, excused>>

\* Mutant: committed before the rows are on the disk.
FindRowsCommitting(t) ==
    /\ work[t].pc = "rows"
    /\ LET rows == Merged(Pending(t)) IN
       work' = [work EXCEPT ![t].rows = rows,
                            ![t].pc = IF rows = NoRows THEN "commit" ELSE "append"]
    /\ device' = [device EXCEPT !.watermark = work[t].top]
    /\ UNCHANGED <<world, files, fresh, mishaps, excused>>

FindRows(t) ==
    /\ work[t].pc = "rows"
    /\ LET rows == Merged(Pending(t)) IN
       work' = [work EXCEPT ![t].rows = rows,
                            ![t].pc = IF rows = NoRows THEN "commit" ELSE "append"]
    /\ UNCHANGED <<world, device, files, fresh, mishaps, excused>>

FindWindowNewest(t) ==
    /\ work[t].pc = "windowmax"
    /\ LET top == Newest(InWindow(t)) IN
       work' = [work EXCEPT ![t].top = top, ![t].pc = IF top = None THEN "replace" ELSE "window"]
    /\ UNCHANGED <<world, device, files, fresh, mishaps, excused>>

FindWindow(t) ==
    /\ work[t].pc = "window"
    /\ work' = [work EXCEPT ![t].rows = Merged(InWindow(t)), ![t].pc = "replace"]
    /\ UNCHANGED <<world, device, files, fresh, mishaps, excused>>

\* What is there stays, what is new is added.
Added(old, new) ==
    [i \in Time |-> IF new[i] = "none" THEN old[i]
                    ELSE IF old[i] = "none" THEN new[i] ELSE "twice"]

append_rows(t) ==
    LET my == work[t] IN
    /\ my.pc = "append"
    /\ files' = [files EXCEPT ![my.dir] =
                   [head |-> my.head, rows |-> Added(@.rows, my.rows)]]
    /\ To(t, "commit")
    /\ UNCHANGED <<world, device, fresh, mishaps, excused>>

\* The cap may have come down since rows were exported: where it admits none of them
\* the file is emptied, and the watermark stays behind them.
Withdraws(t) ==
    /\ work[t].pc = "replace" /\ work[t].top = None
    /\ \E i \in l1 : i <= device.watermark

\* A temporary file takes the place of the old one in one step.
replace_rows(t) ==
    LET my == work[t] IN
    /\ my.pc \in {"replace", "empty"}
    /\ files' = [files EXCEPT ![my.dir] = [head |-> my.head, rows |-> my.rows]]
    /\ IF my.pc = "empty" \/ my.top = None THEN Leave(t) ELSE To(t, "commit")
    /\ excused' = (excused \/ Withdraws(t))
    /\ UNCHANGED <<world, device, fresh, mishaps>>

\* The write fails: a replacement leaves the file as it was, an append may have
\* left some of its rows.
WriteFails(t) ==
    LET my == work[t] IN
    /\ my.pc \in {"append", "replace", "empty"}
    /\ \/ UNCHANGED <<files, mishaps, excused>>
       \/ /\ Happens /\ my.pc = "append" /\ excused' = TRUE
          /\ \E last \in Time :
               files' = [files EXCEPT ![my.dir] =
                           [head |-> my.head,
                            rows |-> Added(@.rows, [i \in Time |-> IF i > last THEN "none"
                                                                   ELSE my.rows[i]])]]
    /\ Leave(t)
    /\ UNCHANGED <<world, device, fresh>>

CommitWatermark(t) ==
    /\ work[t].pc = "commit"
    /\ device' = [device EXCEPT !.watermark = work[t].top]
    /\ Leave(t)
    /\ UNCHANGED <<world, files, fresh, mishaps, excused>>

Raises(t) ==
    /\ Happens /\ work[t].pc \notin {"idle", "others"}
    /\ Leave(t)
    /\ excused' = (excused \/ work[t].pc = "commit")
    /\ UNCHANGED <<world, device, files, fresh>>

\* The billing file, then the energy file: all the records there are.
ExportOthers ==
    /\ work[scheduler].pc = "others"
    /\ fresh' = (fresh \/ setting.auto)
    /\ work' = [work EXCEPT ![scheduler] = Idle]
    /\ UNCHANGED <<world, device, files, mishaps, excused>>

Goes(t) ==
    \/ Look(t) \/ FindNewest(t) \/ FindRows(t) \/ FindWindowNewest(t) \/ FindWindow(t)
    \/ append_rows(t) \/ replace_rows(t) \/ WriteFails(t) \/ CommitWatermark(t)

Next ==
    \/ Tick \/ StoreFirst \/ StoreSecond \/ purge_expired
    \/ StoreRecords \/ ExportOthers
    \/ clear_readings \/ Crash
    \/ \E head \in Head, enabled \in BOOLEAN : EditDevice(head, enabled)
    \/ \E dir \in Folder \cup {NoFolder}, auto \in BOOLEAN : put_export_settings(dir, auto)
    \/ \E dir \in Folder : DeleteFile(dir)
    \/ \E t \in Thread : Goes(t) \/ Raises(t)
    \/ \E t \in Thread, job \in {"save", "export", "trim"} : Enter(t, job)

Spec == Init /\ [][Next]_vars

\* A call ends; the Scheduler gets to each of its jobs, however often Save CSV now
\* has the lock.
Fairness ==
    /\ \A t \in Thread : WF_vars(Goes(t) \/ (t = scheduler /\ ExportOthers))
    /\ SF_vars(Enter(scheduler, "export")) /\ SF_vars(Enter(scheduler, "trim"))

FairSpec == Spec /\ Fairness

-----------------------------------------------------------------------------
(* No interval is in a file twice, whatever mixture of exports, trims and  *)
(* saves wrote it, until an append is cut short or not committed, or data, *)
(* folder or file are changed by an operator.                              *)
NoRowTwice ==
    ~excused => \A d \in Folder, i \in Time : files[d].rows[i] # "twice"

\* Every row up to the watermark is in the file.
Covered ==
    setting.dir # NoFolder /\ (\A t \in Thread : work[t].pc # "commit") =>
        LET file == files[setting.dir] IN
        file # Missing =>
            \A i \in l1 \ Disowned :
                i <= device.watermark /\ ~Expired(i) => file.rows[i] # "none"

(* The watermark never passes a row that is not in the file: an append      *)
(* does not look back, so such a row would be missing until a rewrite.      *)
WatermarkIsCovered == ~excused => Covered

(* What csv_export.py:261-262 says of a rewrite: it advances the watermark  *)
(* to match the window it wrote.  (For runs without mishaps.)               *)
WatermarkMatchesFile == Covered

File_ == files[setting.dir]

\* The folder, the disk or a spreadsheet that keeps the file open do not refuse
\* every write there is.
Writable == SF_vars(\E t \in Thread : append_rows(t) \/ replace_rows(t))

\* What the file says of an interval is what the table says.
Right(i) == File_.rows[i] = (IF Expired(i) THEN NoRows ELSE Merged({i}))[i]
Served   == setting.dir # NoFolder /\ setting.auto

(* Whatever happened to it, the file comes to hold every row the table     *)
(* holds, once, with its Logger 2 values, under today's head: rows sent    *)
(* without their partner, appended twice or passed over are put right by   *)
(* the next trim.                                                          *)
FileCatchesUp ==
    Writable => []<>(Served /\ device.enabled =>
            \A i \in l1 \ Disowned :
                i + Skew <= Newest(l1) => Right(i) /\ File_.head = device.head)

(* A row that the table no longer holds, deleted or older than the window, *)
(* leaves the file, for a paused meter and a silent one too.               *)
FileForgets ==
    Writable => []<>(Served => \A i \in Time : i \notin l1 \/ Expired(i) => File_.rows[i] = "none")

(* The billing and energy files are written whatever becomes of the Load   *)
(* Profile CSV, kept open by a spreadsheet for good or failing.            *)
WholeFilesCatchUp ==
    []<>(setting.auto /\ setting.dir # NoFolder /\ device.enabled => fresh)
=============================================================================
