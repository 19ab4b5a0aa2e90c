-------------------------------- MODULE Capture --------------------------------
(***************************************************************************)
(* The documents of closed billing periods (capture/service.py, write.py,  *)
(* sweep.py), and who writes them: the eager capture after a billing read  *)
(* (acquisition/billing.py), the slices of Save all on the Scheduler's     *)
(* one-shot lane, and the downloads that render what is missing            *)
(* (api/billing.py).  A document's path follows from the row, and a file   *)
(* that exists is never written again: so the folder is the state.         *)
(*                                                                         *)
(* A capture takes minutes between loading the row and stamping it, and    *)
(* holds no lock: rows may be deleted, and their ids used again, meanwhile.*)
(* The Open Period has no document, an xlsx is written as an image is:     *)
(* both are left out.                                                      *)
(***************************************************************************)
EXTENDS Naturals, Sequences, FiniteSets, FiniteSetsExt

CONSTANTS
    Device,         \* meters, numbered: a sweep takes them in this order
    Request,        \* request threads: Read now, Save all, downloads
    scheduler,      \* the job thread: billing cycle and sweep slices
    Folder,         \* Billing Folders an administrator may set
    NoFolder,
    MaxId,          \* bound: rows the table holds at once
    MaxBill,        \* bound: periods of a meter
    MaxMishaps,     \* bound: deletions, stops of the Scheduler, deaths of the process,
                    \* changes of the folder
    NoRow

ASSUME CaptureAssumption ==
    /\ Device \subseteq Nat /\ scheduler \notin Request /\ NoFolder \notin Folder
    /\ {MaxId, MaxBill, MaxMishaps} \subseteq Nat

Capturer == Request \cup {scheduler}
Id     == 1 .. MaxId
Bill   == 1 .. MaxBill

Row  == [device : Device, bill : Bill, serial : BOOLEAN, stamped : BOOLEAN]
Path == Folder \X Device \X Bill \X {"pdf", "png"}

ASSUME NoRowAssumption == NoRow \notin Row

VARIABLES
    rows,       \* billing_readings by id
    whole,      \* files that are complete
    torn,       \* files that exist and are not complete
    folder,     \* the capture_dir setting
    work,       \* what each thread is capturing
    sweep,      \* the sweep's status and the ids that failed in it
    lane,       \* whether a slice waits on the one-shot lane
    up,         \* whether the Scheduler runs
    count,      \* clears, stops and restarts so far
    overtaken   \* history: rows were deleted, or a torn file taken for a document,
                \* in the middle of a capture

captureVars == <<rows, whole, torn, folder, work, sweep, lane, up, count, overtaken>>

\* kind: which caller; ids: what it has yet to capture, the first one under way;
\* row: its copy of the first; seen: history, the periods a slice set out from.
Idle == [kind |-> "none", pc |-> "idle", ids |-> <<>>, row |-> NoRow,
         dir |-> NoFolder, seen |-> {}]
Work == [kind : {"none", "eager", "sweep", "pdf", "image", "save"},
         pc   : {"idle", "next", "render", "writing", "stamp", "queue"},
         ids  : Seq(Id), row : Row \cup {NoRow},
         dir  : Folder \cup {NoFolder}, seen : SUBSET Id]

CaptureTypeOK ==
    /\ rows \in [Id -> Row \cup {NoRow}]
    /\ whole \subseteq Path /\ torn \subseteq Path /\ whole \cap torn = {}
    /\ folder \in Folder \cup {NoFolder}
    /\ work \in [Capturer -> Work]
    /\ sweep \in [running : BOOLEAN, failed : SUBSET Id]
    /\ lane \in BOOLEAN /\ up \in BOOLEAN /\ overtaken \in BOOLEAN
    /\ count \in [clears : 0 .. MaxMishaps, stops : 0 .. MaxMishaps, restarts : 0 .. MaxMishaps,
                  folders : 0 .. MaxMishaps]

CaptureInit ==
    /\ rows = [i \in Id |-> NoRow]
    /\ whole = {} /\ torn = {}
    /\ folder \in Folder
    /\ work = [t \in Capturer |-> Idle]
    /\ sweep = [running |-> FALSE, failed |-> {}]
    /\ lane = FALSE /\ up = TRUE /\ overtaken = FALSE
    /\ count = [clears |-> 0, stops |-> 0, restarts |-> 0, folders |-> 0]

-----------------------------------------------------------------------------
(* Rows and paths.                                                         *)

Stored  == {i \in Id : rows[i] # NoRow}
NextId  == 1 + Max({0} \cup Stored)

\* capture_target_paths: the row's meter and bill date, never its id.
Target(dir, row, format) == <<dir, row.device, row.bill, format>>
Exists(path) == path \in whole \cup torn

\* A thread between loading a row and stamping it.
UnderWay(t) == work[t].pc \in {"render", "writing", "stamp"}

-----------------------------------------------------------------------------
(* Where the work comes from.                                              *)

\* A billing read stores a period that closed since; the serial register may have
\* been unreadable.  Then, if there is a folder and the license allows, it captures
\* what it inserted.
ReadStores(t, d) ==
    /\ work[t] = Idle /\ (t = scheduler => up)
    /\ NextId <= MaxId
    /\ \E bill \in Bill, serial \in BOOLEAN, licensed \in BOOLEAN :
        /\ \A i \in Stored : rows[i].device = d => rows[i].bill < bill
        /\ rows' = [rows EXCEPT ![NextId] = [device |-> d, bill |-> bill, serial |-> serial,
                                            stamped |-> FALSE]]
        /\ work' = [work EXCEPT ![t] =
                      IF licensed /\ folder # NoFolder
                      THEN [Idle EXCEPT !.kind = "eager", !.pc = "next",
                                        !.ids = <<NextId>>, !.dir = folder]
                      ELSE Idle]
    /\ UNCHANGED <<whole, torn, folder, sweep, lane, up, count, overtaken>>

\* A download renders the document if it is missing: the PDF of a closed period,
\* or the image anchored on one, whose stamp is set.
Download(r, i) ==
    /\ work[r] = Idle
    /\ i \in Stored /\ rows[i].serial /\ folder # NoFolder
    /\ \E kind \in {"pdf", "image"} :
        LET path == Target(folder, rows[i], IF kind = "pdf" THEN "pdf" ELSE "png")
        IN  /\ ~Exists(path)
            /\ work' = [work EXCEPT ![r] = [Idle EXCEPT !.kind = kind, !.pc = "render",
                                              !.ids = <<i>>, !.row = rows[i], !.dir = folder]]
    /\ UNCHANGED <<rows, whole, torn, folder, sweep, lane, up, count, overtaken>>

-----------------------------------------------------------------------------
(* Save all.                                                               *)

\* The status is set under its lock, the slice is queued after it.
start_capture_sweep(r) ==
    /\ work[r] = Idle
    /\ folder # NoFolder /\ ~sweep.running
    /\ sweep' = [running |-> TRUE, failed |-> {}]
    /\ work' = [work EXCEPT ![r] = [Idle EXCEPT !.kind = "save", !.pc = "queue"]]
    /\ UNCHANGED <<rows, whole, torn, folder, lane, up, count, overtaken>>

QueueFirstSlice(r) ==
    /\ work[r].pc = "queue"
    /\ lane' = TRUE
    /\ work' = [work EXCEPT ![r] = Idle]
    /\ UNCHANGED <<rows, whole, torn, folder, sweep, up, count, overtaken>>

\* Mutant: what failed in this sweep is tried again in its next slice.
MissingWithFailed(dir) ==
    {i \in Stored : rows[i].serial /\ ~Exists(Target(dir, rows[i], "pdf"))}

\* Stored periods without a PDF in the folder, but for those that failed.
Missing(dir) ==
    {i \in Stored \ sweep.failed : rows[i].serial /\ ~Exists(Target(dir, rows[i], "pdf"))}

\* Devices in order, newest period first.
Before(i, j) ==
    \/ rows[i].device < rows[j].device
    \/ rows[i].device = rows[j].device /\ rows[i].bill > rows[j].bill

\* The rows in that order: before the k-th there are k - 1. No two are alike in meter
\* and bill date, for a read stores only later periods.
InOrder(ids) ==
    [k \in 1 .. Cardinality(ids) |->
        CHOOSE i \in ids : Cardinality({j \in ids : Before(j, i)}) = k - 1]

\* A period whose PDF is there and whose stamp is not gets the stamp.
Healed(dir) ==
    [i \in Id |-> IF /\ i \in Stored \ sweep.failed /\ rows[i].serial
                     /\ Exists(Target(dir, rows[i], "pdf"))
                  THEN [rows[i] EXCEPT !.stamped = TRUE] ELSE rows[i]]

Finished == [sweep EXCEPT !.running = FALSE]

\* A slice begins: the billing files are written, what is missing is listed.
BeginSlice ==
    /\ work[scheduler] = Idle /\ up /\ lane
    /\ lane' = FALSE
    /\ folder # NoFolder
    /\ rows' = Healed(folder)
    /\ overtaken' = (overtaken \/ \E i \in Stored : Target(folder, rows[i], "pdf") \in torn)
    /\ LET targets == InOrder(Missing(folder)) IN
         IF targets = <<>>
         THEN sweep' = Finished /\ UNCHANGED work
         ELSE /\ work' = [work EXCEPT ![scheduler] =
                            [Idle EXCEPT !.kind = "sweep", !.pc = "next", !.ids = targets,
                                         !.dir = folder,
                                         !.seen = {i \in Stored : rows[i].serial}]]
              /\ UNCHANGED sweep
    /\ UNCHANGED <<whole, torn, folder, up, count>>

\* The folder was emptied, the license forbids captures, or an error ends the slice.
SliceEndsEarly ==
    /\ work[scheduler] = Idle /\ up /\ lane
    /\ lane' = FALSE
    /\ sweep' = Finished
    /\ UNCHANGED <<rows, whole, torn, folder, work, up, count, overtaken>>

-----------------------------------------------------------------------------
(* One capture.                                                            *)

\* The row is gone, or it is loaded; without a serial there is nothing to write,
\* and the caller goes on as after a write.
Load(t) ==
    LET my == work[t]  id == Head(my.ids) IN
    /\ my.pc = "next" /\ my.ids # <<>> /\ rows[id] # NoRow
    /\ work' = [work EXCEPT ![t].row = rows[id],
                            ![t].pc = IF rows[id].serial THEN "render" ELSE "stamp"]
    /\ UNCHANGED <<rows, whole, torn, folder, sweep, lane, up, count, overtaken>>

Format(t) == IF work[t].kind = "image" THEN "png" ELSE "pdf"
MyPath(t) == Target(work[t].dir, work[t].row, Format(t))

\* Rendered in memory first; O_EXCL makes the file or refuses.
Create(t) ==
    /\ work[t].pc = "render" /\ ~Exists(MyPath(t))
    /\ torn' = torn \cup {MyPath(t)}
    /\ work' = [work EXCEPT ![t].pc = "writing"]
    /\ UNCHANGED <<rows, whole, folder, sweep, lane, up, count, overtaken>>

\* The image beside a PDF may be off, or fail, and changes nothing else: left out.
Write(t) ==
    /\ work[t].pc = "writing"
    /\ torn' = torn \ {MyPath(t)}
    /\ whole' = whole \cup {MyPath(t)}
    /\ work' = [work EXCEPT ![t] = IF work[t].kind = "pdf" THEN Idle ELSE [@ EXCEPT !.pc = "stamp"]]
    /\ UNCHANGED <<rows, folder, sweep, lane, up, count, overtaken>>

-----------------------------------------------------------------------------
(* What follows a capture that was written, skipped or failed.             *)

GoOn(t)   == work' = [work EXCEPT ![t].ids = Tail(@), ![t].row = NoRow, ![t].pc = "next"]
GoHome(t) == work' = [work EXCEPT ![t] = Idle]

\* Mutant: the slice that crossed its budget ends the sweep.
AfterForgetful(t, failed) ==
    LET last == Tail(work[t].ids) = <<>>
        done == [sweep EXCEPT !.failed = failed] IN
    /\ UNCHANGED lane
    /\ \/ ~last /\ GoOn(t) /\ sweep' = done
       \/ /\ last \/ work[t].kind = "sweep"
          /\ GoHome(t)
          /\ sweep' = IF work[t].kind = "sweep" THEN [done EXCEPT !.running = FALSE] ELSE done

\* The next one of the list, or the end of it: a slice that has crossed its budget
\* queues the next slice, one that has nothing left ends the sweep.
After(t, failed) ==
    LET last == Tail(work[t].ids) = <<>>
        done == [sweep EXCEPT !.failed = failed] IN
    \/ ~last /\ GoOn(t) /\ sweep' = done /\ UNCHANGED lane
    \/ ~last /\ work[t].kind = "sweep" /\ GoHome(t) /\ sweep' = done /\ lane' = TRUE
    \/ last /\ GoHome(t) /\ UNCHANGED lane
            /\ sweep' = IF work[t].kind = "sweep" THEN [done EXCEPT !.running = FALSE] ELSE done

\* The row was deleted before its turn: no capture, and no look at the budget.
Vanished(t) ==
    LET last == Tail(work[t].ids) = <<>> IN
    /\ work[t].pc = "next" /\ work[t].ids # <<>> /\ rows[Head(work[t].ids)] = NoRow
    /\ IF last THEN GoHome(t) ELSE GoOn(t)
    /\ sweep' = IF last /\ work[t].kind = "sweep" THEN Finished ELSE sweep
    /\ UNCHANGED <<rows, whole, torn, folder, lane, up, count, overtaken>>

FailedBy(t) ==
    IF work[t].kind = "sweep" THEN sweep.failed \cup {Head(work[t].ids)} ELSE sweep.failed

\* UPDATE ... WHERE id: whichever row has the id now.
Stamp(t) ==
    LET id == Head(work[t].ids) IN
    /\ work[t].pc = "stamp" /\ rows[id] # NoRow
    /\ rows' = [rows EXCEPT ![id].stamped = TRUE]
    /\ After(t, sweep.failed)
    /\ UNCHANGED <<whole, torn, folder, up, count, overtaken>>

\* Mutant: the capture that failed is stamped with the rest.
FailsStamped(t) ==
    /\ UnderWay(t)
    /\ work[t].pc = "stamp" => rows[Head(work[t].ids)] = NoRow
    /\ torn' = torn \ IF work[t].pc = "writing" THEN {MyPath(t)} ELSE {}
    /\ rows' = [i \in Id |-> IF i = Head(work[t].ids) /\ rows[i] # NoRow
                             THEN [rows[i] EXCEPT !.stamped = TRUE] ELSE rows[i]]
    /\ After(t, FailedBy(t))
    /\ UNCHANGED <<whole, folder, up, count, overtaken>>

\* Rendering fails, the file is there already, the disk fails half way and what was
\* written is unlinked, or there is no row to stamp.
Fails(t) ==
    /\ UnderWay(t)
    /\ work[t].pc = "stamp" => rows[Head(work[t].ids)] = NoRow
    /\ torn' = torn \ IF work[t].pc = "writing" THEN {MyPath(t)} ELSE {}
    /\ After(t, FailedBy(t))
    /\ UNCHANGED <<rows, whole, folder, up, count, overtaken>>

-----------------------------------------------------------------------------
(* What happens around it.                                                 *)

CanHappen == count.clears + count.stops + count.restarts + count.folders < MaxMishaps

clear_readings(d) ==
    /\ CanHappen
    /\ rows' = [i \in Id |-> IF i \in Stored /\ rows[i].device = d THEN NoRow ELSE rows[i]]
    /\ rows' # rows
    /\ count' = [count EXCEPT !.clears = @ + 1]
    /\ overtaken' = (overtaken \/ \E t \in Capturer : work[t].ids # <<>>)
    /\ UNCHANGED <<whole, torn, folder, work, sweep, lane, up>>

put_billing_settings(dir) ==
    /\ CanHappen /\ dir # folder
    /\ folder' = dir
    /\ count' = [count EXCEPT !.folders = @ + 1]
    /\ UNCHANGED <<rows, whole, torn, work, sweep, lane, up, overtaken>>

\* The license lapsed: the thread drops what it had drained and not begun.
SchedulerStops ==
    /\ up /\ CanHappen
    /\ up' = FALSE
    /\ lane' \in {lane, FALSE}
    /\ count' = [count EXCEPT !.stops = @ + 1]
    /\ UNCHANGED <<rows, whole, torn, folder, work, sweep, overtaken>>

SchedulerStarts ==
    /\ ~up /\ up' = TRUE
    /\ UNCHANGED <<rows, whole, torn, folder, work, sweep, lane, count, overtaken>>

\* The process dies and comes back: the folder and the table are all that is left.
Restart ==
    /\ CanHappen
    /\ work' = [t \in Capturer |-> Idle]
    /\ sweep' = [running |-> FALSE, failed |-> {}]
    /\ lane' = FALSE /\ up' = TRUE
    /\ count' = [count EXCEPT !.restarts = @ + 1]
    /\ UNCHANGED <<rows, whole, torn, folder, overtaken>>

Goes(t) == Load(t) \/ Vanished(t) \/ Create(t) \/ Write(t) \/ Stamp(t) \/ Fails(t)

CaptureNext ==
    \/ \E t \in Capturer : Goes(t)
    \/ \E t \in Capturer, d \in Device : ReadStores(t, d)
    \/ \E r \in Request : start_capture_sweep(r) \/ QueueFirstSlice(r)
    \/ \E r \in Request, i \in Id : Download(r, i)
    \/ BeginSlice \/ SliceEndsEarly
    \/ \E d \in Device : clear_readings(d)
    \/ \E dir \in Folder \cup {NoFolder} : put_billing_settings(dir)
    \/ SchedulerStops \/ SchedulerStarts \/ Restart

CaptureSpec == CaptureInit /\ [][CaptureNext]_captureVars

\* A capture ends, since rendering has a hard deadline; a request queues what it
\* said; the Scheduler, while it runs, takes what is queued.
Fairness ==
    /\ \A t \in Capturer : WF_captureVars(Goes(t))
    /\ \A r \in Request : WF_captureVars(QueueFirstSlice(r))
    /\ SF_captureVars(BeginSlice \/ SliceEndsEarly)

CaptureFairSpec == CaptureSpec /\ Fairness

-----------------------------------------------------------------------------
(* The Captured column names a file that was written, whoever captured,    *)
(* whatever failed and wherever the process died.  Only a deletion in the  *)
(* middle of a capture, or a half-written file that a sweep took for a     *)
(* document, can break this.                                               *)
StampedHasDocument ==
    ~overtaken =>
        \A i \in Stored : rows[i].stamped /\ rows[i].serial =>
            \E path \in whole \cup torn : path[2] = rows[i].device /\ path[3] = rows[i].bill

(* What billing.py promises without exceptions: a row is stamped only once  *)
(* its document exists.                                                    *)
CapturedHasDocument ==
    \A i \in Stored : rows[i].stamped =>
        \E path \in whole \cup torn : path[2] = rows[i].device /\ path[3] = rows[i].bill

Underway ==
    \/ lane \/ work[scheduler].kind = "sweep"
    \/ \E r \in Request : work[r].kind = "save"

(* A status that says running has a slice behind it, so Save all is never  *)
(* refused for a sweep that no longer exists, until the license stops the  *)
(* Scheduler with a slice queued.                                          *)
RunningIsUnderway == sweep.running => Underway \/ count.stops > 0

(* What sweep.py says of the status: running means queued or executing.    *)
RunningMeansRunning == sweep.running => Underway

(* A sweep that captures to the end leaves no period without a document    *)
(* but those that failed in it: none that a slice set out from is          *)
(* forgotten between slices, or behind a row that vanished.                *)
SweepLeavesNothing ==
    [][LET my == work[scheduler] IN
       my.kind = "sweep" /\ sweep.running /\ ~sweep'.running /\ count'.restarts = count.restarts
         => \A i \in my.seen : rows'[i] # NoRow /\ rows'[i].serial =>
              \/ Target(my.dir, rows'[i], "pdf") \in whole' \cup torn'
              \/ i \in sweep'.failed \/ overtaken']_captureVars

(* A sweep ends, however many slices it takes and whatever keeps failing:  *)
(* a period that cannot be written is tried once.                          *)
SaveAllEnds == []<>(~sweep.running \/ count.stops > 0)
=============================================================================
