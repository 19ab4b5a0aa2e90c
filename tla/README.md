# ArichDS, specified

ArichDS reads electricity meters on a site (over TCP or a shared serial line), stores what they
recorded in SQLite, and passes it on: CSV files, a database, a central server, an upload server.
It is one Python process: FastAPI request threads and an event loop, one Poller worker per meter,
one Scheduler thread for everything periodic. The source is under `src/app/src/arichds/`; paths
below are relative to it.

Here are TLA+ modules of its parts that keep state, TLC configurations that check them on small
instances, and proofs that the TLA+ proof system checks for every instance. `PROJECT.json` maps
each definition to the lines it models and lists runs, hazards and findings.

## Inventory

| Part | State | Operations | What must hold |
| --- | --- | --- | --- |
| Transport Endpoint locks, `acquisition/locks.py` | registry of locks; per lock a condition, a held flag, a count of waiting Manual Reads | `get`, `acquire_manual` (waits, may time out), `try_acquire_background` (never waits), `release` | one caller per line; a person is never overtaken by a tick; a timeout leaves nothing behind |
| Scheduler, `jobs/scheduler.py` | running flag, shutdown and wake events per run, due times, the one-shot queue | `start`, `stop`, `run_soon`, the thread's loop | one thread goes on; no stop and no one-shot is missed; no job starves |
| Poller, `acquisition/poller.py` | running flag, shutdown event per run, workers | `start`, `stop`, `restart`, the worker's loop | the rotation is what the database says; one worker per device goes on |
| License, `licensing/` | cached state with a TTL, RLock, listeners, the file | `current_state`, `activate`, listeners on Poller and Scheduler, the Limited Mode gate | both threads do what the license says, also when nobody is there |
| Device status, `acquisition/status.py` | `devices.status`, `consecutive_failures`, `enabled`; the event log | the three recorders, Pause, Resume, create, delete | log, status and strikes agree; a dead meter goes Offline |
| Meter drivers, `acquisition/drivers/` | the connection, for one visit; the meter's rings | connect, read by entry or by range, oldest reading, registers, disconnect | no row of the window is left out; values are in the unit they are said to be in |
| Load profile, `acquisition/load_profile.py` | `load_profile_readings`; no progress is stored: the newest row is the watermark | the walk, one chunk one transaction; retention; Delete all data | no hole behind the watermark; no row lost to the meter's ring |
| Billing, `acquisition/billing.py` | closed periods, one Open Period slot per device | read and store, change check, capture of new periods | a closed period is stored once and never changes; one open slot |
| Battery, energy registers, special days, `acquisition/` | one row per reading, or none | one read under a lock | what the driver returns, once |
| Capture, `capture/` | folders and `captured_at`; one browser, its task, its port file, a token row | eager capture, the sweep that re-queues itself, downloads, the image of a page | every closed period gets its document; a stamp stands for a document; nothing is left running |
| CSV export, `export/` | `csv_exported_through` per device, files | append, rewrite a whole window, trim | rows once and in order; a crash between file and watermark heals |
| Database Destination, `dataout/` | rows at the destination, its own watermark | append under a cap and a budget, purge, replace billing | no hole behind the watermark; the Mirror Window neither drifts nor loses rows |
| Central Push, `centralpush/` | what the server says it holds | ordered pushes of three kinds | nothing skipped after a failed request |
| File Upload, `fileupload/` | a manifest on the server | digest, put, write manifest | the manifest names only what arrived |
| Energy Summary, Retention, `db/` | daily rows, the 90-day window | recompute, purge | no day is left stale or stored with part of its readings |
| Backup, `db/backup.py` | a temporary file, seven backups | vacuum, rename, rotate | a half backup never counts; the last good one stays |
| Devices API, `api/devices.py` | rows of `devices` | create, update, delete; each probes the meter first | a row names the meter its credentials were proven against |
| Holidays, `api/holidays.py` | the calendar, the record of its changes | add, edit, delete, two imports | record and calendar agree |
| Accounts, `auth/`, `api/users.py` | rows of `users`, tokens | Setup, create, role, delete | an administrator remains |
| Settings and lists, `api/` | rows of SQLite | requests, one transaction each | what a job reads in the middle of its work is one moment's value |

How they interact. Poller workers, the Scheduler's reading jobs and API requests meet on the
endpoint locks. API requests write the device rows and then restart the Poller. The license
service calls the Poller and then the Scheduler on every change of state. Creating a device, Save
all and Upload now queue a one-shot on the Scheduler. Every read ends in a status recorder and a
store; a billing read then captures what it stored, and a capture asks our own web server for the
page it photographs. The outgoing parts read the stores and never each other.

What is hard: threads outlive `stop()` (its joins have a timeout of 5 s); read-modify-write
transactions overlap (SQLite takes no lock before the UPDATE) and ids are used again; progress is
told from data other parts delete; listeners run on whichever thread evaluates the license;
everything outgoing can fail between two of its steps and keeps its progress at the far side; a
capture leaves the process. `hazards` in `PROJECT.json` has each at its line.

## Modules

| Module | Models | Composition |
| --- | --- | --- |
| `EndpointPriority` | what callers of an endpoint are promised | abstract |
| `EndpointLock` | `locks.py`, one action per critical section | implements `EndpointPriority` |
| `Scheduler` | `scheduler.py`: start, stop, loop, `run_soon` | |
| `Poller` | `poller.py` and the device requests that restart it | |
| `LicensedPoller` | license service, middleware, both listeners | extends `Poller` |
| `DeviceStatus` | `status.py`, Pause/Resume, the ORM's UPDATE | |
| `MeterReads` | a visit to a meter through its driver | |
| `LoadProfile` | the walk, clear, retention and the meter's ring | |
| `ProfileReads` | a window of time from the table to the ring and back | extends `LoadProfile`, composes `MeterReads` |
| `Billing` | the whole-buffer read, its store, the Billing Change Check, clear | |
| `Screenshot` | the image of a period: turn, token, task, browser, page, teardown | |
| `BillingDocuments` | a meter's periods from its buffer to their images | extends `Billing`, composes `Screenshot` |
| `Capture` | documents, stamps, the sweep, downloads, eager captures | |
| `CsvExport` | the export files of one meter and the daily trim | |
| `FileUpload`, `Destination`, `CentralPush` | the three ways out and their far sides | composed by `Outgoing` |
| `Devices`, `Holidays`, `Accounts`, `EnergySummary`, `Backup` | what is administered on a site | composed by `Site` |
| `*Proofs` | theorems; `ThreadProofs` those about `EndpointLock`, `Scheduler` and `Capture` | extend their modules and TLAPS |
| `MC*` | the small sets the configurations use | extend their module |

`Site`, `Outgoing`, `BillingDocuments` and `ProfileReads` compose parts that share no variable in
the code, or only through the tables, or the ring, that one of them has in full. A behaviour of the composition chooses its part at the
start and stays with it, so TLC checks the union of the parts and not their product; a product
would multiply states without an interleaving that anything tells apart.

**EndpointLock.** A body under `with self._condition` is one action. A wait is several: the count
goes up and the thread parks (`ManualPark`), it is notified or times out, and it takes the mutex
again (`Granted`, `WaitAgain`, `GiveUp`). Between `Release` and `Granted` the endpoint is free with
someone waiting: the state the priority rule is about. `_registry` is a function, the lock objects
a set, so that a broken `get` can hand out two locks for one line.

**Scheduler.** Events belong to a run, the queue to the process. `start` and `stop` exclude each
other (`_guard`), the thread takes no guard: so `stop` is two steps (`StopSignal`, `StopWake`),
`run_soon` three (`Enqueue`, `CatchWake`, `SetWake`), and the thread moves one look at shared state
at a time. A job comes due at any time (`ComesDue`): intervals are not modelled, order is.

**Poller.** A run has an event and a worker per device of its snapshot. `start` reads the
database and launches under `_guard`, in two steps, since a request may commit in between. `Put`
and `TakeOut` are the commit of a create, resume, pause or delete; the restart follows as `Stop`
and `Snapshot`/`Launch`. A worker keeps the event it was born with. What a tick finds on the line
is `EndpointLock`, what it writes is `DeviceStatus`; here it is a poll, a record and a wait.

**LicensedPoller.** Adds the lease (`licensed`), the cache (`state`, `stale`), the RLock while
listeners run, and for each evaluating thread which listener it still has to call. `Evaluate` is
`re_evaluate()`, under the lock from `current_state()` and without it from `activate()`. `Admit` is
the middleware: a device request is checked once and commits later. Poller calls are begun by
`TellPoller` and made by Poller's own actions.

**DeviceStatus.** A session loads the row and commits later; `Flushed` writes only the columns that
differ from what it loaded, as SQLAlchemy does. A meter answers or not. A device may be deleted
and its id given to another while a session holds the old row. The log keeps the last event, since
the older ones do not matter to the properties (and retention removes them). Strikes beyond the
threshold are folded to two values, so that each still differs from the one before.

**LoadProfile.** Time is age in intervals, so the state stays finite while time goes on. A walk
takes its watermarks before the endpoint (`Begin`), then chunk by chunk, each in a transaction;
ages of everything grow with `Tick`, over a walk too. The ring overwrites its oldest row. Both
loggers of a model read the same ring.

**MeterReads.** A visit connects (with retries), does one task and disconnects; the meter goes on
between its round trips: it logs an interval, drops its oldest row, closes a period, or is dark and
logs nothing. The four models differ in how a window of time becomes a request: by entry numbers
counted back from the meter's clock (`_entry_window`), by range, or from an estimate of the oldest
row. An interval is its number, a period its number.

**Billing.** Periods are numbered in the order the meter closed them, and its ring keeps the last
`Ring`; a buffer that was read is told by the newest period it holds (`through`). `_store` looks the
entries up newest first, and each SELECT sees what is committed by then, since sqlite3 opens no
transaction before the first INSERT: so Delete all data may fall between two of them
(`FindStored`). From the first INSERT to the commit the database is locked, and that is one step
(`Commit`). The meter's clock may be set back but stamps no second twice, except that a rescaled
tariff closes a pair of periods on one second, as ADR 0029 describes. A row remembers the
period it was read from for the sake of the properties; the code's key is bill date and Billing
Sequence. What follows when the line is given back is in `Capture`.

**Screenshot.** Rows are selected, then the caller waits for its turn, a token is committed, a
scheduled task starts the browser, the browser writes its port, a page is loaded that asks the
database on its own, and only when the ids on it are those selected is it photographed. Each is a
step, so that a read, a deletion, a deadline, a dying browser or a dying process fits between any
two. `NothingIsLeftBehind` is about `_Cleanup.run`: each of its steps in spite of the one before,
a cancellation included. Billing's store is one step here and the page's query is the code's, for
both Capture Styles.

**Capture.** A document's path follows from its row and a file is created exclusively, so the folder
is the state: `whole` and `torn` (a write that failed half way keeps its name). Rows have ids that
are used again after a deletion. The sweep is a list of ids per slice, the set of those that failed,
and the one-shot lane that runs the next slice; `SchedulerStops` drops what the lane had drained.

**CsvExport.** The file is a sequence of intervals, each with or without its Logger 2 values, under
a head. Two SELECTs find the newest row and the rows, the file is appended to or replaced, the
watermark is committed: a step each, with the other logger's walk, deletion, another head, another
folder, a file someone keeps open and a death of the process between them.

**FileUpload, Destination, CentralPush.** None remembers what it sent: progress is what the far side
says. So each module has the far side in it, with what can befall it: a wiped folder and a changed
host key; a dropped table; a server that forgets, speaks another version or answers too late.
Requests are cut at their chunks, budgets may be spent between any two of them.

**Devices, Holidays, Accounts.** A request looks and commits in different steps, since a session
keeps no snapshot: `Devices` has the probe of the meter in between, with panels rewired and
passwords changed meanwhile. An UPDATE names the columns in which the edited row differs from the
loaded one, whatever the row is by now. `mixed`, `crossed` and `deposed` remember that a commit met
a row, or an administrator, other than the one it had loaded.

**EnergySummary, Backup.** The recompute goes device by device and day by day through a window that
moves, next to a calendar that changes and a Retention that cuts by two clocks; a day is its
readings by bucket. A backup is three steps and a rotation, with the process dying between them.

Some properties are stated beside the ones the configurations check, and can be added to a cfg: the
types of each module, the safety that `FreedEndpointIsGranted`, `OneShotRuns` or
`SilentMeterEndsOffline` build on (`OneCallerPerEndpoint`, `NeverOvertaken`, `BegunAtMostOnce`,
`LostOnlyToStop`, `StopEndsThread`, `RotationFollowsRows`, `TakenOutIsLeftAlone`, `RestartsEnd`,
`StillAPoller`, `StrikesAgreeUntilOverlap`, `EventsRecordChangesOnly`, `OpenSlotMovesForward`,
`RunningIsUnderway`, `RowKeepsItsMeter`, `StartIsNotLate`, `SplitFollowsWallClock`,
`OnlyTheRunningPeriodIsOpen`, `FileForgets`, `WholeFilesCatchUp`), and the promises of comments that
the code does not keep (below).

## Runs

| Run | Instance | Shows |
| --- | --- | --- |
| `endpoint_lock` | 2 endpoints, 2 Manual Reads, a worker, the Scheduler thread, 3 lock objects | no leaked flag or count, no lost wakeup, a freed endpoint is granted, refinement of `EndpointPriority` |
| `scheduler` | 2 runs, registries of 0 to 2 jobs, 2 one-shots (`MaxSize` 3: runs with jobs, runs with one-shots) | one thread goes on, one-shots are not missed, no job starves |
| `licensed_poller` | 1 device, 1 device request, 3 evaluating threads, 3 runs | rotation, workers and both listeners together; a lapse stops polling |
| `device_status` | a worker, a Read now, an operator, threshold 2, failing commits | the log never contradicts the status; a silent meter ends Offline |
| `load_profile` | 2 loggers, ring and window of 3, chunk 2, gaps up to 2, a Read now and the cycle; for visits 4 models, a ring of 6, 8 intervals, dark for up to 2 | no hole behind the watermark; nothing lost to the ring; the rows asked for hold every row of the window |
| `billing` | a Read now and the Scheduler, a ring of 3, 4 periods, 3 bill dates, 2 deletions; for images 2 threads, a ring and a picture of 2, a pair, 3 ids, 1 trouble and 1 mishap | a key names one period for good; what is missing is noticed; every period is stored in the end and has its image, of the right periods; nothing is left running |
| `capture` | a read, a request, the lane; 2 ids, 2 periods, 1 folder, 1 mishap | a stamp stands for a document; a sweep leaves nothing and ends |
| `csv_export` | cycle and Save now, 3 intervals, window 1, skew 1, one interval disowned, 2 heads, 1 mishap | no row twice; the watermark covers; the file catches up |
| `outgoing` | 2 files of 2 versions by 2 protocols; 4 intervals in chunks of 2; 3 days, items in requests of 2; 1 mishap each | nothing is taken for sent that is not there; each far side catches up; the Mirror Window holds |
| `site` | 2 requests; 2 devices, 2 lines, 2 meters; 2 Holidays; 3 accounts; 3 days of readings; 2 backups kept | rows are proven, calendar accounted for, days whole and caught up, an administrator and the last backup remain |
| `meter_reads_energy` | 2 models, 3 intervals | see Findings |
| `csv_export_cap` | as `csv_export`, with 4 intervals, 1 head and no mishap | see Findings |

Why the bounds are enough. Mutual exclusion, priority and lost wakeups take two waiters, one
holder and one tick; a third lock object is one more than the endpoints, for a `get` that forgets.
Two runs are needed for a thread that outlives its stop and meets the next run, three in the Poller
so that two generations linger. Two jobs are the least with one behind another, and a registry of
none is the case in which the sleep has no timeout to hide a lost wakeup. The threshold of strikes
is 3 in the code; 2 is the least at which one strike is not yet Offline. Three concurrent sessions
cover a loser, a winner and an operator between them. The ring, window and chunk keep the code's
relations: the chunk is shorter than the window, the window no shorter than the ring, and a ring
overwrites before the window ends. Four periods over a ring of three drop the older one of a pair;
three bill dates leave room for a clock set back between two others. An image of two rows has a
newest and one below it, and a pair of one second makes them two rows no date tells apart; three ids
let the table be emptied and used again. Two requests on a table are the one that looked and the one
that committed in between. Chunks and requests of two cut apart what three or four items make.
Each mishap (a death of the process, a failed request, a wiped folder, a deletion by an operator)
may happen once, at any step: the properties say what one of them does, and liveness that the system
recovers from it; two deletions are allowed where the second meets what the first left behind. The
proofs say of which runs the bound does not matter at all.

`CHECK_DEADLOCK FALSE` stands where a bound (on runs, ids, periods or the clock) ends all behaviour
in the end.

## Fairness

Only what the code's scheduling gives. A thread that can run does. A meter read ends, since the
transports have timeouts. A begun request, stop or delivery goes on. Time passes: the TTL of 60 s,
the due time of a job. Nobody is assumed to call, to queue, to wait less than their timeout, or to
open the browser. The one job that is relied on to ask for the license is the Database
Destination's (`dataout/sync.py:168`), which calls `feature_enabled` before anything else every
15 minutes. A worker ticks as long as its device is enabled, and is not skipped for ever by Manual
Reads. The daily billing job comes by for ever, as long as the device is enabled and not Offline,
and its reads do not fail for ever; the Change Check alone would not store the newest of a pair,
which waits for that job. `PromptDelivery` assumes that listeners return within the 60 s TTL (their
joins take 5 s each); without it the deliveries of two evaluations may cross.

A capture goes on until its deadline does, the turn comes round, and an image or document that is
missing is asked for again by the next sweep or download. A cycle that is due runs, and a request or
statement that hangs times out; nothing says that one succeeds, save that mishaps are bounded. A
spreadsheet does not keep a file open against every write there is.

## Proofs

All constants are arbitrary: any finite set of threads, any endpoints, devices, requests, runs, any
threshold, ring, window, skew, page or number of files kept. Assumptions are the named `ASSUME`s of
the modules, which TLC evaluates in the runs. What the code does not grant in every use is a hypothesis
of a theorem instead: that listeners return before the cached license is stale (`PromptDelivery`)
and that one thread at a time activates a license (`OneActivation`), for `ListenersFollow`; that
data is not deleted in the middle of a walk (`~ClearMidway`), for `NoHole`; and, for
`NothingIsOverwrittenUnread`, `CanKeepUp`: a chunk (24 h) spans the longest time between two rows,
the ring holds three rows or more, one cycle at a time walks (as the Scheduler's job does), and
`~ClearMidway`. Without `PromptDelivery`, `OneActivation`, `~ClearMidway` for `NoHole`, the bound on
the gap or the third row TLC finds the property violated, as said below and under the hazards.

The parts of `Site` and of `Outgoing` are proved in the composition that the runs check: each part
has its inductive invariant, and a step of one part leaves the others alone. `LicensedPoller`,
`BillingDocuments` and `ProfileReads` are shown to take only steps of `Poller`, `Billing` and
`LoadProfile` (`StillThePoller`, `StillBilling`, `StillLoadProfile`), so that what is proved of
those holds of them.

Hardly any property is inductive, and for one reason: nearly everything here acts on what it read
before, while others write. So the invariants say what a worker, a request or a cycle in the middle
of its work still knows.

* `ThreadProofs`, of the lock. The inductive invariant says that whoever is inside a call was handed
  the registered lock (`Handed`), that no lock serves two endpoints, that the holder is unique per
  lock, that held flag and count are what callers do, and that a parked thread waits on a held lock.
  Type correctness needs the count: `manualWaiting` stays a natural number only because whoever
  leaves the wait is counted in it. From it follow exclusion, `LockAgreesWithCallers`,
  `NeverOvertaken`, and, step by step, `PromiseKept`.
* `PollerProofs`. `RotationFollowsRows` is nearly inductive: it needs the type invariant (one
  caller inside `start()`), and that runs are used in order and older ones signalled
  (`RunsInOrder`), from which one worker goes on per device. `TakenOutIsLeftAlone` follows.
* `PollerProofs`, below the Poller. That the license drives it without a step of its own needs that
  a listener's call finds a run left for it. `ListenersFollowState` needs to know whose news is on
  its way (`NInv`): whoever evaluates with the lock held delivers the state of now; a thread that
  activates delivers after the lock is released, but no evaluation starts before it has ended. And
  each listener does what the state says, or is about to be told.
* `ThreadProofs`, of the Scheduler. `OnlyTheCurrentRunGoesOn` is inductive once it is known that a
  run that has not begun has no thread (`FutureIsUnborn`) and that between its two steps a `stop()`
  has told the current run (`StoppingIsTold`).
* `ThreadProofs`, of the capture. `StampedHasDocument` needs that the row which a capture has loaded
  still is the row of its id when the stamp is committed (`StillThere`), which only a deletion under
  way could change, and that whoever is about to stamp such a row has its document (`MayStamp`).
  Complete files stay; half-written ones may go, and only a slice takes one for a document: then
  `overtaken` is set. That no two captures write one file is not needed, nor is any order of them.
  `SweepLeavesNothing` needs that a sweep is one piece at a time: the request that will queue its
  slice, the slice on the lane, or the slice that runs (`OneSweep`), so that only the slice's own
  last step ends it. Of what the slice set out from, each id has its document, has failed, or is
  still on the list (`SliceKnows`). That the list has all of them when it is made is an argument of
  its own: the order by device and bill date gives each id a place.
* `DeviceStatusProofs`. `LogMatchesStatus` is inductive with the types: a commit writes status and
  event together, or neither. `StrikesAgree` needs that a loaded row is the row itself, which holds
  until two transactions overlap.
* `BillingProofs`. `IInv` says that each row's key is that of its period in the meter's whole
  history (`Keyed`), that periods of one bill date are adjacent (`Contiguous`), that with a stored
  period every older one still in the ring is stored (`DownClosed`), and that a store works on a
  buffer whose later periods have other bill dates and whose slot has not moved past it
  (`StoreIsCurrent`). The Billing Sequence counts in the buffer, the key in the history: they agree
  since the ring drops only what is older. All safety properties of the module follow.
  `TurnIsTidy`, of the images, needs that a thread has the turn exactly at the steps between taking
  it and giving it back (`TInv`): then a browser or a running task is there, mishaps aside, only
  while the teardown of the thread that started it is still to come. `PictureShowsItsPeriods`, of
  what is on them, needs the table: one row per period, and while a row is there every period that
  the meter still holds (`Tables`). What is stored later is newer than all of it, so the rows of a
  page, once they were next to each other in the order of periods from the one the image is named
  for, stay so, though the page asks long after the capture began (`Truthful`).
* `LoadProfileProofs`. `NoHoleBehindWatermark` speaks of the newest row. The next chunk goes where
  a walk has come to, and the walk began at a watermark read before it had the line; so `NoHoles`
  says the same of every stored row, of every watermark read and of every place reached: what is
  older, was recorded and is within the window is stored.
  `NothingIsLost` is about the one step in which a row goes, and what saves the row is done an
  interval before. `KeepsUp` says that a visit that went well leaves no logger behind the ring's
  oldest row (`Caught`); that after an interval more a chunk still reaches it (`InReach`), since the
  next row is no more than a chunk younger; and that a visit in which an interval passes has by then
  read enough for the next oldest row too (`StaysCaught`). In a ring of two rows the oldest is by
  then no older than the visit's end, so a first walk does not start at it (`_backfill_start`) and
  may spend its budget on an empty chunk: TLC finds the row lost.
  `NothingHeldIsMissed`, of a driver's read, counts: an entry's number is how many rows the ring
  holds up to it. `ReadInv` keeps what each round trip found: the entries in use were right when
  they were read, the program's clock is between that moment and now, and the count of a row can
  have grown by no more than what was logged since (`CountIsClose`). The window that `_entry_window`
  then computes is off by what was logged or dark in between, which is what its margins are for.
* `CsvExportProofs`. A call acts on two SELECTs and a look at the file, while walks store rows, rows
  lose or gain their partner and the trim replaces the file. `CsvInv` says what the file has up to
  the watermark and beyond it (`Settled`: rows in order, each once, none of the window left out),
  that no row comes in before the place where the next walk goes on, which watermark and cap never
  pass (`FrontierAhead`), and at every step of a call what its selection is still worth
  (`WorkIsSound`). Both properties follow. They end with the events they name: an append cut short
  or not committed, data, folder or file taken away, and, for `WatermarkIsCovered`, a rewrite that
  admits no row.
* `SiteProofs`. Of devices: a request about to commit carries columns a meter has answered to, and
  an edit the code of the row it loaded. If the row is still the one loaded, writing the columns
  that differ makes it the edited row as a whole, and since the serial may not change its code stays
  right; if it is not, `mixed` is set. Of accounts: a request that changes or deletes an account is
  never for the account itself, so that its administrator, if he still is one at the commit, is one
  after it; a new account takes an id that nobody has, which needs that the largest of a finite set
  of ids exists. Of Holidays: the count is nearly inductive, and the work is in how many rows an
  import takes out and puts in. Of energy: what a day once held is there to be counted until the day
  is out of the window for good, of the window of a pass under way too (`NothingLeaks`), and what a
  pass is about to write is no less than what was written and no more than there is
  (`ComputedIsWhole`). Of backups: while the clock goes forward no name is newer than the one being
  written, so the newest name is the last backup's and the rotation, which keeps at least one, is
  never about it; what is renamed is what VACUUM INTO has finished.
* `OutgoingProofs`. `UInv`: what a cycle has digested but not sent, sent but not recorded, and
  recorded but not written, is each true of the server, or the server has betrayed it. `DInv`: up
  to the place that a cycle goes on from, and up to every row that is there, each interval of the
  window is there, save what is disowned (`NothingIsSkipped`); this needs that the machine's own
  rows have no hole below their newest (`WindowIsFilled`), which is `NoHole` above. `CInv`: a kind's
  rows below the next stamp are at the server, or are still in the ordered rest of the cycle, or
  share a second with a row that a request cut off; rows written since are newer.

Besides the properties of the runs, the proofs show `OneCallerPerEndpoint`, `NeverOvertaken`,
`RotationFollowsRows`, `TakenOutIsLeftAlone`, `StillAPoller`, `StrikesAgreeUntilOverlap`,
`OpenSlotMovesForward` and the types of most modules.

Every safety property that the passing runs check is proved, the invariants and the properties of
steps. Only model-checked is liveness: fairness and ENABLED are out of the prover's reach.

## Findings

`meter_reads_energy`. `read_register` (`acquisition/drivers/_dlms.py:525-534`) takes a scaler that
could not be read for one and reads the value all the same. A read that fails once, in the middle,
thus stores a register in the meter's raw count, while `base.py:782-784` says that the values are
already in kWh or kvarh and that an address that refuses leaves its field `None`.

`csv_export_cap`. A rewrite moves the watermark only if it wrote a row (`export/csv_export.py:277`),
though it is to "advance the watermark to match" (261-262). The cap of the rows it may write can
come down: rows go out without a partner while Logger 2 is stale, then Logger 2 has a row again
which is older than they are (`db/load_profile_query.py:205-216`). A trim then admits none of them,
empties the file and leaves the watermark behind rows that the table still has; no append brings
them back, only a later rewrite whose cap has passed them. Lines 531-533 say that a trimmed file is
what appending alone would have produced. The attempt to prove `WatermarkIsCovered` met it; the
property excuses it by name.

## Where the code differs from what it says

Met while modelling. Each is stated as a property of its own, which TLC finds violated when it is
added to the configuration named, or excused by name in the property that is checked.

| Where | What the code does | Stated as |
| --- | --- | --- |
| `jobs/scheduler.py:122-125` | one-shots that a retired thread has drained are dropped at its shutdown, though "must still run on the next pass rather than being lost" | `QueuedWhileStoppedIsKept`, `Scheduler.cfg` |
| `acquisition/poller.py:26` | a request admitted before the lease lapsed restarts the Poller after the listener has stopped it | `PollerOnlyWhileLicensed`, `LicensedPoller.cfg` |
| `licensing/service.py:217` | `activate()` calls its listeners after it has let go of the lock; of two activations with a lapse between, the older news may arrive last and stay | `ListenersFollowState` with two members in `Activator`, `LicensedPoller.cfg` |
| `db/models.py:151-154` | two recorders that overlap leave strikes that contradict the status; it heals | `StatusMatchesStrikes`, `DeviceStatus.cfg` |
| `api/devices.py:1636-1638` | after Delete all data in the middle of a walk its rest is the new watermark, and what lies before is not read again | `NoHoleBehindWatermark` with `ClearMidway = TRUE`, `ProfileReads.cfg` |
| `acquisition/load_profile.py:160-163` | a gap at the watermark wider than a visit's budget is walked from its start on every visit | `NothingIsLost` with a larger `MaxGap`, `ProfileReads.cfg` |
| `acquisition/billing.py:311` | a row without a meter serial is stamped though no document was written | `CapturedHasDocument`, `Capture.cfg` |
| `capture/sweep.py` | a slice lost with a stopped Scheduler leaves the status at running, and Save all is refused until the process restarts | `RunningMeansRunning`, `Capture.cfg` |
| `db/load_profile_query.py:178-181` | until Logger 2's first row is stored, rows a first backfill brought from more than 24 h back go out without a partner at once, though the escape is said to wait until Logger 2 has stored nothing for 24 h | `HalfOnlyWhenSilent`, in `Destination` |
| `fileupload/manifest.py:54` | a manifest that could not be read is begun anew; if the budget ends that cycle, entries of files it did not come to are gone | `EntriesAreNeverRemoved`, in `FileUpload` |
| `fileupload/manifest.py` | a wiped folder, or a cut transfer over a file that was there, leaves a manifest that names more than the server has | `ManifestNamesServerState`, in `FileUpload`; `betrayed` in the one checked |
| `api/devices.py:1252-1255` | two edits that overlap leave a line and a password that were not proven together | `mixed` in `RowIsProvenUntilMixed` |
| `api/users.py` | two administrators who demote or delete each other at one moment leave none | `deposed` in `AnAdminRemains` |
| `api/holidays.py` | a second delete of a row is recorded again; an edit during an import is recorded for a row that is gone | `crossed` in `CalendarIsAccountedFor` |
| `db/backup.py` | with the clock set back the newest backup has the oldest name and goes at once | `turned` in `LastBackupIsKept` |
| `centralpush/cycle.py` | rows of one second that a request cuts apart stay behind when the next request fails | `parted` in `NothingStranded` |
| `capture/screenshot.py:663` | ids used again after a deletion pass the gate that compares ids | excused in `PictureShowsItsPeriods` |

Concurrent creates may exceed the licensed count by the number of them; `api/devices.py:833-836`
says so and accepts it, and no property is about the count. In `export/csv_export.py:586` trimming
"only ever shrinks" a file, but a rewrite also brings rows up to date. The energy file keeps its
last content when its window becomes empty.

## Not modelled, and why

DLMS frames, decoding and the vendored reader, the PDF, Excel and image layouts, activation codes
as bytes and the machine id are functions of their input. The web application, the installer and
vendor tools keep no state of the system; configuration and logging are constants and output.
Migrations run once, before anything else. Tokens, passwords and sign-in are not in `Accounts`;
connection tests, validation and the response shapes of the API change nothing. The teardown of the
process is one more `stop()` of each part.

Times are orders, not durations: a join's 5 s, the manual timeout of 120 s and the budget of 60 s
are "may run out"; so is the time listeners hold the license's RLock. Readings that a walk of a
deleted device writes to the next device of its id are listed as a hazard and not modelled; what
that does to the status row is.

## Plan

1. Tokens and sign-in beside `Accounts`; the once-a-day guard of the battery job; the purge of
   device events and holiday changes in Retention.
2. Readings of a deleted device: `LoadProfile` over two devices and reused ids.
