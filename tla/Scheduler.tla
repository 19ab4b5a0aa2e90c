------------------------------ MODULE Scheduler ------------------------------
(***************************************************************************)
(* jobs/scheduler.py: one job thread per run.  A run is one start() to one *)
(* stop(); the thread of a stopped run may outlive it, finishing its job   *)
(* beside the thread of the next run.  The shutdown and wake events belong *)
(* to the run; the one-shot queue belongs to the process.                  *)
(*                                                                         *)
(* start() and stop() exclude each other by _guard, but the job thread     *)
(* takes no guard: stop() is two steps for it, shutdown.set() and          *)
(* wake.set().  run_soon() is three: append, read self._wake, set it.      *)
(***************************************************************************)
EXTENDS Naturals, Sequences, FiniteSets

CONSTANTS
    MaxRuns,   \* bound: how often the Scheduler is started
    MaxJobs,   \* bound: how many jobs the registry may hold
    MaxSize,   \* bound: runs and jobs together, runs and one-shots together
    OneShot,   \* the run_soon() calls, each made at most once
    Enabled    \* the master switch ARICHDS_POLL_ENABLED

ASSUME SchedulerAssumption == /\ MaxRuns \in Nat
                              /\ MaxJobs \in Nat
                              /\ MaxSize \in Nat
                              /\ Enabled \in BOOLEAN

Run == 1 .. MaxRuns
VARIABLES
    jobs,          \* how many jobs it was made with, numbered in their order
    running,       \* self._running
    stopping,      \* a stop() is between shutdown.set() and wake.set()
    current,       \* the run self._shutdown and self._wake belong to; 0: none yet
    shutdown,      \* the shutdown event of each run
    wake,          \* the wake event of each run
    thread,        \* where the thread of each run is
    batch,         \* the one-shots it has drained and not finished
    ready,         \* the jobs still to run in its pass: due when the pass began
    due,           \* the jobs whose due time has come
    pending,       \* self._pending
    caller,        \* where each run_soon() call is
    caughtWake,    \* the run whose wake that call read; 0: None
    began,         \* how often each one-shot was begun
    queuedStopped  \* the one-shots queued while the Scheduler was not running

queueVars == <<pending, caller, caughtWake, began, queuedStopped>>
schedulerVars == <<jobs, running, stopping, current, shutdown, wake, thread, batch, ready, due, queueVars>>

Job == 1 .. jobs

ThreadState == {"unborn", "top", "drain", "shots", "shot", "jobs", "job",
                "clear", "recheck", "look", "sleep", "done"}

SchedulerTypeOK ==
    /\ jobs \in 0 .. MaxJobs
    /\ running \in BOOLEAN /\ stopping \in BOOLEAN
    /\ (stopping => running) /\ (running => current \in Run)
    /\ current \in 0 .. MaxRuns
    /\ shutdown \in [Run -> BOOLEAN] /\ wake \in [Run -> BOOLEAN]
    /\ thread \in [Run -> ThreadState]
    /\ batch \in [Run -> Seq(OneShot)]
    /\ ready \in [Run -> SUBSET Job] /\ due \in [Run -> SUBSET Job]
    /\ pending \in Seq(OneShot)
    /\ caller \in [OneShot -> {"idle", "appended", "caught", "returned"}]
    /\ caughtWake \in [OneShot -> 0 .. MaxRuns]
    /\ began \in [OneShot -> Nat]
    /\ queuedStopped \subseteq OneShot

SchedulerInit ==
    /\ jobs \in 0 .. MaxJobs
    /\ running = FALSE /\ stopping = FALSE
    /\ current = 0
    /\ shutdown = [r \in Run |-> FALSE]
    /\ wake = [r \in Run |-> FALSE]
    /\ thread = [r \in Run |-> "unborn"]
    /\ batch = [r \in Run |-> <<>>]
    /\ ready = [r \in Run |-> {}]
    /\ due = [r \in Run |-> {}]
    /\ pending = <<>>
    /\ caller = [o \in OneShot |-> "idle"]
    /\ caughtWake = [o \in OneShot |-> 0]
    /\ began = [o \in OneShot |-> 0]
    /\ queuedStopped = {}

Asked == {o \in OneShot : caller[o] # "idle"}
RoomFor(n) == current + n < MaxSize

-----------------------------------------------------------------------------
(***************************************************************************)
(* start() and stop(), from a license listener or the application lifespan *)
(***************************************************************************)

\* Mutant: start() clears and reuses the events of the run before, which a
\* thread that outlived its stop() is still watching.
StartReusingEvents ==
    /\ Enabled /\ ~running /\ ~stopping
    /\ current < MaxRuns /\ RoomFor(jobs) /\ RoomFor(Cardinality(Asked))
    /\ current' = current + 1
    /\ running' = TRUE
    /\ shutdown' = [r \in Run |-> FALSE]
    /\ thread' = [thread EXCEPT ![current'] = "top"]
    /\ due' = [due EXCEPT ![current'] = Job]
    /\ UNCHANGED <<jobs, stopping, wake, batch, ready, queueVars>>

\* Fresh events, a new thread, every job due on its first pass.
Start ==
    /\ Enabled /\ ~running /\ ~stopping
    /\ current < MaxRuns /\ RoomFor(jobs) /\ RoomFor(Cardinality(Asked))
    /\ current' = current + 1
    /\ running' = TRUE
    /\ thread' = [thread EXCEPT ![current'] = "top"]
    /\ due' = [due EXCEPT ![current'] = Job]
    /\ UNCHANGED <<jobs, stopping, shutdown, wake, batch, ready, queueVars>>

StopSignal ==
    /\ running /\ ~stopping
    /\ shutdown' = [shutdown EXCEPT ![current] = TRUE]
    /\ stopping' = TRUE
    /\ UNCHANGED <<jobs, running, current, wake, thread, batch, ready, due, queueVars>>

\* The join that follows has a timeout and changes nothing.
StopWake ==
    /\ stopping
    /\ wake' = [wake EXCEPT ![current] = TRUE]
    /\ running' = FALSE
    /\ stopping' = FALSE
    /\ UNCHANGED <<jobs, current, shutdown, thread, batch, ready, due, queueVars>>

-----------------------------------------------------------------------------
(***************************************************************************)
(* _run(), the job thread of run r                                         *)
(***************************************************************************)

GoTo(r, state) == thread' = [thread EXCEPT ![r] = state]
OthersUnchanged == UNCHANGED <<jobs, running, stopping, current, shutdown>>

\* `while not shutdown.is_set(): now = time.monotonic()`
PassBegins(r) ==
    /\ thread[r] = "top"
    /\ IF shutdown[r]
       THEN GoTo(r, "done") /\ UNCHANGED ready
       ELSE GoTo(r, "drain") /\ ready' = [ready EXCEPT ![r] = due[r]]
    /\ OthersUnchanged /\ UNCHANGED <<wake, batch, due, queueVars>>

Drain(r) ==
    /\ thread[r] = "drain"
    /\ batch' = [batch EXCEPT ![r] = pending]
    /\ pending' = <<>>
    /\ GoTo(r, "shots")
    /\ OthersUnchanged
    /\ UNCHANGED <<wake, ready, due, caller, caughtWake, began, queuedStopped>>

\* The for loop over the drained one-shots: the next one, unless shutdown.
\* What a break leaves in the batch is never looked at again.
ShotBegins(r) ==
    /\ thread[r] = "shots" /\ batch[r] # <<>> /\ ~shutdown[r]
    /\ began' = [began EXCEPT ![Head(batch[r])] = @ + 1]
    /\ GoTo(r, "shot")
    /\ OthersUnchanged
    /\ UNCHANGED <<wake, batch, ready, due, pending, caller, caughtWake, queuedStopped>>

\* It returns, or raises and is logged.
ShotEnds(r) ==
    /\ thread[r] = "shot"
    /\ batch' = [batch EXCEPT ![r] = Tail(@)]
    /\ GoTo(r, "shots")
    /\ OthersUnchanged /\ UNCHANGED <<wake, ready, due, queueVars>>

ShotsOver(r) ==
    /\ thread[r] = "shots" /\ (batch[r] = <<>> \/ shutdown[r])
    /\ GoTo(r, "jobs")
    /\ OthersUnchanged /\ UNCHANGED <<wake, batch, ready, due, queueVars>>

\* The next job of the pass, in registry order.
NextJob(r) == CHOOSE j \in ready[r] : \A k \in ready[r] : j <= k

JobBegins(r) ==
    /\ thread[r] = "jobs" /\ ready[r] # {} /\ ~shutdown[r]
    /\ GoTo(r, "job")
    /\ OthersUnchanged /\ UNCHANGED <<wake, batch, ready, due, queueVars>>

\* Mutant: after every job the pass is over, so a job that is always due by
\* then keeps those behind it from running.
JobEndsPass(r) ==
    /\ thread[r] = "job"
    /\ ready' = [ready EXCEPT ![r] = {}]
    /\ due' = [due EXCEPT ![r] = @ \ {NextJob(r)}]
    /\ GoTo(r, "jobs")
    /\ OthersUnchanged /\ UNCHANGED <<wake, batch, queueVars>>

\* It returns, or raises and is logged; its next due time counts from now.
JobEnds(r) ==
    /\ thread[r] = "job"
    /\ ready' = [ready EXCEPT ![r] = @ \ {NextJob(r)}]
    /\ due' = [due EXCEPT ![r] = @ \ {NextJob(r)}]
    /\ GoTo(r, "jobs")
    /\ OthersUnchanged /\ UNCHANGED <<wake, batch, queueVars>>

JobsOver(r) ==
    /\ thread[r] = "jobs" /\ (ready[r] = {} \/ shutdown[r])
    /\ GoTo(r, "clear")
    /\ OthersUnchanged /\ UNCHANGED <<wake, batch, ready, due, queueVars>>

ClearWake(r) ==
    /\ thread[r] = "clear"
    /\ wake' = [wake EXCEPT ![r] = FALSE]
    /\ GoTo(r, "recheck")
    /\ OthersUnchanged /\ UNCHANGED <<batch, ready, due, queueVars>>

Recheck(r) ==
    /\ thread[r] = "recheck"
    /\ GoTo(r, IF shutdown[r] THEN "done" ELSE "look")
    /\ OthersUnchanged /\ UNCHANGED <<wake, batch, ready, due, queueVars>>

\* Mutant: no _has_pending() between the clear and the wait.
LookAtNothing(r) ==
    /\ thread[r] = "look"
    /\ GoTo(r, "sleep")
    /\ OthersUnchanged /\ UNCHANGED <<wake, batch, ready, due, queueVars>>

LookAtPending(r) ==
    /\ thread[r] = "look"
    /\ GoTo(r, IF pending = <<>> THEN "sleep" ELSE "top")
    /\ OthersUnchanged /\ UNCHANGED <<wake, batch, ready, due, queueVars>>

\* wake.wait(delay): set, or a job has come due.
WakesUp(r) ==
    /\ thread[r] = "sleep" /\ (wake[r] \/ due[r] # {})
    /\ GoTo(r, "top")
    /\ OthersUnchanged /\ UNCHANGED <<wake, batch, ready, due, queueVars>>

ThreadStep(r) ==
    \/ PassBegins(r) \/ Drain(r) \/ ShotBegins(r) \/ ShotEnds(r) \/ ShotsOver(r)
    \/ JobBegins(r) \/ JobEnds(r) \/ JobsOver(r)
    \/ ClearWake(r) \/ Recheck(r) \/ LookAtPending(r) \/ WakesUp(r)

\* Time passes and a job comes due.
ComesDue(r, j) ==
    /\ thread[r] \notin {"unborn", "done"}
    /\ ~(thread[r] = "job" /\ j = NextJob(r))
    /\ j \notin due[r]
    /\ due' = [due EXCEPT ![r] = @ \cup {j}]
    /\ OthersUnchanged /\ UNCHANGED <<wake, thread, batch, ready, queueVars>>

-----------------------------------------------------------------------------
(***************************************************************************)
(* run_soon(), from the API request that created a device                  *)
(***************************************************************************)
Enqueue(o) ==
    /\ caller[o] = "idle" /\ RoomFor(Cardinality(Asked))
    /\ pending' = Append(pending, o)
    /\ caller' = [caller EXCEPT ![o] = "appended"]
    /\ queuedStopped' = IF running THEN queuedStopped ELSE queuedStopped \cup {o}
    /\ OthersUnchanged
    /\ UNCHANGED <<wake, thread, batch, ready, due, caughtWake, began>>

CatchWake(o) ==
    /\ caller[o] = "appended"
    /\ caughtWake' = [caughtWake EXCEPT ![o] = current]
    /\ caller' = [caller EXCEPT ![o] = "caught"]
    /\ OthersUnchanged
    /\ UNCHANGED <<wake, thread, batch, ready, due, pending, began, queuedStopped>>

SetWake(o) ==
    /\ caller[o] = "caught"
    /\ wake' = [r \in Run |-> wake[r] \/ r = caughtWake[o]]
    /\ caller' = [caller EXCEPT ![o] = "returned"]
    /\ OthersUnchanged
    /\ UNCHANGED <<thread, batch, ready, due, pending, caughtWake, began, queuedStopped>>

RunSoonStep(o) == Enqueue(o) \/ CatchWake(o) \/ SetWake(o)

SchedulerNext ==
    \/ Start \/ StopSignal \/ StopWake
    \/ \E r \in Run : ThreadStep(r) \/ \E j \in Job : ComesDue(r, j)
    \/ \E o \in OneShot : RunSoonStep(o)

SchedulerSpec == SchedulerInit /\ [][SchedulerNext]_schedulerVars

(***************************************************************************)
(* Threads run; a job or a one-shot ends (the transports and the database  *)
(* have timeouts); time passes; a begun stop() or run_soon() goes on.      *)
(* Nobody has to start, stop or queue anything.                            *)
(***************************************************************************)
SchedulerFairSpec ==
    /\ SchedulerSpec
    /\ WF_schedulerVars(StopWake)
    /\ \A r \in Run : /\ WF_schedulerVars(ThreadStep(r))
                     /\ \A j \in 1 .. MaxJobs : WF_schedulerVars(j \in Job /\ ComesDue(r, j))
    /\ \A o \in OneShot : WF_schedulerVars(CatchWake(o) \/ SetWake(o))

-----------------------------------------------------------------------------
Alive(r) == thread[r] \notin {"unborn", "done"}
Running(r, j) == thread[r] = "job" /\ j = NextJob(r)

\* However many threads a slow job has left behind, at most one of them may
\* begin anything, and it is the one stop() would signal.
OnlyTheCurrentRunGoesOn ==
    \A r \in Run : Alive(r) /\ ~shutdown[r] => running /\ r = current

\* A one-shot is run at most once, by whichever thread drained it.
BegunAtMostOnce == \A o \in OneShot : began[o] <= 1

Queued(o) == \E i \in DOMAIN pending : pending[i] = o
InBatch(o, r) == \E i \in DOMAIN batch[r] : batch[r][i] = o

\* A queued one-shot is still queued, in the hands of a thread, begun, or was
\* dropped by a thread that saw its run stopped: nothing else loses one.
LostOnlyToStop ==
    \A o \in OneShot : caller[o] # "idle" =>
        \/ began[o] > 0
        \/ Queued(o)
        \/ \E r \in Run : InBatch(o, r) /\ (Alive(r) \/ shutdown[r])

\* stop() always ends the thread, with an empty registry too.
StopEndsThread == \A r \in Run : shutdown[r] ~> ~Alive(r)

\* A queued one-shot is run, unless a stop() comes first.  The thread of a
\* stopped run must be gone: caught between its shutdown check and its drain
\* it takes the one-shots of the next run and drops them.
OneShotRuns ==
    \A o \in OneShot :
        (Queued(o) /\ running /\ ~stopping /\ \A r \in Run \ {current} : ~Alive(r))
            ~> (began[o] > 0 \/ \E r \in Run : r = current /\ shutdown[r])

\* While no stop() comes, the last job of the registry runs again and again,
\* however often the jobs ahead of it come due.
LastJobRecurs ==
    \A r \in Run : (jobs > 0 /\ Alive(r)) ~> (Running(r, jobs) \/ shutdown[r])

\* What run_soon() and __init__ say: "must still run on the next pass rather
\* than being lost" (scheduler.py:124), of one-shots queued while stopped.
QueuedWhileStoppedIsKept ==
    \A o \in queuedStopped :
        \/ began[o] > 0
        \/ Queued(o)
        \/ \E r \in Run : Alive(r) /\ InBatch(o, r)
=============================================================================
