------------------------------- MODULE Poller -------------------------------
(***************************************************************************)
(* acquisition/poller.py with its callers: the device requests that change *)
(* the rotation (api/devices.py) and whoever starts or stops it with the   *)
(* license.  A run is one start() to one stop(): one shutdown event, one   *)
(* worker thread per device of the snapshot start() took.  Workers of a    *)
(* stopped run may outlive the join, finishing their read.                 *)
(*                                                                         *)
(* start() reads the database and then spawns, both under _guard, so a     *)
(* request may commit in between; stop() is one step under _guard (its     *)
(* joins come after and change nothing).  restart() is stop() and then     *)
(* start(), with anything in between.                                      *)
(***************************************************************************)
EXTENDS Naturals, FiniteSets

CONSTANTS
    Device,    \* device rows
    Request,   \* requests that change the rotation and restart the Poller
    Listener,  \* threads that call start() or stop() alone
    MaxRuns,   \* bound: how often the Poller is started
    Enabled,   \* the master switch ARICHDS_POLL_ENABLED
    None

Caller == Request \cup Listener
Run == 1 .. MaxRuns

ASSUME PollerAssumption == /\ MaxRuns \in Nat
                           /\ Enabled \in BOOLEAN
                           /\ None \notin Caller
                           /\ IsFiniteSet(Caller)

VARIABLES
    rows,       \* database: the devices that are enabled and drivable
    running,    \* self._running
    run,        \* the run self._shutdown belongs to; 0: none yet
    guard,      \* who is inside start() with its snapshot, holding _guard
    snapshot,   \* the devices that caller read
    rotation,   \* the devices each run was started with
    shutdown,   \* the shutdown event of each run
    worker,     \* the worker of each run and device
    pc          \* where each caller is

pollerVars == <<rows, running, run, guard, snapshot, rotation, shutdown, worker, pc>>

WorkerState == {"none", "top", "polling", "recording", "waiting", "done"}

\* "stop", "start": the two halves of restart(); "only stop", "only start":
\* a listener's call; "launch": inside start() with the snapshot.
CallerState == {"idle", "stop", "start", "only stop", "only start", "launch"}

TypeOK ==
    /\ rows \subseteq Device
    /\ running \in BOOLEAN
    /\ run \in 0 .. MaxRuns
    /\ guard \in Caller \cup {None}
    /\ snapshot \subseteq Device
    /\ rotation \in [Run -> SUBSET Device]
    /\ shutdown \in [Run -> BOOLEAN]
    /\ worker \in [Run -> [Device -> WorkerState]]
    /\ pc \in [Caller -> CallerState]
    /\ running => run \in Run
    /\ \A c \in Caller : pc[c] = "launch" <=> guard = c

Init ==
    /\ rows \in SUBSET Device
    /\ running = FALSE
    /\ run = 0
    /\ guard = None
    /\ snapshot = {}
    /\ rotation = [r \in Run |-> {}]
    /\ shutdown = [r \in Run |-> FALSE]
    /\ worker = [r \in Run |-> [d \in Device |-> "none"]]
    /\ pc = [c \in Caller |-> "idle"]

\* The bound on runs: a call that will start the Poller begins only while a
\* run is left for it.
MayStart == {c \in Caller : pc[c] \in {"stop", "start", "only start", "launch"}}
RunLeft == run + Cardinality(MayStart) < MaxRuns

-----------------------------------------------------------------------------
(***************************************************************************)
(* Requests: create, resume (or enable) put a device in; pause, delete     *)
(* take it out; update leaves it in with new settings.  All commit first   *)
(* and restart afterwards.  A pause or resume that changes nothing does    *)
(* neither, so it is no step.                                              *)
(***************************************************************************)
Put(c, d) ==
    /\ pc[c] = "idle" /\ RunLeft /\ c \in Request
    /\ rows' = rows \cup {d}
    /\ pc' = [pc EXCEPT ![c] = "stop"]
    /\ UNCHANGED <<running, run, guard, snapshot, rotation, shutdown, worker>>

TakeOut(c, d) ==
    /\ pc[c] = "idle" /\ RunLeft /\ c \in Request
    /\ d \in rows
    /\ rows' = rows \ {d}
    /\ pc' = [pc EXCEPT ![c] = "stop"]
    /\ UNCHANGED <<running, run, guard, snapshot, rotation, shutdown, worker>>

CallStart(c) ==
    /\ pc[c] = "idle" /\ RunLeft /\ c \in Listener
    /\ pc' = [pc EXCEPT ![c] = "only start"]
    /\ UNCHANGED <<rows, running, run, guard, snapshot, rotation, shutdown, worker>>

CallStop(c) ==
    /\ pc[c] = "idle" /\ c \in Listener
    /\ pc' = [pc EXCEPT ![c] = "only stop"]
    /\ UNCHANGED <<rows, running, run, guard, snapshot, rotation, shutdown, worker>>

\* stop(): a no-op unless running.
Stop(c) ==
    /\ pc[c] \in {"stop", "only stop"} /\ guard = None
    /\ shutdown' = [r \in Run |-> shutdown[r] \/ (running /\ r = run)]
    /\ running' = FALSE
    /\ pc' = [pc EXCEPT ![c] = IF pc[c] = "stop" THEN "start" ELSE "idle"]
    /\ UNCHANGED <<rows, run, guard, snapshot, rotation, worker>>

\* start(): a no-op if running or switched off; else _enabled_devices(), which
\* also marks enabled rows it cannot drive (see DeviceStatus) and leaves them
\* out.
Snapshot(c) ==
    /\ pc[c] \in {"start", "only start"} /\ guard = None
    /\ IF running \/ ~Enabled
       THEN /\ pc' = [pc EXCEPT ![c] = "idle"]
            /\ UNCHANGED <<guard, snapshot>>
       ELSE /\ snapshot' = rows
            /\ guard' = c
            /\ pc' = [pc EXCEPT ![c] = "launch"]
    /\ UNCHANGED <<rows, running, run, rotation, shutdown, worker>>

\* Mutant: the shutdown event is cleared and reused.
LaunchReusingEvent(c) ==
    /\ pc[c] = "launch" /\ run < MaxRuns
    /\ run' = run + 1
    /\ running' = TRUE
    /\ rotation' = [rotation EXCEPT ![run'] = snapshot]
    /\ shutdown' = [r \in Run |-> FALSE]
    /\ worker' = [worker EXCEPT ![run'] =
                     [d \in Device |-> IF d \in snapshot THEN "top" ELSE "none"]]
    /\ guard' = None
    /\ pc' = [pc EXCEPT ![c] = "idle"]
    /\ UNCHANGED <<rows, snapshot>>

\* The rest of start(): a fresh event and one worker per device read.
Launch(c) ==
    /\ pc[c] = "launch" /\ run < MaxRuns
    /\ run' = run + 1
    /\ running' = TRUE
    /\ rotation' = [rotation EXCEPT ![run'] = snapshot]
    /\ worker' = [worker EXCEPT ![run'] =
                     [d \in Device |-> IF d \in snapshot THEN "top" ELSE "none"]]
    /\ guard' = None
    /\ pc' = [pc EXCEPT ![c] = "idle"]
    /\ UNCHANGED <<rows, snapshot, shutdown>>

-----------------------------------------------------------------------------
(***************************************************************************)
(* _worker()                                                               *)
(***************************************************************************)
WorkerTo(r, d, state) ==
    /\ worker' = [worker EXCEPT ![r][d] = state]
    /\ UNCHANGED <<rows, running, run, guard, snapshot, rotation, shutdown, pc>>

Exits(r, d) ==
    worker[r][d] \in {"top", "waiting"} /\ shutdown[r] /\ WorkerTo(r, d, "done")

\* poll_once(): a fresh driver, the endpoint's background lock, one register.
PollBegins(r, d) ==
    worker[r][d] = "top" /\ ~shutdown[r] /\ WorkerTo(r, d, "polling")

\* OK or FAILED goes on to the status recorders; SKIPPED records nothing.
PollEnds(r, d) ==
    worker[r][d] = "polling" /\ (WorkerTo(r, d, "recording") \/ WorkerTo(r, d, "waiting"))

\* Mutant: an exception of the recorders ends the worker.
RecordedOrDies(r, d) ==
    worker[r][d] = "recording" /\ (WorkerTo(r, d, "waiting") \/ WorkerTo(r, d, "done"))

Recorded(r, d) == worker[r][d] = "recording" /\ WorkerTo(r, d, "waiting")

IntervalOver(r, d) == worker[r][d] = "waiting" /\ ~shutdown[r] /\ WorkerTo(r, d, "top")

WorkerStep(r, d) == \/ Exits(r, d) \/ PollBegins(r, d) \/ PollEnds(r, d)
                    \/ Recorded(r, d) \/ IntervalOver(r, d)

CallStep(c) == Stop(c) \/ Snapshot(c) \/ Launch(c)

Next ==
    \/ \E c \in Caller : CallStart(c) \/ CallStop(c) \/ CallStep(c)
    \/ \E c \in Caller, d \in Device : Put(c, d) \/ TakeOut(c, d)
    \/ \E r \in Run, d \in Device : WorkerStep(r, d)

Spec == Init /\ [][Next]_pollerVars

\* A begun call goes on, a thread runs, a read ends, an interval passes;
\* nobody has to call.
FairSpec ==
    /\ Spec
    /\ \A c \in Caller : WF_pollerVars(CallStep(c))
    /\ \A r \in Run, d \in Device : WF_pollerVars(WorkerStep(r, d))

-----------------------------------------------------------------------------
\* Someone has changed the rotation and has still to stop the Poller for it.
StopPending == \E c \in Request : pc[c] = "stop"

\* The running Poller reads exactly the devices the database says are in the
\* rotation, or a request is on its way to restart it: however requests,
\* license listeners and slow start() calls interleave, no change is lost.
RotationFollowsRows ==
    /\ running => rotation[run] = rows \/ StopPending
    /\ guard # None => snapshot = rows \/ StopPending

\* Of all the workers of one device, lingering ones included, at most one
\* goes on polling (poller.py:341).
OneWorkerGoesOn ==
    \A d \in Device, r, s \in Run :
        /\ worker[r][d] \notin {"none", "done"} /\ ~shutdown[r]
        /\ worker[s][d] \notin {"none", "done"} /\ ~shutdown[s]
        => r = s

\* A device taken out of the rotation is not polled afresh once the request
\* that took it out has stopped the Poller, nor while it stands stopped.
TakenOutIsLeftAlone ==
    [][\A r \in Run, d \in Device :
          worker[r][d] # "polling" /\ worker'[r][d] = "polling"
              => running /\ r = run /\ (d \in rows \/ StopPending)]_pollerVars

\* Every device of the rotation is polled again and again until a stop.
RotationIsPolled ==
    \A r \in Run, d \in Device :
        (running /\ run = r /\ d \in rotation[r]) ~> (worker[r][d] = "polling" \/ shutdown[r])

\* Every request gets through its restart: nobody waits on _guard for ever.
RestartsEnd == \A c \in Caller : pc[c] # "idle" ~> pc[c] = "idle"
=============================================================================
