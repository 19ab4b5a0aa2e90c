--------------------------- MODULE LicensedPoller ---------------------------
(***************************************************************************)
(* licensing/service.py driving the Poller and the Scheduler: the lease,   *)
(* the cached state and its staleness TTL, and the listeners, which are    *)
(* called in order with the state just computed.  current_state() keeps    *)
(* the RLock while a stale state is re-evaluated, listeners included;      *)
(* activate() calls re_evaluate() without it, so its listeners are called  *)
(* after the lock is gone.                                                 *)
(*                                                                         *)
(* Poller!Listener are the threads that evaluate: the event loop (the      *)
(* Limited Mode middleware), the request thread of POST /api/license, the  *)
(* job thread (feature checks).  Poller!Request are device requests: the   *)
(* middleware admits them once, and nothing asks the license again before  *)
(* their restart of the Poller.                                            *)
(***************************************************************************)
EXTENDS Poller

CONSTANTS
    Activator,      \* the listeners' threads that may call activate()
    JobThread,      \* the Scheduler's
    PromptDelivery  \* assume listeners return within the TTL

ASSUME LicenseAssumption == /\ Activator \subseteq Listener
                            /\ JobThread \in Listener
                            /\ PromptDelivery \in BOOLEAN
                            /\ Request \cap Listener = {}

VARIABLES
    licensed,   \* what an evaluation of license file and clock gives now
    state,      \* the cached state: "none", "active" or "limited"
    stale,      \* the cached state is older than the TTL
    rlock,      \* who holds the RLock while its listeners run
    duty,       \* what each evaluating thread has still to do
    news,       \* the state it delivers
    jobs,       \* the Scheduler is running
    admitted    \* device requests past the middleware, before their commit

licenseVars == <<licensed, state, stale, rlock, duty, news, jobs, admitted>>
vars == <<pollerVars, licenseVars>>

Verdict == IF licensed THEN "active" ELSE "limited"

LicenseTypeOK ==
    /\ TypeOK
    /\ licensed \in BOOLEAN /\ stale \in BOOLEAN /\ jobs \in BOOLEAN
    /\ state \in {"none", "active", "limited"}
    /\ rlock \in Listener \cup {None}
    /\ duty \in [Listener -> {"nothing", "evaluate", "poller", "scheduler"}]
    /\ news \in [Listener -> {"none", "active", "limited"}]
    /\ admitted \subseteq Request
    /\ rlock # None => duty[rlock] \in {"poller", "scheduler"}

LicensedInit ==
    /\ Init
    /\ licensed \in BOOLEAN
    /\ state = "none" /\ stale = TRUE
    /\ rlock = None
    /\ duty = [l \in Listener |-> "nothing"]
    /\ news = [l \in Listener |-> "none"]
    /\ jobs = FALSE
    /\ admitted = {}

\* The lease runs out, or the file is taken away.
Lapses == /\ licensed
          /\ licensed' = FALSE
          /\ UNCHANGED <<pollerVars, state, stale, rlock, duty, news, jobs, admitted>>

Busy(l) == duty[l] # "nothing" \/ pc[l] # "idle"

\* The TTL passes.
Ages == /\ ~stale
        /\ PromptDelivery => \A l \in Listener : ~Busy(l)
        /\ stale' = TRUE
        /\ UNCHANGED <<pollerVars, licensed, state, rlock, duty, news, jobs, admitted>>

\* The bound on runs, counting the starts still owed.
Owed == {l \in Listener : Busy(l)} \cup admitted
          \cup {c \in Request : pc[c] # "idle"}
RunOwed == run + Cardinality(Owed) < MaxRuns

\* Mutant: the listeners hear of valid states alone.
EvaluateTellingGoodNews(l, locked) ==
    /\ state' = Verdict
    /\ stale' = FALSE
    /\ news' = [news EXCEPT ![l] = Verdict]
    /\ IF state # Verdict /\ licensed
       THEN /\ duty' = [duty EXCEPT ![l] = "poller"]
            /\ rlock' = IF locked THEN l ELSE None
       ELSE /\ duty' = [duty EXCEPT ![l] = "nothing"]
            /\ UNCHANGED rlock

\* Mutant: they are told what the state was.
EvaluateTellingOldNews(l, locked) ==
    /\ state' = Verdict
    /\ stale' = FALSE
    /\ news' = [news EXCEPT ![l] = state]
    /\ IF state # Verdict
       THEN /\ duty' = [duty EXCEPT ![l] = "poller"]
            /\ rlock' = IF locked THEN l ELSE None
       ELSE /\ duty' = [duty EXCEPT ![l] = "nothing"]
            /\ UNCHANGED rlock

\* re_evaluate(): the new state is cached; if it differs the listeners are due,
\* with the lock kept (current_state) or released (activate).
Evaluate(l, locked) ==
    /\ state' = Verdict
    /\ stale' = FALSE
    /\ news' = [news EXCEPT ![l] = Verdict]
    /\ IF state # Verdict
       THEN /\ duty' = [duty EXCEPT ![l] = "poller"]
            /\ rlock' = IF locked THEN l ELSE None
       ELSE /\ duty' = [duty EXCEPT ![l] = "nothing"]
            /\ UNCHANGED rlock

\* current_state() on a stale state; on a fresh one it changes nothing.
CurrentState(l) ==
    /\ ~Busy(l) /\ rlock = None /\ stale
    /\ licensed => RunOwed
    /\ l = JobThread => jobs
    /\ Evaluate(l, TRUE)
    /\ UNCHANGED <<pollerVars, licensed, jobs, admitted>>

\* activate() with a code that verifies: the file is written, then
\* re_evaluate() is called.  A rejected code changes nothing.
Activate(l) ==
    /\ l \in Activator /\ ~Busy(l) /\ RunOwed
    /\ licensed' = TRUE
    /\ duty' = [duty EXCEPT ![l] = "evaluate"]
    /\ UNCHANGED <<pollerVars, state, stale, rlock, news, jobs, admitted>>

ReEvaluate(l) ==
    /\ duty[l] = "evaluate" /\ rlock = None
    /\ Evaluate(l, FALSE)
    /\ UNCHANGED <<pollerVars, licensed, jobs, admitted>>

\* poller.on_license_state: the call is begun here and made by Poller!CallStep.
TellPoller(l) ==
    /\ duty[l] = "poller"
    /\ pc' = [pc EXCEPT ![l] = IF news[l] = "active" THEN "only start" ELSE "only stop"]
    /\ duty' = [duty EXCEPT ![l] = "scheduler"]
    /\ UNCHANGED <<rows, running, run, guard, snapshot, rotation, shutdown, worker>>
    /\ UNCHANGED <<licensed, state, stale, rlock, news, jobs, admitted>>

\* scheduler.on_license_state, once the Poller's listener has returned; then
\* the lock goes, if it was kept.  On the job thread itself stop() joins its own
\* thread and raises after the state is set; re_evaluate() swallows that.
TellScheduler(l) ==
    /\ duty[l] = "scheduler" /\ pc[l] = "idle"
    /\ jobs' = (Enabled /\ news[l] = "active")
    /\ duty' = [duty EXCEPT ![l] = "nothing"]
    /\ rlock' = IF rlock = l THEN None ELSE rlock
    /\ UNCHANGED <<pollerVars, licensed, state, stale, news, admitted>>

\* The middleware lets a device request through on a fresh valid state; its
\* handler then checks, probes the meter and commits in its own time.
Admit(c) ==
    /\ c \notin admitted /\ pc[c] = "idle" /\ RunOwed
    /\ ~stale /\ state = "active" /\ rlock = None
    /\ admitted' = admitted \cup {c}
    /\ UNCHANGED <<pollerVars, licensed, state, stale, rlock, duty, news, jobs>>

Commits(c) ==
    /\ c \in admitted
    /\ \E d \in Device : Put(c, d) \/ TakeOut(c, d)
    /\ admitted' = admitted \ {c}
    /\ UNCHANGED <<licensed, state, stale, rlock, duty, news, jobs>>

PollerCall(c) == CallStep(c) /\ UNCHANGED licenseVars
PollerWorker(r, d) == WorkerStep(r, d) /\ UNCHANGED licenseVars

LicensedNext ==
    \/ Lapses \/ Ages
    \/ \E c \in Caller : PollerCall(c)
    \/ \E r \in Run, d \in Device : PollerWorker(r, d)
    \/ \E l \in Listener : \/ CurrentState(l) \/ Activate(l) \/ ReEvaluate(l)
                           \/ TellPoller(l) \/ TellScheduler(l)
    \/ \E c \in Request : Admit(c) \/ Commits(c)

LicensedSpec == LicensedInit /\ [][LicensedNext]_vars

\* The job thread's jobs ask for their features again and again while it runs;
\* a begun evaluation goes on; time passes.  Nobody else has to ask.
LicensedFairSpec ==
    /\ LicensedSpec
    /\ WF_vars(Ages)
    /\ \A c \in Caller : WF_vars(PollerCall(c))
    /\ \A r \in Run, d \in Device : WF_vars(PollerWorker(r, d))
    /\ WF_vars(CurrentState(JobThread))
    /\ \A l \in Listener : WF_vars(ReEvaluate(l) \/ TellPoller(l) \/ TellScheduler(l))

-----------------------------------------------------------------------------
Quiet == /\ \A l \in Listener : ~Busy(l)
         /\ \A c \in Request : pc[c] = "idle"
         /\ admitted = {}

\* Once everybody has returned, the Scheduler does what the cached state says
\* and a licensed machine polls, whoever evaluated the license, in whatever
\* order the news arrived, and with device requests restarting the Poller in
\* the middle of it: a restart never swallows a listener's start().
ListenersFollowState ==
    Quiet /\ state # "none" =>
        /\ jobs <=> Enabled /\ state = "active"
        /\ Enabled /\ state = "active" => running

\* A lapsed lease stops the Poller without a restart and without anybody
\* using the program (ADR 0001): the jobs themselves ask.
LapseStopsPolling ==
    (~licensed /\ state = "active" /\ running) ~> (licensed \/ ~running)

\* Driven by the license, the Poller still is the Poller: everything proved of
\* Poller!Spec holds here.
StillAPoller == Spec

\* poller.py:26 "The Poller only runs while the license is valid": with no call
\* in progress a machine in Limited Mode does not poll.
PollerOnlyWhileLicensed == Quiet /\ state = "limited" => ~running
=============================================================================
