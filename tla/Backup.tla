-------------------------------- MODULE Backup --------------------------------
(***************************************************************************)
(* The database backup (db/backup.py), a job of the Scheduler: VACUUM INTO *)
(* a temporary name, rename, keep the newest `keep` by the time in their   *)
(* names.  The process may die between any two steps, the disk may be full *)
(* and a viewer may hold a file that should go.                            *)
(***************************************************************************)
EXTENDS Naturals, FiniteSets

CONSTANTS
    keep,           \* how many files survive
    MaxClock,       \* bound: the clock
    MaxMishaps      \* bound: failures, deaths of the process, clocks set back

Stamp == 1 .. MaxClock

VARIABLES
    clock,      \* the second a backup is named by
    files,      \* arichds-*.db in the folder: [stamp, whole]
    temp,       \* what is under the temporary name
    job,        \* where the job is, and the name it chose when it began
    latest,     \* history: the backup last reported as written
    turned,     \* history: the clock was set back
    mishaps

vars == <<clock, files, temp, job, latest, turned, mishaps>>

Rest == [pc |-> "rest", stamp |-> 0, stale |-> {}]
File == [stamp : Stamp, whole : BOOLEAN]

TypeOK ==
    /\ clock \in Stamp /\ files \subseteq File
    /\ temp \in {"none", "part", "whole"}
    /\ job \in [pc : {"rest", "vacuum", "replace", "rotate"}, stamp : Stamp \cup {0},
                stale : SUBSET Stamp]
    /\ latest \in Stamp \cup {0} /\ turned \in BOOLEAN /\ mishaps \in 0 .. MaxMishaps

Init ==
    /\ clock = 1 /\ files = {} /\ temp = "none" /\ job = Rest
    /\ latest = 0 /\ turned = FALSE /\ mishaps = 0

Happens == mishaps < MaxMishaps /\ mishaps' = mishaps + 1

\* The name is settled and what a dead process left under the temporary one removed.
database_backup ==
    /\ job.pc = "rest"
    /\ job' = [Rest EXCEPT !.pc = "vacuum", !.stamp = clock]
    /\ temp' = "none"
    /\ UNCHANGED <<clock, files, latest, turned, mishaps>>

_vacuum_into ==
    /\ job.pc = "vacuum"
    /\ IF temp = "none" THEN temp' = "part" /\ UNCHANGED job
       ELSE temp' = "whole" /\ job' = [job EXCEPT !.pc = "replace"]
    /\ UNCHANGED <<clock, files, latest, turned, mishaps>>

\* A full disk: the part does not survive.
WriteFails ==
    /\ job.pc \in {"vacuum", "replace"} /\ Happens
    /\ temp' = "none" /\ job' = Rest
    /\ UNCHANGED <<clock, files, latest, turned>>

Newer(f, stamps) == {s \in stamps : s > f}

\* Mutant: the names sorted the other way.
StaleOldest(stamps) == {s \in stamps : Cardinality({o \in stamps : o < s}) >= keep}

\* What the rotation walks: all but the `keep` newest names.
Stale(stamps) == {s \in stamps : Cardinality(Newer(s, stamps)) >= keep}

Stamps(fs) == {f.stamp : f \in fs}

\* One atomic rename, over a backup of the same second.
Replace ==
    LET to == {f \in files : f.stamp # job.stamp}
                \cup {[stamp |-> job.stamp, whole |-> temp = "whole"]} IN
    /\ job.pc = "replace"
    /\ files' = to /\ temp' = "none" /\ latest' = job.stamp
    /\ job' = [job EXCEPT !.pc = "rotate", !.stale = Stale(Stamps(to))]
    /\ UNCHANGED <<clock, turned, mishaps>>

\* One stale file after another, past one that will not go.
_rotate ==
    /\ job.pc = "rotate"
    /\ \/ /\ job.stale = {} /\ job' = Rest
          /\ UNCHANGED <<files, mishaps>>
       \/ \E s \in job.stale :
            /\ Newer(s, job.stale) = {}
            /\ job' = [job EXCEPT !.stale = @ \ {s}]
            /\ \/ files' = {f \in files : f.stamp # s} /\ UNCHANGED mishaps
               \/ Happens /\ UNCHANGED files
    /\ UNCHANGED <<clock, temp, latest, turned>>

\* The process dies, and begins with a backup when it is back.
Crash ==
    /\ job.pc # "rest" /\ Happens /\ job' = Rest
    /\ UNCHANGED <<clock, files, temp, latest, turned>>

Tick == /\ clock < MaxClock /\ clock' = clock + 1
        /\ UNCHANGED <<files, temp, job, latest, turned, mishaps>>

ClockIsSetBack ==
    /\ Happens /\ clock' \in 1 .. clock - 1 /\ turned' = TRUE
    /\ UNCHANGED <<files, temp, job, latest>>

Next == \/ database_backup \/ _vacuum_into \/ WriteFails \/ Replace \/ _rotate \/ Crash
        \/ Tick \/ ClockIsSetBack

Spec == Init /\ [][Next]_vars

-----------------------------------------------------------------------------
(* A file under the name of a backup is one, wherever the process died,    *)
(* and the backup last reported as written is among them, although only    *)
(* `keep` are: unless the clock was set back, when the newest backup has   *)
(* the oldest name and goes at once.                                       *)
LastBackupIsKept ==
    /\ \A f \in files : f.whole
    /\ latest # 0 /\ ~turned => latest \in Stamps(files)
=============================================================================
