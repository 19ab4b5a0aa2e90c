---------------------------------- MODULE Site ----------------------------------
(***************************************************************************)
(* What is administered on one machine beside its meters' readings: the    *)
(* rows of its devices (Devices), the calendar (Holidays), the Energy      *)
(* Summary made of readings and calendar (EnergySummary), the accounts     *)
(* (Accounts) and the backups (Backup).  The request threads are the       *)
(* same, each with one request at a time, and the tables are apart: a      *)
(* behaviour of the composition is one of the machine on which `part` is   *)
(* worked at.  EnergySummary has the calendar as the set of days that      *)
(* Holidays!IsHoliday answers TRUE for.                                    *)
(***************************************************************************)
EXTENDS Integers

CONSTANTS
    Thread, None, NoDay,
    MaxDevices, Line, Password, Serial, max_meters, require_meter_activation, MaxWirings,
    MaxHolidays, MaxDay, LeapDay, MeterDays,
    MaxUsers, Name,
    keep, MaxClock, MaxMishaps,
    RETENTION_DAYS, MaxHalf, MaxEdits

VARIABLES
    part,
    rows, wired, secret, device_work, proven, mixed, wirings,
    holidays, holiday_work, accounted, crossed,
    half, readings, calendar, table, file, saves, energy_job, revised, most, edits,
    users, user_work, deposed,
    clock, files, temp, backup_job, latest, turned, mishaps

D == INSTANCE Devices WITH Request <- Thread, MaxId <- MaxDevices, work <- device_work
H == INSTANCE Holidays WITH Admin <- Thread, MaxId <- MaxHolidays, work <- holiday_work
E == INSTANCE EnergySummary WITH job <- energy_job
A == INSTANCE Accounts WITH MaxId <- MaxUsers, work <- user_work
B == INSTANCE Backup WITH job <- backup_job

\* The meters are apart, no date is the absence of one, and no row that of one; a backup
\* at least survives.
ASSUME SiteAssumption ==
    /\ {MaxDevices, MaxHolidays, MaxUsers, MaxMishaps, RETENTION_DAYS, MaxHalf} \subseteq Nat
    /\ {keep, MaxClock} \subseteq Nat \ {0}
    /\ Password # {} /\ D!Injection(Line, Serial) # {}
    /\ NoDay \notin H!Day /\ None \notin H!Row

device_vars  == <<rows, wired, secret, device_work, proven, mixed, wirings>>
holiday_vars == <<holidays, holiday_work, accounted, crossed>>
energy_vars  == <<half, readings, calendar, table, file, saves, energy_job, revised, most,
                  edits>>
user_vars    == <<users, user_work, deposed>>
backup_vars  == <<clock, files, temp, backup_job, latest, turned, mishaps>>
vars == <<part, device_vars, holiday_vars, energy_vars, user_vars, backup_vars>>

\* What is not worked at is as on a fresh machine.
Init ==
    /\ part \in {"devices", "holidays", "energy", "accounts", "backup"}
    /\ D!Init /\ H!Init /\ E!Init /\ A!Init /\ B!Init
    /\ part # "devices" => D!Used = {}

Devices  == /\ part = "devices" /\ D!Next
            /\ UNCHANGED <<part, holiday_vars, energy_vars, user_vars, backup_vars>>
Calendar == /\ part = "holidays" /\ H!Next
            /\ UNCHANGED <<part, device_vars, energy_vars, user_vars, backup_vars>>
Energy   == /\ part = "energy" /\ E!Next
            /\ UNCHANGED <<part, device_vars, holiday_vars, user_vars, backup_vars>>
Accounts == /\ part = "accounts" /\ A!Next
            /\ UNCHANGED <<part, device_vars, holiday_vars, energy_vars, backup_vars>>
Backups  == /\ part = "backup" /\ B!Next
            /\ UNCHANGED <<part, device_vars, holiday_vars, energy_vars, user_vars>>

Next == Devices \/ Calendar \/ Energy \/ Accounts \/ Backups

Spec == Init /\ [][Next]_vars

\* A pass of the Scheduler every fifteen minutes.
Passes == /\ part = "energy" /\ E!Work
          /\ UNCHANGED <<part, device_vars, holiday_vars, user_vars, backup_vars>>

FairSpec == Spec /\ WF_vars(Passes)

-----------------------------------------------------------------------------
(* A row keeps its meter: no edit writes a serial over another, whatever   *)
(* was rewired, edited or deleted while the meter was asked.               *)
RowKeepsItsMeter == D!RowKeepsItsMeter

(* A row's line and password were answered to by the meter it names, but   *)
(* for an edit that lands on a row changed since it was loaded.            *)
RowIsProvenUntilMixed == D!RowIsProvenUntilMixed

(* The record of changes accounts for exactly the Holidays there are, but  *)
(* for commits that met a row other than the one they had loaded.          *)
CalendarIsAccountedFor == H!CalendarIsAccountedFor

(* Every hour falls into the Time-of-Use bucket a clock on the wall gives  *)
(* it, although compared in UTC on a day that is shifted.                  *)
SplitFollowsWallClock == part = "holidays" => H!SplitFollowsWallClock

(* Retention never leaves a day of the Energy Summary with part of its     *)
(* readings.                                                               *)
StoredDayIsWhole == E!StoredDayIsWhole

(* The Energy Summary and its file come to agree with the readings and the *)
(* calendar as they are.                                                   *)
EnergyCatchesUp == part = "energy" => E!EnergyCatchesUp

(* Once Setup is done an administrator remains, but for requests committed *)
(* for one who no longer is one.                                           *)
AnAdminRemains == A!AnAdminRemains

(* The backup last reported as written is among the whole ones kept, but   *)
(* for a clock set back.                                                   *)
LastBackupIsKept == B!LastBackupIsKept
=============================================================================
