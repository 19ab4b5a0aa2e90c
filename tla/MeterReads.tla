------------------------------ MODULE MeterReads ------------------------------
(***************************************************************************)
(* One visit to a meter through its driver (acquisition/drivers): connect  *)
(* with its bounded retry, the reads of that connection, disconnect.       *)
(* The meter does not wait: between two round trips of one read it logs    *)
(* rows, drops the oldest of a full ring, closes a billing period, or has  *)
(* no supply and logs nothing for an interval.  Any round trip may fail.   *)
(*                                                                         *)
(* A row of the load profile is named by the interval it ends; entry 1 is  *)
(* the oldest.  A billing period is named by its number; entry 1 is the    *)
(* newest, which is the running one on a model whose profile holds it.     *)
(* The endpoint lock is EndpointLock's: one visit at a time.  What rows    *)
(* are asked for and stored is LoadProfile's and Billing's.                *)
(***************************************************************************)
EXTENDS Naturals, FiniteSets, FiniteSetsExt

CONSTANTS
    Model,          \* driver classes, of those below
    Ring,           \* rows a full load profile holds
    MaxNow,         \* bound: intervals
    MaxDark,        \* bound: intervals without supply
    MaxCuts,        \* bound: billing periods that close
    MaxWindow       \* bound: length of a requested window

CONNECT_ASSOC_RETRY_ATTEMPTS == 3

VARIABLES
    model,      \* the driver of this meter
    now,        \* the interval that ended last
    dark,       \* history: intervals the meter did not log
    closed,     \* closed billing periods
    visit       \* the visit under way

vars == <<model, now, dark, closed, visit>>

-----------------------------------------------------------------------------
(* The meter.                                                              *)

Logged   == (1 .. now) \ dark
Held     == {t \in Logged : Cardinality({u \in Logged : u >= t}) <= Ring}
Entry(t) == Cardinality({u \in Held : u <= t})

\* The billing profile, newest first: on a SMART TCC it holds closed periods only.
HasOpenPeriod == model # "smart_tcc"
Bills         == IF HasOpenPeriod THEN 1 .. closed + 1 ELSE 1 .. closed
Position(p)   == Max(Bills) - p + 1

-----------------------------------------------------------------------------
(* The visit.                                                              *)

Task == {"probe_meter", "read_and_store_battery", "read_energy_registers", "read_special_days",
         "oldest_reading", "read_load_profile", "read_billing", "newest_closed"}

\* What a model's driver supports; only CEWE's Premier reads a battery, CEWE models
\* no energy registers and no special days, and the SMW110 has no oldest reading.
Supports(task) ==
    CASE task = "read_and_store_battery" -> model = "premier550"
      [] task \in {"read_energy_registers", "read_special_days"} ->
            model \in {"smw110", "smart_tcc"}
      [] task = "oldest_reading" -> model # "smw110"
      [] OTHER -> TRUE

\* The reads one connection may serve: a load profile walk asks for several things.
Walk == {"oldest_reading", "read_load_profile", "newest_closed"}

\* from, to: the window asked for; n, at: the entries in use and when they were read;
\* clock: the program's time when it computed with them; first, count: the entries
\* to read; asked: history, the rows of the window the meter held at the start.
\* rows, bills, start, value: what the read returned.
Idle == [task |-> "probe_meter", pc |-> "idle", tries |-> 0, from |-> 0, to |-> 0,
         n |-> 0, at |-> 0, clock |-> 0, first |-> 0, count |-> 0, asked |-> {},
         rows |-> {}, bills |-> {}, running |-> 0, start |-> 0, value |-> "none",
         scaler |-> "unread"]

TypeOK ==
    /\ model \in Model /\ now \in 0 .. MaxNow /\ dark \subseteq 1 .. now
    /\ closed \in 0 .. MaxCuts
    /\ visit.task \in Task
    /\ visit.pc \in {"idle", "connect", "ready", "entries", "clock", "rows", "done"}
    /\ visit.tries \in 0 .. CONNECT_ASSOC_RETRY_ATTEMPTS - 1
    /\ visit.rows \subseteq Logged
    /\ visit.value \in {"none", "scaled", "null", "raw"}
    /\ visit.scaler \in {"unread", "resolved", "refused"}

Init ==
    /\ model \in Model
    /\ now = 1 /\ dark = {} /\ closed = 1 /\ visit = Idle

-----------------------------------------------------------------------------
(* What happens to the meter.                                              *)

Tick ==
    /\ now < MaxNow
    /\ now' = now + 1
    /\ dark' \in {dark, dark \cup {now + 1}}
    /\ Cardinality(dark') <= MaxDark
    /\ UNCHANGED <<model, closed, visit>>

ClosePeriod ==
    /\ closed < MaxCuts
    /\ closed' = closed + 1
    /\ UNCHANGED <<model, now, dark, visit>>

Visit(v) == visit' = v /\ UNCHANGED <<model, now, dark, closed>>

-----------------------------------------------------------------------------
(* connect() and disconnect().                                             *)

Begin(task) ==
    /\ visit.pc = "idle" /\ Supports(task)
    /\ Visit([Idle EXCEPT !.pc = "connect", !.task = task])

\* _open_association: a fresh client, the media opened, the handshake answered.
Associate ==
    /\ visit.pc = "connect"
    /\ Visit([visit EXCEPT !.pc = "ready", !.tries = 0])

\* An aborted association is torn down and tried again, unless it was the last
\* attempt or shutdown ends the wait.
Aborted ==
    /\ visit.pc = "connect"
    /\ visit.tries + 1 < CONNECT_ASSOC_RETRY_ATTEMPTS
    /\ Visit([visit EXCEPT !.tries = @ + 1])

\* The last attempt aborted, shutdown, or any other failure: it is the caller's.
ConnectFails ==
    /\ visit.pc = "connect"
    /\ Visit(Idle)

disconnect ==
    /\ visit.pc \in {"ready", "done"}
    /\ visit.pc = "ready" => visit.task \in Walk
    /\ Visit(Idle)

\* A meter that does not answer makes the read raise; the caller disconnects.
ReadFails ==
    /\ visit.pc \in {"entries", "rows"} /\ visit.task \notin {"oldest_reading", "newest_closed"}
    /\ visit.task # "read_energy_registers"
    /\ Visit(Idle)

-----------------------------------------------------------------------------
(* The reads.  Start is the read's entry, with a window for the rows of a  *)
(* load profile; a walk asks again on the same connection.                 *)

Register == {"probe_meter", "read_and_store_battery", "read_energy_registers", "read_special_days"}

Fresh(task) == [Idle EXCEPT !.pc = IF task \in Register THEN "rows" ELSE "entries",
                            !.task = task, !.scaler = visit.scaler]

Start(task) ==
    /\ \/ visit.pc = "ready" /\ task = visit.task
       \/ visit.pc = "done" /\ {task, visit.task} \subseteq Walk
    /\ Supports(task)
    /\ IF task = "read_load_profile"
       THEN \E to \in 1 .. now : \E from \in Max({1, to - MaxWindow}) .. to :
                Visit([Fresh(task) EXCEPT !.from = from, !.to = to, !.asked = Held \cap (from .. to)])
       ELSE Visit(Fresh(task))

\* Attributes 3, 4 and 7: capture objects, capture period, entries in use, as far as
\* the read wants them.
ReadEntries ==
    /\ visit.pc = "entries"
    /\ LET entries == IF visit.task \in {"read_billing", "newest_closed"}
                      THEN Cardinality(Bills) ELSE Cardinality(Held)
           empty   == entries = 0 /\ visit.task \in {"oldest_reading", "read_billing", "newest_closed"}
           read    == [visit EXCEPT !.n = entries, !.at = now]
       IN Visit(CASE empty -> [read EXCEPT !.pc = "done"]
                  [] visit.task = "read_load_profile" /\ model = "smw110" -> [read EXCEPT !.pc = "clock"]
                  [] OTHER -> [read EXCEPT !.pc = "rows"])

\* _entry_window: the entries that cover the window, counted back from the newest by
\* the program's clock, two more on the older side and four more in all.
Minus(x, y) == IF x < y THEN 0 ELSE x - y

\* A margin of one row less on the older side.
_entry_windowTight(n, clock, from, to) ==
    LET wanted == to - from
        first  == Max({1, Minus(n, Minus(clock, to) + wanted + 1)})
    IN [first |-> first, count |-> Min({Minus(n + 1, first), wanted + 4})]

_entry_window(n, clock, from, to) ==
    LET wanted == to - from
        offset == Minus(clock, to)
        first  == Max({1, Minus(n, offset + wanted + 2)})
    IN [first |-> first, count |-> Min({Minus(n + 1, first), wanted + 4})]

Empty(n, window) == n = 0 \/ window.count = 0

ComputeWindow ==
    /\ visit.pc = "clock" /\ visit.task = "read_load_profile"
    /\ LET w == _entry_window(visit.n, now, visit.from, visit.to) IN
       Visit([visit EXCEPT !.clock = now, !.first = w.first, !.count = w.count,
                           !.pc = IF Empty(visit.n, w) THEN "done" ELSE "rows"])

\* A column's multiplier: its own scaler or a sibling's with the unit the column
\* needs, else NULL.  A driver with a profile remembers it, also a failure, for as
\* long as it is connected; the SMW110's asks again at every read.
Resolved ==
    IF model # "smw110" /\ visit.task = "read_load_profile" /\ visit.scaler # "unread"
    THEN {visit.scaler}
    ELSE {"resolved", "refused"}

ValueOf(scaler) == IF scaler = "resolved" THEN "scaled" ELSE "null"

\* Rows that arrive: by entry on the SMW110, by range on the others, and outside the
\* window they are dropped.
InWindow == visit.from .. visit.to
EntriesAsked == {t \in Held : Entry(t) \in visit.first .. visit.first + visit.count - 1}

RowsArrived == IF model = "smw110" THEN EntriesAsked \cap InWindow ELSE Held \cap InWindow

\* A Prometer refuses a range that holds no rows: ReadFails.
read_load_profile ==
    /\ visit.pc = "rows" /\ visit.task = "read_load_profile"
    /\ ~(model = "prometer100" /\ RowsArrived = {})
    /\ \E scaler \in Resolved :
        Visit([visit EXCEPT !.pc = "done", !.rows = RowsArrived, !.scaler = scaler,
                            !.value = ValueOf(scaler)])

\* Entry 1 of the load profile.  A Prometer refuses entry access: the start is then
\* estimated from the entries in use, one interval early; an unreadable one is None.
_estimate_oldest_reading(n, clock) == Minus(clock, n + 1)

load_profile_oldest_reading ==
    /\ visit.pc = "rows" /\ visit.task = "oldest_reading"
    /\ Held # {}
    /\ Visit([visit EXCEPT !.pc = "done", !.clock = now,
                !.start = IF model = "prometer100" THEN _estimate_oldest_reading(visit.n, now)
                                                   ELSE Min(Held)])

NoAnswer ==
    /\ visit.pc \in {"entries", "rows"} /\ visit.task \in {"oldest_reading", "newest_closed"}
    /\ Visit([visit EXCEPT !.pc = "done"])

-----------------------------------------------------------------------------
(* Billing.  mute: rows whose reset reason is not a usable number; skipped:*)
(* rows of another width or without a bill date.                           *)

\* _classify_open, for entry p of what arrived: by position on the SMW110 and where
\* the reset-reason column is missing, else by that cell; never on a SMART TCC.
_classify_open(p, byReason, mute) ==
    /\ model # "smart_tcc"
    /\ IF byReason THEN p = closed + 1 /\ p \notin mute ELSE Position(p) = 1

\* What arrives of the newest entries, classified.
Arrived(count, byReason, mute, skipped) ==
    {[period |-> p, is_open |-> _classify_open(p, byReason, mute)] :
        p \in {q \in Bills \ skipped : Position(q) <= count}}

ByReason == IF model \in {"prometer100", "premier550"} THEN BOOLEAN ELSE {FALSE}

read_billing ==
    /\ visit.pc = "rows" /\ visit.task = "read_billing"
    /\ \E byReason \in ByReason, mute, skipped \in SUBSET Bills, scaler \in {"resolved", "refused"} :
        Visit([visit EXCEPT !.pc = "done", !.bills = Arrived(visit.n, byReason, mute, skipped),
                            !.running = IF byReason /\ closed + 1 \in mute THEN 0 ELSE closed + 1,
                            !.value = ValueOf(scaler)])

\* The newest two entries, and of them the newest that is closed.
billing_newest_closed_bill_date ==
    /\ visit.pc = "rows" /\ visit.task = "newest_closed"
    /\ \E byReason \in ByReason, mute, skipped \in SUBSET Bills :
        LET old == {b.period : b \in {c \in Arrived(2, byReason, mute, skipped) : ~c.is_open}} IN
        Visit([visit EXCEPT !.pc = "done", !.start = Max({0} \cup old),
                            !.running = IF byReason /\ closed + 1 \in mute THEN 0 ELSE closed + 1])

-----------------------------------------------------------------------------
(* Single registers: probe, battery, special days, energy registers.       *)

read_register ==
    /\ visit.pc = "rows"
    /\ visit.task \in Register \ {"read_energy_registers"}
    /\ Visit([visit EXCEPT !.pc = "done"])

\* Each of the energy registers: its scaler, then its value.  Where the scaler read
\* fails the value is taken as it is; where the value fails there is none.
read_energy_registers ==
    /\ visit.pc = "rows" /\ visit.task = "read_energy_registers"
    /\ \E scalerRead, valueRead \in BOOLEAN :
        Visit([visit EXCEPT !.pc = "done",
                    !.value = CASE ~valueRead -> "null"
                                [] scalerRead -> "scaled"
                                [] OTHER      -> "raw"])

-----------------------------------------------------------------------------
Meter  == Tick \/ ClosePeriod
Driver ==
    \/ \E task \in Task : Begin(task) \/ Start(task)
    \/ Associate \/ Aborted \/ ConnectFails \/ disconnect \/ ReadFails
    \/ ReadEntries \/ ComputeWindow
    \/ read_load_profile \/ load_profile_oldest_reading \/ NoAnswer
    \/ read_billing \/ billing_newest_closed_bill_date
    \/ read_register \/ read_energy_registers

Next == Meter \/ Driver

Spec == Init /\ [][Next]_vars

-----------------------------------------------------------------------------
(* Properties.                                                             *)

\* Intervals by which the program's count of the rows after the window is too high:
\* rows that came after the entries were counted, and intervals nothing was logged in.
Overstated == Cardinality(dark \cap (visit.to + 1 .. visit.clock)) + (visit.clock - visit.at)

\* _entry_window's margins (smw110.py:149): a row of the window that the meter held
\* when the read began, and holds still, is returned, as long as the count is off by
\* one interval at most and no more than two rows came while the read went on.  A row
\* left out would never be asked for again: the watermark moves past it.
NothingHeldIsMissed ==
    visit.pc = "done" /\ visit.task = "read_load_profile"
    /\ (model = "smw110" => Overstated <= 1 /\ now - visit.at <= 2)
        => visit.asked \cap Held \subseteq visit.rows

\* The estimated start of a backfill (_dlms_profile.py:753) is no later than the
\* oldest row, as long as the meter logged, but for two intervals at most, from then
\* to the estimate.
StartIsNotLate ==
    visit.pc = "done" /\ visit.task = "oldest_reading" /\ visit.n > 0
    /\ Cardinality(dark \cap (Min(Held) .. visit.clock)) + (visit.clock - visit.at) <= 2
        => visit.start <= Min(Held)

\* Of what a billing read returns only the period that runs is open, whichever way it
\* was told (D9): a closed period stored as open would be overwritten, and two would
\* fail the whole read.  The Billing Change Check never names the running period,
\* unless its reset reason could not be read.
OnlyTheRunningPeriodIsOpen ==
    visit.pc = "done" =>
        /\ visit.task = "read_billing" =>
              \A b \in visit.bills : b.is_open => b.period = visit.running
        /\ visit.task = "newest_closed" /\ visit.running # 0 => visit.start < visit.running

\* What base.py:782-784 says: the snapshot is normalized, and an address that refuses
\* leaves its field None.
EnergyIsNormalized ==
    visit.pc = "done" /\ visit.task = "read_energy_registers" => visit.value # "raw"
================================================================================
