-------------------------------- MODULE Holidays --------------------------------
(***************************************************************************)
(* The calendar (api/holidays.py): one row per Holiday, annual (a month    *)
(* and a day) or public (a date), edited by administrators in threads of   *)
(* their own, each change with a line in the record of changes in the same *)
(* transaction; and the Time-of-Use split of an interval that reads the    *)
(* calendar (db/energy_query.py).                                          *)
(*                                                                         *)
(* A handler loads the row, looks for a collision and commits; an UPDATE   *)
(* names only the columns that changed, a DELETE goes by id and does not   *)
(* mind a row that is gone.  An import replaces the whole set, and its     *)
(* rows get the ids of those before.                                       *)
(*                                                                         *)
(* Days are the days of one year, day 1 a Friday; an annual Holiday is    *)
(* its day, a public one its date.  Names are left out.                    *)
(***************************************************************************)
EXTENDS Integers, FiniteSets, FiniteSetsExt

CONSTANTS
    Admin,          \* request threads
    MaxId,          \* bound: rows at once, deletes recorded in excess
    MaxDay,         \* bound: days that may be Holidays
    LeapDay,        \* 29 February: no annual Holiday
    MeterDays,      \* the Special Days Table of the meter that can be imported
    NoDay, None

Id  == 1 .. MaxId
Day == 1 .. MaxDay

\* _validate_holiday_shape: one of the two columns, by kind.
Annual  == {[kind |-> "annual", date |-> NoDay, day |-> d] : d \in Day \ {LeapDay}}
Public  == {[kind |-> "public", date |-> d, day |-> NoDay] : d \in Day}
Holiday == Annual \cup Public
Row     == [kind : {"annual", "public"}, date : Day \cup {NoDay}, day : Day \cup {NoDay}]

VARIABLES
    holidays,   \* by id
    work,       \* what each request is doing
    accounted,  \* how many Holidays the record of changes accounts for
    crossed     \* history: a commit met a row other than the one it had loaded

vars == <<holidays, work, accounted, crossed>>

Idle == [pc |-> "idle", id |-> 0, loaded |-> None, body |-> None, set |-> {}]

TypeOK ==
    /\ holidays \in [Id -> Row \cup {None}]
    /\ work \in [Admin -> [pc : {"idle", "add", "edit", "delete", "import"}, id : 0 .. MaxId,
                           loaded : Row \cup {None}, body : Holiday \cup {None},
                           set : SUBSET Holiday]]
    /\ accounted \in -MaxId .. MaxId /\ crossed \in BOOLEAN

Init ==
    /\ holidays = [i \in Id |-> None]
    /\ work = [a \in Admin |-> Idle]
    /\ accounted = 0 /\ crossed = FALSE

Stored == {i \in Id : holidays[i] # None}
NextId == IF Stored = {} THEN 1 ELSE Max(Stored) + 1

\* The unique key of a kind: the partial indexes ask the same of a row to be stored.
SameKey(r, s) == /\ r.kind = s.kind
                 /\ IF r.kind = "public" THEN r.date = s.date ELSE r.day = s.day

_find_colliding_holiday(row, but) == \E i \in Stored \ {but} : SameKey(holidays[i], row)

Goes(a, w) == work' = [work EXCEPT ![a] = w]

create_holiday(a, body) ==
    /\ work[a].pc = "idle"
    /\ Goes(a, IF _find_colliding_holiday(body, 0) THEN Idle
                 ELSE [Idle EXCEPT !.pc = "add", !.body = body])
    /\ UNCHANGED <<holidays, accounted, crossed>>

update_holiday(a, id, body) ==
    /\ work[a].pc = "idle" /\ id \in Stored
    /\ Goes(a, IF _find_colliding_holiday(body, id) THEN Idle
                 ELSE [Idle EXCEPT !.pc = "edit", !.id = id, !.loaded = holidays[id], !.body = body])
    /\ UNCHANGED <<holidays, accounted, crossed>>

delete_holiday(a, id) ==
    /\ work[a].pc = "idle" /\ id \in Stored
    /\ Goes(a, [Idle EXCEPT !.pc = "delete", !.id = id, !.loaded = holidays[id]])
    /\ UNCHANGED <<holidays, accounted, crossed>>

\* A document with two entries on one key is refused whole; the meter's table loses
\* the second one and is refused whole for a leap day.
import_holidays(a, set) ==
    /\ work[a].pc = "idle"
    /\ \A r, s \in set : SameKey(r, s) => r = s
    /\ Goes(a, [Idle EXCEPT !.pc = "import", !.set = set])
    /\ UNCHANGED <<holidays, accounted, crossed>>

import_holidays_from_meter(a) ==
    /\ LeapDay \notin MeterDays
    /\ import_holidays(a, {h \in Annual : h.day \in MeterDays})

\* Mutant: the line of the record in a transaction
\* of its own, kept when the insert is refused.
CommitAddInTwo(a) ==
    LET body == work[a].body IN
    /\ work[a].pc = "add" /\ NextId \in Id
    /\ holidays' = IF _find_colliding_holiday(body, 0) THEN holidays
                     ELSE [holidays EXCEPT ![NextId] = body]
    /\ accounted' = accounted + 1
    /\ Goes(a, Idle) /\ UNCHANGED crossed

CommitAdd(a) ==
    LET body == work[a].body IN
    /\ work[a].pc = "add" /\ NextId \in Id
    /\ IF _find_colliding_holiday(body, 0)
         THEN UNCHANGED <<holidays, accounted>>
         ELSE /\ holidays' = [holidays EXCEPT ![NextId] = body]
              /\ accounted' = accounted + 1
    /\ Goes(a, Idle) /\ UNCHANGED crossed

\* The UPDATE of the columns that differ; with none it is not sent, and the record
\* has its line all the same.  No row for it, or one on its key: rolled back.
CommitEdit(a) ==
    LET w       == work[a]
        written == {c \in DOMAIN w.body : w.body[c] # w.loaded[c]}
        row     == [c \in DOMAIN w.body |->
                      IF c \in written THEN w.body[c] ELSE holidays[w.id][c]]
        lands   == w.id \in Stored /\ ~_find_colliding_holiday(row, w.id)
    IN /\ w.pc = "edit"
       /\ IF written # {} /\ lands
            THEN /\ holidays' = [holidays EXCEPT ![w.id] = row]
                 /\ crossed' = (crossed \/ holidays[w.id] # w.loaded)
            ELSE UNCHANGED <<holidays, crossed>>
       /\ Goes(a, Idle) /\ UNCHANGED accounted

CommitDelete(a) ==
    LET w == work[a] IN
    /\ w.pc = "delete" /\ accounted > -MaxId
    /\ holidays' = [holidays EXCEPT ![w.id] = None]
    /\ accounted' = accounted - 1
    /\ crossed' = (crossed \/ holidays[w.id] # w.loaded)
    /\ Goes(a, Idle)

\* The whole set in one transaction, one line for all of it.
Numbered(set) == {f \in [Id -> set \cup {None}] :
                    /\ \A h \in set : \E i \in Id : f[i] = h
                    /\ \A i \in Id : f[i] # None <=> i <= Cardinality(set)}

CommitImport(a) ==
    /\ work[a].pc = "import"
    /\ holidays' \in Numbered(work[a].set)
    /\ accounted' = Cardinality(work[a].set)
    /\ Goes(a, Idle) /\ UNCHANGED crossed

\* The split of an interval, by its hour in UTC, with the constants of the code.
METER_LOCAL_UTC_OFFSET_HOURS == 7
TOU_PEAK_START_UTC == 2
TOU_PEAK_END_UTC   == 15

\* date(read_at, '+7 hours'), and the day of the week of that.
LocalDay(hour) == (hour + METER_LOCAL_UTC_OFFSET_HOURS) \div 24

Weekend(day) == day % 7 \in {2, 3}

IsHoliday(day) == \/ Weekend(day)
                  \/ \E i \in Stored : \/ holidays[i].kind = "public" /\ holidays[i].date = day
                                       \/ holidays[i].kind = "annual" /\ holidays[i].day = day

energy_summary_rows(hour) ==
    IF IsHoliday(LocalDay(hour)) THEN "holiday"
    ELSE IF hour % 24 \in TOU_PEAK_START_UTC .. TOU_PEAK_END_UTC - 1 THEN "peak" ELSE "offpeak"

Next == \E a \in Admin :
          \/ \E h \in Holiday : create_holiday(a, h)
          \/ \E i \in Id, h \in Holiday : update_holiday(a, i, h)
          \/ \E i \in Id : delete_holiday(a, i)
          \/ \E set \in {s \in SUBSET Holiday : Cardinality(s) <= MaxId} : import_holidays(a, set)
          \/ import_holidays_from_meter(a)
          \/ CommitAdd(a) \/ CommitEdit(a) \/ CommitDelete(a) \/ CommitImport(a)

Spec == Init /\ [][Next]_vars

-----------------------------------------------------------------------------
(* The record of changes accounts for exactly the Holidays there are, and  *)
(* each has the columns of its kind alone, as long as no commit met a row  *)
(* other than the one it had loaded: two deletes of one Holiday are        *)
(* recorded twice, an edit that meets an import mixes two Holidays.        *)
Whole(row) == (row.kind = "public") = (row.date # NoDay) /\ (row.kind = "annual") = (row.day # NoDay)

CalendarIsAccountedFor ==
    ~crossed => /\ accounted = Cardinality(Stored)
                /\ \A i \in Stored : Whole(holidays[i])

(* Every hour of every local day falls into the bucket a clock on the wall *)
(* gives it, 9 to 22 on days that are no Holiday, although the hour is     *)
(* compared in UTC and the day is shifted.                                 *)
SplitFollowsWallClock ==
    \A day \in Day, hour \in 0 .. 23 :
        energy_summary_rows(24 * day + hour - METER_LOCAL_UTC_OFFSET_HOURS) =
          IF IsHoliday(day) THEN "holiday" ELSE IF hour \in 9 .. 21 THEN "peak" ELSE "offpeak"
=============================================================================
