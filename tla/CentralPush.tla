------------------------------ MODULE CentralPush ------------------------------
(***************************************************************************)
(* The Central Push (centralpush/cycle.py, client.py) and the Energy       *)
(* Summary it sends (db/energy_summary_store.py, energy_query.py).  The    *)
(* machine remembers nothing of what it sent: a cycle asks the server for  *)
(* the newest stamp it holds of each kind, then sends what is newer, in    *)
(* requests of a bounded size, until it is done, its budget is spent or a  *)
(* request fails.                                                          *)
(*                                                                         *)
(* One meter.  A row of the stamped kinds, a billing row or a summary day, *)
(* is its content and its updated_at; an interval never changes.           *)
(***************************************************************************)
EXTENDS Naturals, FiniteSetsExt

CONSTANTS
    MaxTime,     \* bound: intervals that are stored, one a day
    Bill,        \* billing rows
    ItemCap,     \* CENTRAL_PUSH_ITEM_CAP
    Rewind,      \* CENTRAL_PUSH_LOAD_PROFILE_REWIND_SEC
    MaxClock,    \* bound: moments at which rows are written
    MaxMishaps   \* bound: failures, crashes, and what people change

Day    == 1 .. MaxTime
Kind   == {"billing", "energy_summary"}
Id     == Day \cup Bill
IdOf(kind) == IF kind = "billing" THEN Bill ELSE Day
Holiday == 0                              \* what a day holds besides its interval
Gone   == [content |-> {}, stamp |-> 0]

VARIABLES
    clock,
    intervals,   \* the load profile
    holidays,    \* days that count as holidays
    rows,        \* the rows of each kind
    roster,      \* which version of it
    srv,         \* the server: rows, intervals, roster and contract version
    srv_intervals, srv_roster, srv_speaks,
    configured,
    work,
    last,        \* how the last cycle ended
    spoilt,      \* history: the clock was set back, or the server emptied in a cycle
    parted,      \* history: rows cut off from sent ones of the same stamp
    mishaps

server == <<srv, srv_intervals, srv_roster, srv_speaks>>
here   == <<clock, intervals, holidays, rows, roster, spoilt>>
vars   == <<here, server, configured, work, last, parted, mishaps>>

Idle == [pc |-> "idle", marks |-> [k \in Kind |-> 0], mark |-> 0, items |-> {}, progress |-> FALSE]

Row == [content : SUBSET (0 .. MaxClock + MaxTime), stamp : 0 .. MaxClock]

TypeOK ==
    /\ clock \in 1 .. MaxClock /\ intervals \subseteq Day /\ holidays \subseteq Day
    /\ \A k \in Kind, i \in Id : rows[k][i] \in Row /\ srv[k][i] \in Row
    /\ roster \in 0 .. 1 /\ srv_roster \in 0 .. 1
    /\ srv_intervals \subseteq Day /\ srv_speaks \in BOOLEAN /\ configured \in BOOLEAN
    /\ work.pc \in {"idle", "holdings", "meters", "load_profile"} \cup Kind
    /\ last \in {"none", "success", "skipped"} /\ spoilt \in BOOLEAN /\ mishaps \in 0 .. MaxMishaps

Empty == [k \in Kind |-> [i \in Id |-> Gone]]

Init ==
    /\ clock = 1 /\ intervals = {} /\ holidays = {} /\ rows = Empty /\ roster = 1
    /\ srv = Empty /\ srv_intervals = {} /\ srv_roster = 0 /\ srv_speaks = TRUE
    /\ configured = FALSE /\ work = Idle /\ last = "none" /\ spoilt = FALSE
    /\ parted = {} /\ mishaps = 0

Happens == mishaps < MaxMishaps /\ mishaps' = mishaps + 1
Newest(stamps) == Max(stamps \cup {0})

-----------------------------------------------------------------------------
(* What there is to send.                                                  *)

StoreInterval ==
    /\ \E t \in Day : t = Newest(intervals) + 1 /\ intervals' = intervals \cup {t}
    /\ UNCHANGED <<clock, holidays, rows, roster, spoilt, server, configured, work, last, parted, mishaps>>

\* A read stores what it found, all with the stamp of that second; the next is later.
BillingRead(changed) ==
    /\ changed # {} /\ clock < MaxClock /\ clock' = clock + 1
    /\ rows' = [rows EXCEPT !["billing"] = [i \in Id |->
                  IF i \in changed THEN [content |-> {clock}, stamp |-> clock'] ELSE @[i]]]
    /\ UNCHANGED <<intervals, holidays, roster, spoilt, server, configured, work, last, parted, mishaps>>

edit_holiday(d) ==
    /\ Happens
    /\ holidays' = (holidays \ {d}) \cup ({d} \ holidays)
    /\ UNCHANGED <<clock, intervals, rows, roster, spoilt, server, configured, work, last, parted>>

\* energy_summary_rows: the day's energy, classified by the day.
Summary(d) ==
    IF d \notin intervals THEN {} ELSE {d} \cup (IF d \in holidays THEN {Holiday} ELSE {})

\* Mutant: a day whose buckets changed keeps its stamp.
RecomputedUnstamped(day, stamp) ==
    LET stored == rows["energy_summary"][day] IN
    IF Summary(day) = {} THEN Gone
    ELSE [content |-> Summary(day), stamp |-> IF stored = Gone THEN stamp ELSE stored.stamp]

\* A row whose buckets are what they were keeps its stamp; a day without readings goes.
Recomputed(day, stamp) ==
    LET stored == rows["energy_summary"][day] IN
    IF Summary(day) = {} THEN Gone
    ELSE IF Summary(day) = stored.content THEN stored
    ELSE [content |-> Summary(day), stamp |-> stamp]

energy_summary_recompute_cycle ==
    /\ work = Idle /\ clock < MaxClock /\ clock' = clock + 1
    /\ rows' = [rows EXCEPT !["energy_summary"] = [i \in Id |->
                  IF i \in Day THEN Recomputed(i, clock') ELSE Gone]]
    /\ UNCHANGED <<intervals, holidays, roster, spoilt, server, configured, work, last, parted, mishaps>>

\* The summary's days go with the next recompute.
clear_readings ==
    /\ Happens /\ intervals' = {} /\ rows' = [rows EXCEPT !["billing"] = Empty["billing"]]
    /\ UNCHANGED <<clock, holidays, roster, spoilt, server, configured, work, last, parted>>

EditMeter ==
    /\ Happens /\ roster' = 1 - roster
    /\ UNCHANGED <<clock, intervals, holidays, rows, spoilt, server, configured, work, last, parted>>

ClockIsSetBack ==
    /\ Happens /\ clock > 1 /\ clock' = clock - 1 /\ spoilt' = TRUE
    /\ UNCHANGED <<intervals, holidays, rows, roster, server, configured, work, last, parted>>

put_central_push_settings ==
    /\ configured' = ~configured /\ IF configured' THEN UNCHANGED mishaps ELSE Happens
    /\ UNCHANGED <<here, server, work, last, parted>>

\* The server is emptied, or speaks another version of the contract, or this one again.
ServerChanges ==
    /\ \/ /\ Happens /\ srv' = Empty /\ srv_intervals' = {} /\ srv_roster' = 0
          /\ spoilt' = (spoilt \/ work # Idle) /\ UNCHANGED srv_speaks
       \/ /\ srv_speaks' = ~srv_speaks /\ IF srv_speaks' THEN UNCHANGED mishaps ELSE Happens
          /\ UNCHANGED <<srv, srv_intervals, srv_roster, spoilt>>
    /\ UNCHANGED <<clock, intervals, holidays, rows, roster, configured, work, last, parted>>

-----------------------------------------------------------------------------
(* The cycle: holdings, roster, billing, summary, load profile.            *)

Ends(outcome) == work' = Idle /\ last' = outcome

Start ==
    /\ work = Idle /\ configured /\ work' = [Idle EXCEPT !.pc = "holdings"]
    /\ UNCHANGED <<here, server, configured, last, parted, mishaps>>

Stamps(table) == {table[i].stamp : i \in Id}

\* A server that speaks another version gets nothing.
fetch_holdings ==
    /\ work.pc = "holdings"
    /\ IF srv_speaks
       THEN /\ work' = [work EXCEPT !.pc = "meters", !.marks = [k \in Kind |-> Newest(Stamps(srv[k]))],
                                    !.mark = Newest(srv_intervals)]
            /\ UNCHANGED last
       ELSE Ends("skipped")
    /\ UNCHANGED <<here, server, configured, parted, mishaps>>

Newer(kind) ==
    {[id |-> i, row |-> rows[kind][i]] :
        i \in {j \in IdOf(kind) : rows[kind][j] # Gone /\ rows[kind][j].stamp > work.marks[kind]}}

\* _load_profile_start: rewound by a margin, unless the server has none.
PendingIntervals ==
    {[id |-> t, row |-> [content |-> {}, stamp |-> t]] :
        t \in {u \in intervals : work.mark = 0 \/ u + Rewind > work.mark}}

\* What the next kind has to send is read when its turn comes.
To(kind) ==
    work' = [work EXCEPT !.pc = kind, !.items = IF kind = "load_profile" THEN PendingIntervals ELSE Newer(kind)]

\* The full snapshot, in every cycle and whatever the budget.
_send_meters ==
    /\ work.pc = "meters"
    /\ srv_roster' = roster /\ To("billing")
    /\ UNCHANGED <<here, srv, srv_intervals, srv_speaks, configured, last, parted, mishaps>>

After(kind) == IF kind = "billing" THEN "energy_summary" ELSE "load_profile"

NextKind ==
    /\ work.pc \in Kind \cup {"load_profile"} /\ work.items = {}
    /\ IF work.pc = "load_profile" THEN Ends("success") ELSE To(After(work.pc)) /\ UNCHANGED last
    /\ UNCHANGED <<here, server, configured, parted, mishaps>>

\* Mutant: a request takes whatever rows come first.
ChunkUnordered ==
    {chunk \in SUBSET work.items : Cardinality(chunk) = Min({ItemCap, Cardinality(work.items)})}

\* A request takes the oldest first; rows with one stamp come in any order.
Chunk ==
    {chunk \in SUBSET work.items :
       /\ Cardinality(chunk) = Min({ItemCap, Cardinality(work.items)})
       /\ \A c \in chunk, i \in work.items \ chunk : c.row.stamp <= i.row.stamp}

\* The server keeps what it is sent under the row's identity.
Accepted(chunk) ==
    /\ parted' = IF work.pc = "load_profile" THEN parted
                 ELSE (parted \ {<<work.pc, c>> : c \in chunk}) \cup
                      {<<work.pc, i>> : i \in {j \in work.items \ chunk :
                          \E c \in chunk : c.row.stamp = j.row.stamp}}
    /\ IF work.pc = "load_profile"
       THEN /\ srv_intervals' = srv_intervals \cup {c.id : c \in chunk}
            /\ UNCHANGED srv
       ELSE /\ srv' = [srv EXCEPT ![work.pc] = [i \in Id |->
                         IF \E c \in chunk : c.id = i THEN (CHOOSE c \in chunk : c.id = i).row
                         ELSE @[i]]]
            /\ UNCHANGED srv_intervals

_post_chunk ==
    /\ work.pc \in Kind \cup {"load_profile"} /\ work.items # {}
    /\ \E chunk \in Chunk :
         Accepted(chunk) /\ work' = [work EXCEPT !.items = @ \ chunk, !.progress = TRUE]
    /\ UNCHANGED <<here, srv_roster, srv_speaks, configured, last, mishaps>>

\* The budget is looked at before every request, and a request takes its time.
OutOfBudget ==
    /\ work.pc \in Kind \cup {"load_profile"} /\ Ends("success")
    /\ IF work.progress THEN UNCHANGED mishaps ELSE Happens
    /\ UNCHANGED <<here, server, configured, parted>>

\* The cycle ends with the first request that fails, whether or not the server took
\* it; or the process stops.
RequestFails ==
    /\ Happens /\ work.pc # "idle"
    /\ \/ UNCHANGED <<srv, srv_intervals, srv_roster, parted>>
       \/ work.pc = "meters" /\ srv_roster' = roster /\ UNCHANGED <<srv, srv_intervals, parted>>
       \/ /\ work.pc \in Kind \cup {"load_profile"} /\ work.items # {}
          /\ \E chunk \in Chunk : Accepted(chunk)
          /\ UNCHANGED srv_roster
    /\ \E outcome \in {"skipped", "none"} : Ends(outcome)
    /\ UNCHANGED <<here, srv_speaks, configured>>

Goes == Start \/ fetch_holdings \/ _send_meters \/ NextKind \/ _post_chunk \/ OutOfBudget \/ RequestFails

Next ==
    \/ StoreInterval \/ energy_summary_recompute_cycle
    \/ \E changed \in SUBSET Bill : BillingRead(changed)
    \/ \E d \in Day : edit_holiday(d)
    \/ clear_readings \/ EditMeter \/ ClockIsSetBack
    \/ put_central_push_settings \/ ServerChanges
    \/ Goes

Spec == Init /\ [][Next]_vars

\* The job runs every fifteen minutes; a request that hangs times out.
Fairness == WF_vars(Goes)

FairSpec == Spec /\ Fairness

-----------------------------------------------------------------------------
\* A row that the server has not, and that no cycle will send: it has one as new.
Stranded(kind, i) ==
    rows[kind][i] # Gone /\ srv[kind][i] # rows[kind][i]
        /\ rows[kind][i].stamp <= Newest(Stamps(srv[kind]))

CutOff(kind, i) == <<kind, [id |-> i, row |-> rows[kind][i]]>> \in parted

(* A cycle may stop anywhere, between requests, in one, or because rows    *)
(* changed under it: no row is left behind the newest stamp that the       *)
(* server has, where it would never be sent, but for rows cut off from     *)
(* others of their stamp, a clock that was set back and a server that forgot.              *)
NothingStranded ==
    \A kind \in Kind : \A i \in IdOf(kind) : Stranded(kind, i) => spoilt \/ CutOff(kind, i)

(* The server comes to hold the roster, every row and every interval.      *)
ServerCatchesUp ==
    []<>(configured /\ srv_speaks =>
            /\ srv_roster = roster
            /\ intervals \subseteq srv_intervals \/ spoilt
            /\ \A kind \in Kind : \A i \in IdOf(kind) :
                 rows[kind][i] \in {Gone, srv[kind][i]} \/ spoilt \/ CutOff(kind, i))
=============================================================================
