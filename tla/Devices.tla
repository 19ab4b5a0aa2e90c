-------------------------------- MODULE Devices --------------------------------
(***************************************************************************)
(* The rows of `devices` and the requests that add, edit and delete them   *)
(* (api/devices.py), each in a thread of its own.  Create and Update talk  *)
(* to the meter between the checks they begin with and the commit they end *)
(* with (acquisition/probe.py): minutes, in which other requests commit    *)
(* and somebody rewires the panel or changes a meter's password.           *)
(*                                                                         *)
(* A session holds no snapshot: every SELECT sees what is committed, but a *)
(* row once loaded keeps the columns it was loaded with, and the UPDATE    *)
(* names only those the handler changed.  SQLite gives a new row the id    *)
(* after the largest, so the id of the last row is used again.             *)
(*                                                                         *)
(* Left out: names (unique, refused at the same points as serials), model  *)
(* and brand (settled before the meter is asked), the descriptive columns, *)
(* and what a commit does to the Poller (Poller) and the status            *)
(* (DeviceStatus).                                                         *)
(***************************************************************************)
EXTENDS Naturals, FiniteSets, FiniteSetsExt, Functions

CONSTANTS
    Request,        \* request threads
    MaxId,          \* bound: the largest id
    Line,           \* what a transport may point at: an address, a COM port
    Password,
    Serial,         \* the meters, by the serial they report
    None,           \* no row, no serial, no code, a password field left blank
    max_meters,     \* what the license grants
    require_meter_activation,
    MaxWirings      \* bound: how often the panel changes

Id  == 1 .. MaxId
Row == [transport : Line, password : Password, serial : Serial \cup {None},
        code : Serial \cup {None}]

VARIABLES
    rows,       \* devices, by id
    wired,      \* the meter at the end of each line
    secret,     \* the password each meter accepts
    work,       \* what each request is doing
    proven,     \* history: <<line, password, serial>> a meter has answered to
    mixed,      \* history: an UPDATE landed on a row that had changed since it was loaded
    wirings     \* panel changes so far

vars == <<rows, wired, secret, work, proven, mixed, wirings>>

\* row: the columns to be stored; loaded: the row as the session knows it;
\* serial: what the meter answered.
Idle == [pc |-> "idle", id |-> 0, row |-> None, loaded |-> None, serial |-> None]
Work == [pc : {"idle", "probe", "create", "update", "delete"}, id : 0 .. MaxId,
         row : Row \cup {None}, loaded : Row \cup {None}, serial : Serial \cup {None}]

TypeOK ==
    /\ rows \in [Id -> Row \cup {None}]
    /\ wired \in [Line -> Serial] /\ secret \in [Serial -> Password]
    /\ work \in [Request -> Work]
    /\ proven \subseteq Line \X Password \X Serial
    /\ mixed \in BOOLEAN /\ wirings \in 0 .. MaxWirings

\* One meter on each line, all with one password (which, is all the same).  A machine
\* from before rows were identified may hold a row with no serial.
Init ==
    /\ rows \in {[i \in Id |-> IF i = 1 THEN r ELSE None] :
                   r \in {q \in Row : q.serial = None /\ q.code = None} \cup {None}}
    /\ wired = CHOOSE f \in Injection(Line, Serial) : TRUE
    /\ secret = LET p == CHOOSE p \in Password : TRUE IN [s \in Serial |-> p]
    /\ work = [q \in Request |-> Idle]
    /\ proven = {} /\ mixed = FALSE /\ wirings = 0

Used   == {i \in Id : rows[i] # None}
NextId == IF Used = {} THEN 1 ELSE Max(Used) + 1
Held(serial, but) == \E i \in Used \ {but} : rows[i].serial = serial

Goes(q, w) == work' = [work EXCEPT ![q] = w]

\* POST: what can be decided here is, then the meter is asked.
create_device(q, line, password) ==
    /\ work[q].pc = "idle"
    /\ Cardinality(Used) < max_meters
    /\ Goes(q, [Idle EXCEPT !.pc = "probe",
                  !.row = [transport |-> line, password |-> password,
                           serial |-> None, code |-> None]])
    /\ UNCHANGED <<rows, wired, secret, proven, mixed, wirings>>

\* A secret left blank in the form is kept.
_kept(new, stored) == IF new = None THEN stored ELSE new

update_device(q, id, line, password) ==
    /\ work[q].pc = "idle" /\ id \in Used
    /\ Goes(q, [Idle EXCEPT !.pc = "probe", !.id = id, !.loaded = rows[id],
                  !.row = [rows[id] EXCEPT !.transport = line,
                             !.password = _kept(password, rows[id].password)]])
    /\ UNCHANGED <<rows, wired, secret, proven, mixed, wirings>>

\* The meter refuses or is silent: 502, nothing written.
ProbeFails(q) ==
    /\ work[q].pc = "probe"
    /\ Goes(q, Idle)
    /\ UNCHANGED <<rows, wired, secret, proven, mixed, wirings>>

\* Mutant: an edit that asks the meter the row has
\* so far.
probe_meterOfStored(q) ==
    LET w == work[q] at == IF w.id = 0 THEN w.row ELSE w.loaded serial == wired[at.transport] IN
    /\ w.pc = "probe" /\ secret[serial] = at.password
    /\ proven' = proven \cup {<<at.transport, at.password, serial>>}
    /\ Goes(q, [w EXCEPT !.pc = IF w.id = 0 THEN "create" ELSE "update", !.serial = serial])
    /\ UNCHANGED <<rows, wired, secret, mixed, wirings>>

\* It accepts the password and names itself.
probe_meter(q) ==
    LET w == work[q] serial == wired[w.row.transport] IN
    /\ w.pc = "probe" /\ secret[serial] = w.row.password
    /\ proven' = proven \cup {<<w.row.transport, w.row.password, serial>>}
    /\ Goes(q, [w EXCEPT !.pc = IF w.id = 0 THEN "create" ELSE "update", !.serial = serial])
    /\ UNCHANGED <<rows, wired, secret, mixed, wirings>>

\* The code is for this meter; none will do where none is demanded.
_resolve_meter_activation_code(code, serial) ==
    IF code = None THEN ~require_meter_activation ELSE code = serial

\* The serial is compared and inserted in statements of one moment, and is unique
\* in the table: whichever refuses, the request ends with nothing written.
CommitCreate(q, code) ==
    LET w == work[q] IN
    /\ w.pc = "create" /\ NextId \in Id
    /\ rows' = IF Held(w.serial, 0) \/ ~_resolve_meter_activation_code(code, w.serial)
                 THEN rows
                 ELSE [rows EXCEPT ![NextId] = [w.row EXCEPT !.serial = w.serial, !.code = code]]
    /\ Goes(q, Idle)
    /\ UNCHANGED <<wired, secret, proven, mixed, wirings>>

\* An edit must not point the row at another meter.
_reject_changed_serial(loaded, serial) == loaded.serial # None /\ loaded.serial # serial

\* The UPDATE of the columns in which the edited row differs from the loaded one.
\* It finds no row when that was deleted, and the session raises.
CommitUpdate(q) ==
    LET w       == work[q]
        edited  == [w.row EXCEPT !.serial = w.serial]
        written == {c \in DOMAIN edited : edited[c] # w.loaded[c]}
        lands   == /\ ~_reject_changed_serial(w.loaded, w.serial)
                   /\ ~Held(w.serial, w.id) /\ rows[w.id] # None /\ written # {}
    IN /\ w.pc = "update"
       /\ rows' = IF lands
                    THEN [rows EXCEPT ![w.id] =
                            [c \in DOMAIN edited |-> IF c \in written THEN edited[c] ELSE @[c]]]
                    ELSE rows
       /\ mixed' = (mixed \/ (lands /\ rows[w.id] # w.loaded))
       /\ Goes(q, Idle)
       /\ UNCHANGED <<wired, secret, proven, wirings>>

\* DELETE loads the row, then deletes by id: readings and events go along, and the
\* serial may be used again at once.
delete_device(q, id) ==
    /\ work[q].pc = "idle" /\ id \in Used
    /\ Goes(q, [Idle EXCEPT !.pc = "delete", !.id = id])
    /\ UNCHANGED <<rows, wired, secret, proven, mixed, wirings>>

CommitDelete(q) ==
    /\ work[q].pc = "delete"
    /\ rows' = [rows EXCEPT ![work[q].id] = None]
    /\ Goes(q, Idle)
    /\ UNCHANGED <<wired, secret, proven, mixed, wirings>>

\* Somebody swaps two lines, or sets a meter's password.
Rewire ==
    /\ wirings < MaxWirings /\ wirings' = wirings + 1
    /\ \/ \E s \in Serial, l \in Line : wired' = [wired EXCEPT ![l] = s] /\ UNCHANGED secret
       \/ \E s \in Serial, p \in Password : secret' = [secret EXCEPT ![s] = p] /\ UNCHANGED wired
    /\ UNCHANGED <<rows, work, proven, mixed>>

Next ==
    \/ \E q \in Request :
         \/ \E l \in Line, p \in Password : create_device(q, l, p)
         \/ \E i \in Id, l \in Line, p \in Password \cup {None} : update_device(q, i, l, p)
         \/ ProbeFails(q) \/ probe_meter(q)
         \/ \E c \in Serial \cup {None} : CommitCreate(q, c)
         \/ CommitUpdate(q)
         \/ \E i \in Id : delete_device(q, i)
         \/ CommitDelete(q)
    \/ Rewire

Spec == Init /\ [][Next]_vars

-----------------------------------------------------------------------------
(* "Two rows may not point at the same physical meter", and no row changes *)
(* its meter: an edit writes a serial over another only if it found the    *)
(* row unidentified, whatever was rewired, edited or deleted meanwhile.    *)
RowKeepsItsMeter ==
    [][\A i \in Id :
         rows[i] # None /\ rows'[i] # None /\ rows[i].serial # None
           => \/ rows'[i].serial = rows[i].serial
              \/ \E q \in Request : work[q].pc = "update" /\ work[q].loaded.serial = None]_vars

(* Line and password of an identified row were once answered to by the     *)
(* very meter the row names, and its code is for that meter.  Only an edit *)
(* that lands on a row changed since it was loaded mixes the columns of    *)
(* two probes.                                                             *)
RowIsProvenUntilMixed ==
    ~mixed => \A i \in Used :
                /\ rows[i].serial # None
                     => <<rows[i].transport, rows[i].password, rows[i].serial>> \in proven
                /\ rows[i].code # None => rows[i].code = rows[i].serial
=============================================================================
