-------------------------------- MODULE Outgoing --------------------------------
(***************************************************************************)
(* The three ways out of the machine: files to a server (FileUpload), rows *)
(* to the customer's database (Destination), items to the central server   *)
(* (CentralPush).  Each has its feature in the license, its job, settings  *)
(* and status card, and none reads what another writes; a behaviour of the *)
(* composition is one of the machine whose license sells `feature`.        *)
(***************************************************************************)
EXTENDS Naturals, FiniteSetsExt

CONSTANTS
    Protocol, Root, Fixed, Key, NoKey, MaxFile, MaxVersion, MaxUploadMishaps,
    MaxTime, Window, Skew, Rewind, Offset, RowChunk, SecondLogger, Disowned, Kinds,
    MaxBills, MaxDestMishaps,
    MaxDay, Bill, ItemCap, Margin, MaxClock, MaxPushMishaps

ASSUME OutgoingAssumption ==
    /\ MaxFile \in Nat /\ MaxVersion \in Nat
    /\ Fixed \notin Root                  \* the HTTPS manifest is under no root
    /\ MaxTime \in Nat \ {0} /\ {Window, Skew, Rewind, Offset} \subseteq Nat
    /\ MaxDay \in Nat /\ MaxClock \in Nat \ {0}

VARIABLES
    feature,
    local, remote, manifests, there, setting, pinned, key, betrayed,
    upload_work, upload_last, upload_mishaps,
    now, l1, l2, l2_stored, begun, identified, bills, copy, table, dest,
    dest_configured, dest_work, dest_last, dest_mishaps,
    clock, intervals, holidays, rows, roster, spoilt, parted,
    srv, srv_intervals, srv_roster, srv_speaks,
    push_configured, push_work, push_last, push_mishaps

F == INSTANCE FileUpload WITH
       work <- upload_work, last <- upload_last, mishaps <- upload_mishaps,
       MaxMishaps <- MaxUploadMishaps
D == INSTANCE Destination WITH
       configured <- dest_configured, work <- dest_work, last <- dest_last,
       mishaps <- dest_mishaps, Feature <- Kinds, MaxMishaps <- MaxDestMishaps
C == INSTANCE CentralPush WITH
       configured <- push_configured, work <- push_work, last <- push_last,
       mishaps <- push_mishaps, MaxTime <- MaxDay, Rewind <- Margin,
       MaxMishaps <- MaxPushMishaps

upload_vars == <<local, remote, manifests, there, setting, pinned, key, betrayed,
                 upload_work, upload_last, upload_mishaps>>
dest_vars   == <<now, l1, l2, l2_stored, begun, identified, bills, copy, table, dest,
                 dest_configured, dest_work, dest_last, dest_mishaps>>
push_vars   == <<clock, intervals, holidays, rows, roster, spoilt, parted,
                 srv, srv_intervals, srv_roster, srv_speaks,
                 push_configured, push_work, push_last, push_mishaps>>
vars        == <<feature, upload_vars, dest_vars, push_vars>>

Init ==
    /\ feature \in {"file_upload", "database_destination", "central_push"}
    /\ F!Init /\ D!Init /\ C!Init
    /\ feature # "database_destination" => table = "missing"

Uploads == feature = "file_upload" /\ UNCHANGED <<feature, dest_vars, push_vars>>
Copies  == feature = "database_destination" /\ UNCHANGED <<feature, upload_vars, push_vars>>
Pushes  == feature = "central_push" /\ UNCHANGED <<feature, upload_vars, dest_vars>>

Next == (Uploads /\ F!Next) \/ (Copies /\ D!Next) \/ (Pushes /\ C!Next)

Runs == (Uploads /\ F!Goes) \/ (Copies /\ (D!Start \/ D!Goes)) \/ (Pushes /\ C!Goes)

Spec == Init /\ [][Next]_vars

\* A job runs every fifteen minutes, and what hangs in a cycle times out.
Fairness == WF_vars(Runs)

FairSpec == Spec /\ Fairness

-----------------------------------------------------------------------------
(* What a cycle would skip as unchanged, the server has: whatever order    *)
(* files were rewritten, digested, sent and recorded in, and wherever a    *)
(* cycle stopped.                                                          *)
ManifestTellsTruth == F!ManifestTellsTruth

(* The server comes to hold every file as it is here, through failures of  *)
(* every operation, budgets that end a cycle, crashes, a changed host key, *)
(* a wiped folder and a change of protocol.                                *)
UploadCatchesUp == F!ServerCatchesUp

(* No hole behind the destination's newest row, where nothing would ever   *)
(* be sent again: through chunks, budgets, failed transactions, data       *)
(* deleted here and tables dropped there.                                  *)
NoHoleAtDestination == D!NoHoleAtDestination

(* The destination comes to hold the billing rows as they are here, and    *)
(* every merged row that no longer waits for its Logger 2 values.          *)
DestinationCatchesUp == D!DestinationCatchesUp

(* Rows past the Mirror Window go, were every cycle's budget spent on      *)
(* sending.                                                                *)
MirrorWindowHolds == D!MirrorWindowHolds

(* No row is left behind the newest stamp that the server has, where it    *)
(* would never be sent, wherever a cycle stopped and whatever changed      *)
(* under it.                                                               *)
NothingStranded == C!NothingStranded

(* The server comes to hold the roster, every row and every interval.      *)
PushCatchesUp == C!ServerCatchesUp
=============================================================================
