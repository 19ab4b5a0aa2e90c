----------------------------- MODULE LoadProfile -----------------------------
(***************************************************************************)
(* The load-profile read of one device (acquisition/load_profile.py), the  *)
(* walk that copies a meter's ring of intervals into the store, with what  *)
(* else writes those rows: Delete all data (api/devices.py) and the daily  *)
(* retention job (db/retention.py).                                        *)
(*                                                                         *)
(* Time is unbounded and told by age: 0 is now, and Tick makes everything  *)
(* one interval older.  So the table, the ring and a walk's bounds are     *)
(* ages, larger is older, and "from the watermark to now" counts down.     *)
(*                                                                         *)
(* Nothing records how far a walk came: the next one starts at each        *)
(* logger's newest stored row, read before the line is taken.              *)
(***************************************************************************)
EXTENDS Naturals, FiniteSets, FiniteSetsExt

CONSTANTS
    Manual,         \* Read-now walks: they wait for the line
    Background,     \* the Scheduler's cycle: it skips a busy line
    Loggers,        \* how many load profiles the model has
    Ring,           \* how many rows the meter's ring holds
    Window,         \* LOAD_PROFILE_BACKFILL_DAYS and RETENTION_DAYS, in intervals
    Chunk,          \* LOAD_PROFILE_CHUNK_HOURS, in intervals
    MaxGap,         \* the longest time between two rows the meter records
    History,        \* how many rows the ring may hold at the start
    ClearMidway,    \* whether data may be cleared while a walk is under way
    None

ASSUME ProfileAssumption ==
    /\ Loggers \in Nat \ {0} /\ Ring \in Nat \ {0} /\ Window \in Nat \ {0}
    /\ Chunk \in Nat \ {0} /\ MaxGap \in Nat \ {0} /\ History \subseteq 1 .. Ring
    /\ ClearMidway \in BOOLEAN
    /\ None \notin Nat \cup Manual \cup Background

Walker == Manual \cup Background
Logger == 1 .. Loggers

\* The age at which retention must have removed a row (it runs daily).
MaxAge == Window + 2
Age    == 0 .. MaxAge

\* In the ring every row older than any walk looks for counts as this old.
Ancient == MaxAge + 1

VARIABLES
    recorded,   \* ages of the rows in the meter's ring
    stored,     \* per logger, ages of the rows in load_profile_readings
    line,       \* who holds the Transport Endpoint, of these walkers
    walk,       \* each walker's progress
    service     \* history: whether every interval so far has seen a visit of the
                \* cycle that went well ("kept": this one has too, "due": not yet)

vars == <<recorded, stored, line, walk, service>>

Idle == [pc |-> "idle", mark |-> [l \in Logger |-> None], end |-> 0,
         logger |-> 0, at |-> None, clean |-> TRUE]

Walk == [pc : {"idle", "waiting", "walking"}, mark : [Logger -> Age \cup {None}],
         end : {0, 1}, logger : 0 .. Loggers, at : Age \cup {None}, clean : BOOLEAN]

TypeOK ==
    /\ recorded \subseteq 0 .. Ancient
    /\ stored \in [Logger -> SUBSET Age]
    /\ line \in Walker \cup {None}
    /\ walk \in [Walker -> Walk]
    /\ service \in {"due", "kept", "neglected"}
    /\ \A w \in Walker : /\ line = w <=> walk[w].pc = "walking"
                         /\ walk[w].pc = "walking" <=> walk[w].logger > 0

Init ==
    /\ \E rows \in History : recorded = (0 .. rows - 1) \cap (0 .. Ancient)
    /\ stored = [l \in Logger |-> {}]
    /\ line = None
    /\ walk = [w \in Walker |-> Idle]
    /\ service = "due"

-----------------------------------------------------------------------------
(* read_and_store_load_profile.                                            *)

\* Mutant: one watermark for all the loggers.
WatermarkOfDevice(l) ==
    LET all == UNION {stored[k] : k \in Logger}
    IN  IF all = {} THEN None ELSE Min(all)

\* MAX(read_at) of the logger: its youngest stored row.
Watermark(l) == IF stored[l] = {} THEN None ELSE Min(stored[l])

Begin(w) ==
    /\ walk[w].pc = "idle"
    /\ walk' = [walk EXCEPT ![w] =
         [Idle EXCEPT !.pc = "waiting", !.mark = [l \in Logger |-> Watermark(l)]]]
    /\ UNCHANGED <<recorded, stored, line, service>>

\* The line is busy, with the other walker or with a tick or billing read that
\* this module leaves out: background gives up at once, manual after a timeout.
GiveUp(w) ==
    /\ walk[w].pc = "waiting"
    /\ walk' = [walk EXCEPT ![w] = Idle]
    /\ UNCHANGED <<recorded, stored, line, service>>

Take(w) ==
    /\ walk[w].pc = "waiting" /\ line = None
    /\ line' = w
    /\ walk' = [walk EXCEPT ![w].pc = "walking", ![w].logger = 1]
    /\ UNCHANGED <<recorded, stored, service>>

\* Disconnect and give the line back.
Leave(w, clean) ==
    /\ line' = None
    /\ walk' = [walk EXCEPT ![w] = Idle]
    /\ service' = IF service = "due" /\ clean /\ w \in Background THEN "kept" ELSE service

ConnectFails(w) ==
    /\ walk[w].pc = "walking" /\ walk[w].logger = 1 /\ walk[w].at = None
    /\ Leave(w, FALSE)
    /\ UNCHANGED <<recorded, stored>>

-----------------------------------------------------------------------------
(* _walk_every_logger, _backfill_start and _walk.                          *)

\* Where a logger without rows starts: the backfill window, or the meter's own
\* oldest row when that lies inside the window.
Floor(end) == end + Window
Hint(end) ==
    LET inside == recorded # {} /\ end < Max(recorded) /\ Max(recorded) < Floor(end)
    IN  IF inside THEN Max(recorded) ELSE Floor(end)

\* Asking the meter for its oldest row may fail, and the window is the answer.
BackfillStarts(end) == {Hint(end), Floor(end)}

\* Where the walk's next chunk starts.
ChunkStarts(w) ==
    LET here == walk[w] IN
    IF here.at # None THEN {here.at}
    ELSE IF here.mark[here.logger] # None THEN {here.mark[here.logger]}
    ELSE BackfillStarts(here.end)

\* Its first chunk starts at the window because the meter did not answer.
HintFailed(w, start) ==
    /\ walk[w].at = None /\ walk[w].mark[walk[w].logger] = None
    /\ start # Hint(walk[w].end)

\* The next logger's walk, or the end of the visit.
NextLogger(w, clean) ==
    IF walk[w].logger < Loggers
    THEN /\ walk' = [walk EXCEPT ![w].logger = @ + 1, ![w].at = None, ![w].clean = clean]
         /\ UNCHANGED <<line, service>>
    ELSE Leave(w, clean)

\* One chunk is fetched and upserted in a transaction of its own.  The bounds
\* are inclusive, so the row at the start is read again.
ReadChunk(w) ==
    /\ walk[w].pc = "walking"
    /\ \E start \in ChunkStarts(w) :
         /\ start > walk[w].end
         /\ LET stop == IF start >= walk[w].end + Chunk THEN start - Chunk ELSE walk[w].end
            IN  /\ stored' = [stored EXCEPT ![walk[w].logger] =
                                @ \cup {a \in recorded : stop <= a /\ a <= start}]
                /\ walk' = [walk EXCEPT ![w].at = stop, ![w].clean = @ /\ ~HintFailed(w, start)]
    /\ UNCHANGED <<recorded, line, service>>

\* The read or the transaction fails: this logger's walk ends, the next begins.
ChunkFails(w) ==
    /\ walk[w].pc = "walking"
    /\ \E start \in ChunkStarts(w) : start > walk[w].end
    /\ NextLogger(w, FALSE)
    /\ UNCHANGED <<recorded, stored>>

\* The walk has reached now.
WalkDone(w) ==
    /\ walk[w].pc = "walking"
    /\ \E start \in ChunkStarts(w) : start <= walk[w].end
    /\ NextLogger(w, walk[w].clean)
    /\ UNCHANGED <<recorded, stored>>

\* Mutant: the budget is checked before a logger's first chunk too.
BudgetSpentEarly(w) ==
    /\ walk[w].pc = "walking" /\ (walk[w].at # None \/ walk[w].logger > 1)
    /\ \E start \in ChunkStarts(w) : start > walk[w].end
    /\ NextLogger(w, walk[w].clean)
    /\ UNCHANGED <<recorded, stored>>

\* The shared budget is spent: checked before every chunk but a logger's first.
BudgetSpent(w) ==
    /\ walk[w].pc = "walking" /\ walk[w].at # None
    /\ walk[w].at > walk[w].end
    /\ NextLogger(w, walk[w].clean)
    /\ UNCHANGED <<recorded, stored>>

-----------------------------------------------------------------------------
(* The other writers of the rows, and the meter.                           *)

clear_readings ==
    /\ ClearMidway \/ \A w \in Walker : walk[w].pc = "idle"
    /\ stored' = [l \in Logger |-> {}]
    /\ service' = "neglected"
    /\ UNCHANGED <<recorded, line, walk>>

\* Strictly older than the window: a row on the cutoff is kept.
purge_expired ==
    /\ stored' = [l \in Logger |-> {a \in stored[l] : a <= Window}]
    /\ stored' # stored
    /\ UNCHANGED <<recorded, line, walk, service>>

Older(a) == IF a = None THEN None ELSE a + 1
Aged(a)  == IF a = Ancient THEN Ancient ELSE a + 1

\* The row that the next one takes the place of, when the ring is full.
Overwritten == IF Cardinality(recorded) = Ring THEN {Max(recorded)} ELSE {}

\* One interval passes: the meter records a row over the oldest one of its
\* ring, or has no power.  A visit lasts less than an interval, so it sees one Tick
\* at most, and retention keeps up.
Tick ==
    /\ \A w \in Walker : walk[w].end = 0
    /\ \A l \in Logger : \A a \in stored[l] : a < MaxAge
    /\ \A w \in Walker : MaxAge \notin {walk[w].at} \cup {walk[w].mark[l] : l \in Logger}
    /\ \/ recorded' = {Aged(a) : a \in recorded \ Overwritten} \cup {0}
       \/ recorded' = {Aged(a) : a \in recorded} /\ \E a \in recorded' : a < MaxGap
    /\ stored' = [l \in Logger |-> {a + 1 : a \in stored[l]}]
    /\ walk' = [w \in Walker |->
         IF walk[w].pc = "idle" THEN walk[w]
         ELSE [walk[w] EXCEPT !.mark = [l \in Logger |-> Older(@[l])],
                              !.end = 1, !.at = Older(@)]]
    /\ service' = IF service = "kept" THEN "due" ELSE "neglected"
    /\ UNCHANGED line

Next ==
    \/ \E w \in Walker :
         \/ Begin(w) \/ GiveUp(w) \/ Take(w) \/ ConnectFails(w)
         \/ ReadChunk(w) \/ ChunkFails(w) \/ WalkDone(w) \/ BudgetSpent(w)
    \/ clear_readings \/ purge_expired \/ Tick

Spec == Init /\ [][Next]_vars

-----------------------------------------------------------------------------
(* The watermark never passes a row that was not read: every row the meter  *)
(* still holds inside the window, older than a logger's newest stored row,  *)
(* is stored too.  What is missing lies before the first row or after the   *)
(* last, where the next walk looks; a hole in between is never looked at.   *)
NoHoleBehindWatermark ==
    \A l \in Logger : Watermark(l) # None =>
        \A a \in recorded : Watermark(l) < a /\ a <= Window => a \in stored[l]

\* As long as every interval sees one visit that goes well, however short its
\* budget, no row is overwritten in the meter before every logger has it stored.
NothingIsLost ==
    [][Tick /\ 0 \in recorded' /\ service = "kept" =>
          \A l \in Logger : {a \in Overwritten : a <= Window} \subseteq stored[l]]_vars
=============================================================================
