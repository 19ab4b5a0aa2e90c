------------------------------- MODULE Screenshot -------------------------------
(***************************************************************************)
(* The image of a billing period (capture/screenshot.py, service.py,       *)
(* dom.py): the program drives Edge, started by a scheduled task of        *)
(* Windows, over our own Billing page, waits until the rows on the page    *)
(* are the ones it selected, and takes a screenshot.  The job thread and   *)
(* a request thread may both want one; there is one profile directory,     *)
(* one task and one port file, so captures take turns.                     *)
(*                                                                         *)
(* Between selecting the rows and the picture of them lie the wait for the *)
(* turn, a token that is committed, a browser that may never start and a   *)
(* page that asks the database on its own: a read or Delete all data fits  *)
(* into each gap, the hard deadline cancels at any await, and the process  *)
(* may die with the browser running.  The waits themselves are abstract:   *)
(* a deadline may pass at any time.                                        *)
(***************************************************************************)
EXTENDS Naturals, Sequences, FiniteSets, FiniteSetsExt

CONSTANTS
    Caller,         \* threads that want images: the job thread, a request thread
    PNG_ROWS,       \* png_source_rows' limit (ten)
    RING,           \* closed periods the meter holds
    MaxStamp,       \* bound: seconds on which the meter closes periods
    Paired,         \* bound: those on which it may close two
    MaxId,          \* bound: ids the table gives out at once
    MaxTroubles,    \* bound: things that fail in a capture and end it
    MaxMishaps      \* bound: deletions, deaths, failures of the teardown itself

\* A closed period: its bill date and its place among those of the same second,
\* from the newest.
Period == [at : 1 .. MaxStamp, seq : 0 .. 1]

VARIABLES
    meter,      \* the periods the meter holds
    rows,       \* billing_readings of the device: id and period
    lock,       \* _CAPTURE_LOCK: who holds it, or nobody
    job,        \* the capture each caller is in
    task,       \* the scheduled task: "ready" or "running"
    browser,    \* "none", "starting" or "up"
    port,       \* DevToolsActivePort: "none", "live", or "stale" with its browser gone
    stray,      \* whether the row of a capture's token was left behind, to expire
    pictures,   \* image files, by the period each is named for
    deleted,    \* history: captures under way that had rows deleted under them
    troubles, mishaps

vars == <<meter, rows, lock, job, task, browser, port, stray, pictures, deleted,
          troubles, mishaps>>

Nobody == "nobody"

\* anchor, wanted: the row and the ids chosen before the turn; page: what the page
\* shows; port, token: what the teardown has to undo (the connection to the page
\* ends with the browser and is left out).
Idle == [pc |-> "idle", anchor |-> 0, wanted |-> <<>>, stem |-> [at |-> 0, seq |-> 0],
         classic |-> FALSE, page |-> <<>>, port |-> FALSE, token |-> FALSE]

Init ==
    /\ meter = {} /\ rows = {} /\ lock = Nobody
    /\ job = [c \in Caller |-> Idle]
    /\ task = "ready" /\ browser = "none" /\ port = "none" /\ stray = FALSE
    /\ pictures = {} /\ deleted = {} /\ troubles = 0 /\ mishaps = 0

-----------------------------------------------------------------------------
(* Periods and rows.                                                       *)

Newer(p, q) == p.at > q.at \/ (p.at = q.at /\ p.seq < q.seq)

NewestOf(periods, limit) ==
    {p \in periods : Cardinality({q \in periods : Newer(q, p)}) < limit}

LastId == Max({0} \cup {r.id : r \in rows})

\* The meter has closed a period, or two on one second, or none, and dropped the
\* oldest; a read stores what is missing, newest first, on the ids that follow.
StoreBilling ==
    \E seqs \in {{}, {0}, {0, 1}} :
      LET n    == 1 + Max({0} \cup {p.at : p \in meter})
          held == NewestOf(meter \cup {[at |-> n, seq |-> s] : s \in seqs}, RING)
          new  == {p \in held : \A r \in rows : r.period # p}
      IN  /\ seqs # {} => n <= MaxStamp
          /\ 1 \in seqs => n \in Paired
          /\ new # {} /\ LastId + Cardinality(new) <= MaxId
          /\ meter' = held
          /\ rows' = rows \cup {[id     |-> LastId + 1 + Cardinality({q \in new : Newer(q, p)}),
                                 period |-> p] : p \in new}
          /\ UNCHANGED <<lock, job, task, browser, port, stray, pictures, deleted, troubles, mishaps>>

\* Delete all data: the ids are used again.
clear_readings ==
    /\ rows # {} /\ mishaps < MaxMishaps
    /\ rows' = {} /\ mishaps' = mishaps + 1
    /\ deleted' = {c \in Caller : job[c] # Idle}
    /\ UNCHANGED <<meter, lock, job, task, browser, port, stray, pictures, troubles>>

\* Mutant: up to the anchor's bill date, the newer one of its second included.
png_window_filtersByDate(anchor) == {r \in rows : r.period.at <= anchor.period.at}

\* The anchor and what is older; of its second, never the newer one.
png_window_filters(anchor) == {r \in rows : r = anchor \/ Newer(anchor.period, r.period)}

\* A query: the newest rows, as many as the limit says, listed oldest first.
Listed(set, limit) ==
    LET page == {r \in set : r.period \in NewestOf({q.period : q \in set}, limit)}
    IN  [k \in 1 .. Cardinality(page) |->
           CHOOSE r \in page : Cardinality({q \in page : Newer(r.period, q.period)}) = k - 1]

png_source_rows(anchor) == Listed(png_window_filters(anchor), PNG_ROWS)

Ids(list) == [n \in DOMAIN list |-> list[n].id]

-----------------------------------------------------------------------------
(* Taking turns.                                                           *)

Pictured(period) == period \in pictures

At(c, step) == job[c].pc = step
Go(c, step) == job' = [job EXCEPT ![c].pc = step]
Ends(c)     == job' = [job EXCEPT ![c] = Idle] /\ deleted' = deleted \ {c}

Trouble == troubles < MaxTroubles /\ troubles' = troubles + 1
Mishap  == mishaps < MaxMishaps /\ mishaps' = mishaps + 1
Calm    == UNCHANGED <<troubles, mishaps>>

\* write_png_capture: nothing to do where the file is; the rows are selected now.
write_png_capture(c) ==
    /\ job[c] = Idle
    /\ \E r \in rows :
        /\ ~Pictured(r.period)
        /\ job' = [job EXCEPT ![c] = [Idle EXCEPT !.pc = "wait", !.anchor = r.id, !.stem = r.period,
                                        !.wanted = Ids(png_source_rows(r))]]
    /\ UNCHANGED <<meter, rows, lock, task, browser, port, stray, pictures, deleted>> /\ Calm

\* The turn is waited for as long as one capture may take.
render_billing_png(c) ==
    /\ At(c, "wait")
    /\ \/ lock = Nobody /\ lock' = c /\ Go(c, "mint") /\ UNCHANGED deleted
       \/ lock # Nobody /\ UNCHANGED lock /\ Ends(c)
    /\ UNCHANGED <<meter, rows, task, browser, port, stray, pictures>> /\ Calm

\* The token is committed, then the style is read on the same session.
_mint_capture_token(c) ==
    /\ At(c, "mint")
    /\ \E classic \in BOOLEAN :
        job' = [job EXCEPT ![c].pc = "trigger", ![c].token = TRUE, ![c].classic = classic]
    /\ UNCHANGED <<meter, rows, lock, task, browser, port, stray, pictures, deleted>> /\ Calm

\* No Edge, no administrator; or the style cannot be read, and the token, committed
\* but not yet noted for the teardown, is left behind.
MintFails(c) ==
    /\ At(c, "mint") /\ Go(c, "end")
    /\ \/ Trouble /\ UNCHANGED <<stray, mishaps>>
       \/ Mishap /\ stray' = TRUE /\ UNCHANGED troubles
    /\ UNCHANGED <<meter, rows, lock, task, browser, port, pictures, deleted>>

-----------------------------------------------------------------------------
(* The browser.                                                            *)

\* /end first, whatever is left of an earlier capture (it may fail itself); the port
\* file is unlinked; /run, refused while the task runs.
_trigger_capture_browser(c) ==
    /\ At(c, "trigger")
    /\ \E ended \in BOOLEAN :
        LET running == task = "running" /\ ~ended IN
        /\ Go(c, IF running THEN "end" ELSE "port")
        /\ browser' = IF running THEN browser ELSE "starting"
        /\ IF ended THEN Calm ELSE Mishap /\ UNCHANGED troubles
    /\ port' = "none" /\ task' = "running"
    /\ UNCHANGED <<meter, rows, lock, stray, pictures, deleted>>

\* Edge comes up and writes its port, or goes down and leaves the file.
EdgeStarts ==
    /\ browser = "starting" /\ browser' = "up" /\ port' = "live"
    /\ UNCHANGED <<meter, rows, lock, job, task, stray, pictures, deleted>> /\ Calm

Gone == /\ browser' = "none" /\ task' = "ready"
        /\ port' = IF port = "live" THEN "stale" ELSE port

EdgeDies ==
    /\ browser # "none" /\ Trouble /\ Gone
    /\ UNCHANGED <<meter, rows, lock, job, stray, pictures, deleted, mishaps>>

_wait_for_devtools_port(c) ==
    /\ At(c, "port") /\ port # "none"
    /\ job' = [job EXCEPT ![c].pc = "connect", ![c].port = TRUE]
    /\ UNCHANGED <<meter, rows, lock, task, browser, port, stray, pictures, deleted>> /\ Calm

_connect_transport(c) ==
    /\ At(c, "connect") /\ browser = "up" /\ port = "live"
    /\ Go(c, "drive")
    /\ UNCHANGED <<meter, rows, lock, task, browser, port, stray, pictures, deleted>> /\ Calm

-----------------------------------------------------------------------------
(* The page.                                                               *)

\* The window of whichever row has the anchor's id now: a new one, or none.
_capture_anchor(my) == {r \in rows : r.id = my.anchor}

Window(my) == UNION {png_window_filters(r) : r \in _capture_anchor(my)}

\* Mutant: by the bill date alone.
list_billing_readingsByDate(my) ==
    Listed({r \in rows : r.period.at <= my.stem.at}, Len(my.wanted))

\* The Billing page: the window up to the anchor's bill date, as many rows as were
\* selected.
list_billing_readings(my) ==
    Listed({r \in Window(my) : r.period.at <= my.stem.at}, Len(my.wanted))

\* The Classic page: the window alone.
classic_capture_view(my) == Listed(Window(my), PNG_ROWS)

\* The page asks once, after it was navigated to.
PageLoads(c) ==
    /\ At(c, "drive") /\ browser = "up"
    /\ job' = [job EXCEPT ![c].pc = "match", ![c].page =
               IF job[c].classic THEN classic_capture_view(job[c]) ELSE list_billing_readings(job[c])]
    /\ UNCHANGED <<meter, rows, lock, task, browser, port, stray, pictures, deleted>> /\ Calm

\* What was asked for is forgotten; the period names the file.
Done(c, picture) ==
    job' = [job EXCEPT ![c] = [Idle EXCEPT !.pc = "close", !.stem = job[c].stem, !.page = picture,
                                           !.port = job[c].port, !.token = job[c].token]]

ids_match(my) == Ids(my.page) = my.wanted

\* The picture is of what the page shows; a picture not taken is an empty page.
_drive_capture(c) ==
    /\ At(c, "match") /\ browser = "up" /\ ids_match(job[c])
    /\ Done(c, job[c].page)
    /\ UNCHANGED <<meter, rows, lock, task, browser, port, stray, pictures, deleted>> /\ Calm

\* Whether nothing but the deadline is left to wait for.
Hopeless(c) ==
    \/ browser = "none"
    \/ At(c, "match") /\ ~ids_match(job[c])

\* A deadline passes or a call fails; a renderer that is wedged has the hard
\* deadline cancel the capture.  The teardown follows in each case.
Overrun(c) ==
    /\ job[c].pc \in {"port", "connect", "drive", "match"}
    /\ Done(c, <<>>)
    /\ IF Hopeless(c) THEN Calm ELSE Trouble /\ UNCHANGED mishaps
    /\ UNCHANGED <<meter, rows, lock, task, browser, port, stray, pictures, deleted>>

-----------------------------------------------------------------------------
(* The teardown: each step in spite of the one before.                     *)

\* The next caller's turn, whether there is a picture or not.
Release(c) ==
    /\ lock' = Nobody
    /\ IF job[c].page = <<>> THEN Ends(c)
       ELSE job' = [job EXCEPT ![c].pc = "write", ![c].token = FALSE] /\ UNCHANGED deleted

\* Mutant: a cancellation that arrives here goes through.
CloseFailsThrough(c) ==
    /\ At(c, "close") /\ job[c].port /\ Trouble /\ Release(c)
    /\ stray' = (stray \/ job[c].token)
    /\ UNCHANGED <<meter, rows, task, browser, port, pictures, mishaps>>

\* Browser.close is not answered, or the hard deadline passes here: swallowed.
CloseFails(c) ==
    /\ At(c, "close") /\ job[c].port
    /\ IF browser = "none" THEN Calm ELSE Trouble /\ UNCHANGED mishaps
    /\ Go(c, "end")
    /\ UNCHANGED <<meter, rows, lock, task, browser, port, stray, pictures, deleted>>

_close_browser_over_cdp(c) ==
    /\ At(c, "close")
    /\ IF job[c].port /\ browser = "up" THEN Gone
       ELSE ~job[c].port /\ UNCHANGED <<task, browser, port>>
    /\ Go(c, "end")
    /\ UNCHANGED <<meter, rows, lock, stray, pictures, deleted>> /\ Calm

\* /end, unless it cannot be run.
_end_capture_task(c) ==
    /\ At(c, "end") /\ Go(c, "token")
    /\ \/ Gone /\ Calm
       \/ Mishap /\ UNCHANGED <<task, browser, port, troubles>>
    /\ UNCHANGED <<meter, rows, lock, stray, pictures, deleted>>

\* A token's row that cannot be deleted is left to expire.
_delete_capture_token(c) ==
    /\ At(c, "token") /\ Release(c)
    /\ \/ UNCHANGED stray /\ Calm
       \/ job[c].token /\ Mishap /\ stray' = TRUE /\ UNCHANGED troubles
    /\ UNCHANGED <<meter, rows, task, browser, port, pictures>>

\* O_EXCL: an image that is there stays.
Write(c) ==
    /\ At(c, "write") /\ Ends(c)
    /\ pictures' = pictures \cup {job[c].stem}
    /\ UNCHANGED <<meter, rows, lock, task, browser, port, stray>> /\ Calm

-----------------------------------------------------------------------------
\* The process dies and comes back; the task, the browser, its port file and the
\* tokens are outside it.
Restart ==
    /\ lock # Nobody /\ Mishap
    /\ stray' = (stray \/ \E c \in Caller : job[c].token)
    /\ job' = [c \in Caller |-> Idle] /\ lock' = Nobody /\ deleted' = {}
    /\ UNCHANGED <<meter, rows, task, browser, port, pictures, troubles>>

Renders(c) ==
    \/ _mint_capture_token(c) \/ MintFails(c)
    \/ _trigger_capture_browser(c) \/ _wait_for_devtools_port(c) \/ _connect_transport(c)
    \/ PageLoads(c) \/ _drive_capture(c) \/ Overrun(c)
    \/ _close_browser_over_cdp(c) \/ CloseFails(c)
    \/ _end_capture_task(c) \/ _delete_capture_token(c) \/ Write(c)

Next ==
    \/ \E c \in Caller : Renders(c) \/ write_png_capture(c) \/ render_billing_png(c)
    \/ EdgeStarts \/ EdgeDies \/ Restart
    \/ StoreBilling \/ clear_readings

GoesOn == \/ \E c \in Caller : Renders(c) \/ (render_billing_png(c) /\ lock' = c)
          \/ EdgeStarts

-----------------------------------------------------------------------------
TypeOK ==
    /\ meter \subseteq Period
    /\ rows \subseteq [id : 1 .. MaxId, period : Period]
    /\ lock \in Caller \cup {Nobody}
    /\ task \in {"ready", "running"} /\ browser \in {"none", "starting", "up"}
    /\ port \in {"none", "live", "stale"}
    /\ stray \in BOOLEAN
    /\ troubles \in 0 .. MaxTroubles /\ mishaps \in 0 .. MaxMishaps

(* An image shows the period it is named for as its newest, then what the  *)
(* meter closed before it without a gap, and never the newer one of its    *)
(* second: though the page is asked long after the rows were selected.     *)
(* Only rows deleted, and their ids used again, in the middle of the       *)
(* capture can break this (both styles: the gate compares ids).            *)
PictureShowsItsPeriods ==
    [][\A c \in Caller : At(c, "write") /\ c \notin deleted /\ pictures' # pictures =>
        LET shown == [k \in DOMAIN job[c].page |-> job[c].page[k].period]
            n     == Len(shown)
        IN  job'[c] = Idle =>
              /\ shown[n] = job[c].stem
              /\ \A k \in 1 .. n - 1 :
                   /\ Newer(shown[k + 1], shown[k])
                   /\ ~\E p \in meter : Newer(p, shown[k]) /\ Newer(shown[k + 1], p)]_vars

(* Wherever a capture is cancelled or fails, when its turn is over there   *)
(* is no browser, no running task and no token of it left;                 *)
(* only a teardown step that itself fails, or the death of the process,    *)
(* leaves one.                                                             *)
NothingIsLeftBehind ==
    lock = Nobody /\ mishaps = 0 =>
        browser = "none" /\ task = "ready" /\ ~stray

(* Whatever failed and wherever the process died, in the end every stored  *)
(* period has its image, the older one of a pair too: what the page lists  *)
(* and what was selected come to agree, and a task left running or a port  *)
(* file left behind does not keep the next captures out.                   *)
EveryPeriodIsPictured == <>[](\A r \in rows : Pictured(r.period))
=============================================================================
