------------------------------ MODULE FileUpload ------------------------------
(***************************************************************************)
(* The File Upload Destination (fileupload/cycle.py, manifest.py, the      *)
(* three transports, api/file_upload.py).  A cycle of the Scheduler, or of *)
(* Upload now on its one-shot lane, reads the Upload Manifest of the       *)
(* server, sends each local file whose digest the manifest does not name,  *)
(* and writes the manifest with what it sent.  The machine remembers       *)
(* nothing.  Meanwhile files are rewritten, operators save tabs and pin    *)
(* keys, operations fail half done and the process may stop.               *)
(***************************************************************************)
EXTENDS Naturals, FiniteSetsExt

CONSTANTS
    Protocol,     \* of "sftp", "ftps" and "https"
    Root, Fixed,  \* remote roots; where HTTPS keeps its manifest, whatever the root
    Key, NoKey,   \* host keys
    MaxFile,      \* files: export files first, then capture documents
    MaxVersion,   \* bound: contents of a file, none of which comes back
    MaxMishaps    \* bound: failures, crashes, and what operators change

File    == 1 .. MaxFile
Absent  == 0
Torn    == MaxVersion + 1       \* what an upload cut short leaves
Nothing == [f \in File |-> Absent]
Outcome == {"success", "skipped"}

VARIABLES
    local,      \* the content of each file here
    remote,     \* and under each root
    manifests,  \* per place: the digest of each file; an unreadable one names none
    there,      \* the places that hold a manifest that can be read
    setting,    \* the active tab; per tab, whether a host is saved, and its root
    pinned,     \* the host key that the operator accepted
    key,        \* the one that the server presents
    work,       \* the cycle
    last,       \* the outcome on the status card
    betrayed,   \* history: a failure or an operator made a manifest say what is not so
    mishaps

vars == <<local, remote, manifests, there, setting, pinned, key, work, last, betrayed, mishaps>>
world == <<local, setting, pinned, key>>

Place == Root \cup {Fixed}
Idle  == [pc |-> "idle", protocol |-> "none", root |-> Fixed, pinned |-> NoKey, todo |-> {},
          read |-> FALSE, known |-> Nothing, digest |-> Absent, sent |-> Nothing,
          outcome |-> "success"]
Work  == [pc : {"idle", "read", "file", "put", "manifest"}, protocol : Protocol \cup {"none"},
          root : Place, pinned : Key \cup {NoKey}, todo : SUBSET File, read : BOOLEAN,
          known : [File -> 0 .. MaxVersion], digest : 0 .. MaxVersion,
          sent : [File -> 0 .. MaxVersion], outcome : Outcome]

TypeOK ==
    /\ local \in [File -> 0 .. MaxVersion] /\ remote \in [Root -> [File -> 0 .. Torn]]
    /\ manifests \in [Place -> [File -> 0 .. MaxVersion]] /\ there \subseteq Place
    /\ setting \in [active : Protocol \cup {"none"}, host : [Protocol -> BOOLEAN],
                    root : [Protocol -> Root]]
    /\ pinned \in Key \cup {NoKey} /\ key \in Key
    /\ work \in Work /\ last \in Outcome \cup {"none", "not_configured"}
    /\ betrayed \in BOOLEAN /\ mishaps \in 0 .. MaxMishaps

Init ==
    /\ local = Nothing /\ remote = [r \in Root |-> Nothing]
    /\ manifests = [p \in Place |-> Nothing] /\ there = {}
    /\ setting \in [active : {"none"}, host : [Protocol -> {FALSE}], root : [Protocol -> Root]]
    /\ pinned = NoKey /\ key = CHOOSE k \in Key : TRUE
    /\ work = Idle /\ last = "none" /\ betrayed = FALSE /\ mishaps = 0

Happens == mishaps < MaxMishaps /\ mishaps' = mishaps + 1

\* The HTTPS manifest is not under the root.
ManifestAt(protocol, root) == IF protocol = "https" THEN Fixed ELSE root

-----------------------------------------------------------------------------
(* The machine, the operator and the server.                               *)

Rewrite(f) ==
    /\ local[f] < MaxVersion /\ local' = [local EXCEPT ![f] = @ + 1]
    /\ UNCHANGED <<remote, manifests, there, setting, pinned, key, work, last, betrayed, mishaps>>

\* put_file_upload_*: the tab saved last is active; an empty host is refused on any
\* other tab.  Uploads are switched on for nothing, what follows is a change of mind.
put_tab(p, host, root) ==
    /\ host \/ setting.active = p
    /\ setting' = [active |-> p, host |-> [setting.host EXCEPT ![p] = host],
                   root |-> [setting.root EXCEPT ![p] = root]]
    /\ setting' # setting
    /\ IF setting.active = "none" THEN UNCHANGED mishaps ELSE Happens
    /\ betrayed' = (betrayed \/ (p = "https" /\ root # setting.root[p] /\ (Fixed \in there \/ work # Idle)))
    /\ UNCHANGED <<local, remote, manifests, there, pinned, key, work, last>>

\* The operator accepts the key that check_sftp_connection showed.
pin_file_upload_sftp_host_key ==
    /\ pinned # key /\ pinned' = key
    /\ UNCHANGED <<local, remote, manifests, there, setting, key, work, last, betrayed, mishaps>>

ServerKeyChanges(k) ==
    /\ Happens /\ k # key /\ key' = k
    /\ UNCHANGED <<local, remote, manifests, there, setting, pinned, work, last, betrayed>>

\* The site empties the folder at the server; a cycle on its way does not notice.
Wipe ==
    /\ Happens /\ there # {}
    /\ remote' = [r \in Root |-> Nothing] /\ there' = {}
    /\ manifests' = [p \in Place |-> Nothing]
    /\ betrayed' = (betrayed \/ work # Idle)
    /\ UNCHANGED <<world, work, last>>

-----------------------------------------------------------------------------
(* The transport.  Every operation opens a connection of its own.          *)

\* _open: a key that is not the pinned one is refused before anything is sent.
Reachable == work.protocol = "sftp" => work.pinned = key
Manifest_ == ManifestAt(work.protocol, work.root)
Current   == Min(work.todo)

PutIn(content) == remote' = [remote EXCEPT ![work.root][Current] = content]

\* An upload is cut short: nothing arrived, some of it, or all but the answer.
CutPut ==
    \/ UNCHANGED <<remote, betrayed>>
    \/ /\ Reachable /\ local[Current] # Absent
       /\ PutIn(Torn) \/ PutIn(local[Current])
       /\ betrayed' = (betrayed \/ \E p \in there : manifests[p][Current] # Absent /\
                                      manifests[p][Current] >= work.digest)

WriteIn(entries) ==
    /\ manifests' = [manifests EXCEPT ![Manifest_] = entries]
    /\ there' = there \cup {Manifest_}

\* What was read, plus what was sent.
Merged == [f \in File |-> IF work.sent[f] # Absent THEN work.sent[f] ELSE work.known[f]]

CutWrite ==
    \/ UNCHANGED <<manifests, there>>
    \/ Reachable /\ WriteIn(Merged)
    \/ /\ Reachable /\ manifests' = [manifests EXCEPT ![Manifest_] = Nothing]
       /\ there' = there \ {Manifest_}

-----------------------------------------------------------------------------
(* The cycle.                                                              *)

Configured == setting.active # "none" /\ setting.host[setting.active]

NotConfigured ==
    /\ work = Idle /\ ~Configured
    /\ last' = "not_configured" /\ last # last'
    /\ UNCHANGED <<world, remote, manifests, there, work, betrayed, mishaps>>

\* The settings are read, the folders are listed.
Start ==
    /\ work = Idle /\ Configured
    /\ work' = [Idle EXCEPT !.pc = "read", !.protocol = setting.active,
                  !.root = setting.root[setting.active], !.pinned = pinned,
                  !.todo = {f \in File : local[f] # Absent}]
    /\ UNCHANGED <<world, remote, manifests, there, last, betrayed, mishaps>>

\* A manifest that is missing or cannot be read means: send everything.
ReadManifest ==
    /\ work.pc = "read" /\ Reachable
    /\ work' = [work EXCEPT !.pc = "file", !.read = Manifest_ \in there,
                            !.known = manifests[Manifest_]]
    /\ UNCHANGED <<world, remote, manifests, there, last, betrayed, mishaps>>

ReadFails ==
    /\ work.pc = "read" /\ IF Reachable THEN Happens ELSE UNCHANGED mishaps
    /\ work' = [work EXCEPT !.pc = "file"]
    /\ UNCHANGED <<world, remote, manifests, there, last, betrayed>>

Skipped == work' = [work EXCEPT !.pc = "manifest", !.outcome = "skipped"]

\* The digest is what decides; it is taken before the file is sent.
Digest ==
    /\ work.pc = "file" /\ work.todo # {}
    /\ work' = IF work.known[Current] = local[Current]
               THEN [work EXCEPT !.todo = @ \ {Current}]
               ELSE [work EXCEPT !.pc = "put", !.digest = local[Current]]
    /\ UNCHANGED <<world, remote, manifests, there, last, betrayed, mishaps>>

\* A file that is locked or gone raises, and the cycle sends no more.
DigestFails ==
    /\ work.pc = "file" /\ work.todo # {} /\ Happens /\ Skipped
    /\ UNCHANGED <<world, remote, manifests, there, last, betrayed>>

\* The last file is done; or the budget is, which sending takes.
SentAll ==
    /\ work.pc = "file"
    /\ IF work.todo = {} \/ work.sent # Nothing THEN UNCHANGED mishaps ELSE Happens
    /\ work' = [work EXCEPT !.pc = "manifest"]
    /\ UNCHANGED <<world, remote, manifests, there, last, betrayed>>

\* Mutant: the digest is taken of the file as it is when it has arrived.
PutLateDigest ==
    /\ work.pc = "put" /\ Reachable
    /\ PutIn(work.digest)
    /\ work' = [work EXCEPT !.pc = "file", !.todo = @ \ {Current}, !.digest = Absent,
                            !.sent[Current] = local[Current]]
    /\ UNCHANGED <<world, manifests, there, last, betrayed, mishaps>>

\* The file is read again as it is sent.
Put ==
    /\ work.pc = "put" /\ Reachable
    /\ PutIn(local[Current])
    /\ work' = [work EXCEPT !.pc = "file", !.todo = @ \ {Current}, !.digest = Absent,
                            !.sent[Current] = work.digest]
    /\ UNCHANGED <<world, manifests, there, last, betrayed, mishaps>>

PutFails ==
    /\ work.pc = "put" /\ IF Reachable THEN Happens ELSE UNCHANGED mishaps
    /\ CutPut /\ Skipped
    /\ UNCHANGED <<world, manifests, there, last>>

Ends(outcome) == work' = Idle /\ last' = outcome

\* Mutant: the manifest is written when there is nothing left to send.
WriteManifestWhole ==
    /\ work.pc = "manifest"
    /\ IF work.todo # {} \/ (work.read /\ work.sent = Nothing) THEN UNCHANGED <<manifests, there>>
       ELSE Reachable /\ WriteIn(Merged)
    /\ Ends(work.outcome)
    /\ UNCHANGED <<world, remote, betrayed, mishaps>>

\* Whatever became of the files, the manifest names what arrived; it is not written
\* when it would say what it says.
WriteManifest ==
    /\ work.pc = "manifest"
    /\ IF work.read /\ work.sent = Nothing THEN UNCHANGED <<manifests, there>>
       ELSE Reachable /\ WriteIn(Merged)
    /\ Ends(work.outcome)
    /\ UNCHANGED <<world, remote, betrayed, mishaps>>

WriteFails ==
    /\ work.pc = "manifest" /\ ~(work.read /\ work.sent = Nothing)
    /\ IF Reachable THEN Happens ELSE UNCHANGED mishaps
    /\ CutWrite /\ Ends("skipped")
    /\ UNCHANGED <<world, remote, betrayed>>

\* The process stops, in the middle of an operation if need be.
Crash ==
    /\ Happens /\ work # Idle
    /\ IF work.pc = "put" THEN CutPut ELSE UNCHANGED <<remote, betrayed>>
    /\ IF work.pc = "manifest" THEN CutWrite ELSE UNCHANGED <<manifests, there>>
    /\ work' = Idle /\ last' = "none"
    /\ UNCHANGED world

Goes ==
    \/ Start \/ ReadManifest \/ ReadFails \/ Digest \/ DigestFails \/ SentAll
    \/ Put \/ PutFails \/ WriteManifest \/ WriteFails

Next ==
    \/ \E f \in File : Rewrite(f)
    \/ \E p \in Protocol, host \in BOOLEAN, root \in Root : put_tab(p, host, root)
    \/ pin_file_upload_sftp_host_key \/ Wipe
    \/ \E k \in Key : ServerKeyChanges(k)
    \/ NotConfigured \/ Goes \/ Crash

Spec == Init /\ [][Next]_vars

\* The job runs every fifteen minutes; an operation ends, by its timeout if need be.
Fairness == WF_vars(Goes)

FairSpec == Spec /\ Fairness

-----------------------------------------------------------------------------
(* What a cycle would skip as unchanged, the server has: whatever order    *)
(* files were rewritten, digested, sent and recorded in, and wherever a    *)
(* cycle stopped.                                                          *)
ManifestTellsTruth ==
    ~betrayed => \A p \in Protocol, f \in File :
        LET root == setting.root[p]  entry == manifests[ManifestAt(p, root)][f] IN
        entry # Absent /\ entry = local[f] => remote[root][f] = local[f]

\* manifest.py: "last-known state at the server"; nothing is excused.
ManifestNamesServerState ==
    \A p \in Protocol, f \in File :
        LET root == setting.root[p]  entry == manifests[ManifestAt(p, root)][f] IN
        entry # Absent /\ entry = local[f] => remote[root][f] = local[f]

\* manifest.py: "An entry is never removed."
EntriesAreNeverRemoved ==
    [][there' = there => \A p \in there, f \in File :
           manifests[p][f] # Absent => manifests'[p][f] # Absent]_vars

Served == Configured /\ (setting.active = "sftp" => pinned = key)

(* The server comes to hold every file as it is here, through failures of  *)
(* every operation, budgets that end a cycle, crashes, a changed host key, *)
(* a wiped folder and a change of protocol.                                *)
ServerCatchesUp ==
    []<>(Served /\ ~betrayed =>
            \A f \in File : remote[setting.root[setting.active]][f] = local[f])
=============================================================================
