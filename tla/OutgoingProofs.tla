----------------------------- MODULE OutgoingProofs -----------------------------
(***************************************************************************)
(* Proofs about the three ways out of the machine, for any number of       *)
(* files, rows, intervals and meters' days, and any window, page, rewind   *)
(* and budget: what a cycle skips, the other side has.                     *)
(*                                                                         *)
(* None of the three properties is inductive, for the same reason: a cycle *)
(* acts on what it read of the other side before, while rows and files     *)
(* change under it.  So each invariant also says what the cycle knows: of  *)
(* what it has read and sent (UInv), of the place that it goes on from     *)
(* (DInv), and of what it is about to send (CInv).                         *)
(***************************************************************************)
EXTENDS Outgoing, NaturalsInduction, WellFoundedInduction, TLAPS

-----------------------------------------------------------------------------
(* The least and the most of a set of numbers.                             *)

LEMMA HasLeast ==
    ASSUME NEW T \in SUBSET Nat, T # {}
    PROVE  \E m \in T : \A y \in T : m <= y
<1>1. PICK x \in T : \A y \in T : ~(<<y, x>> \in OpToRel(<, Nat))
  BY NatLessThanWellFounded, WFMin
<1>2. \A y \in T : ~(y < x)
  BY <1>1 DEF OpToRel
<1> QED BY <1>2

LEMMA HasMost ==
    ASSUME NEW n \in Nat, NEW T \in SUBSET (0 .. n), T # {}
    PROVE  /\ D!Max(T) \in T /\ \A y \in T : D!Max(T) >= y
           /\ C!Max(T) \in T /\ \A y \in T : C!Max(T) >= y
<1> DEFINE Down == {m \in Nat : n - m \in T}
<1>1. Down \in SUBSET Nat /\ Down # {}
  <2> PICK t \in T : TRUE
    OBVIOUS
  <2>1. n - t \in Nat /\ n - (n - t) = t
    OBVIOUS
  <2> QED BY <2>1
<1>2. PICK m \in Down : \A y \in Down : m <= y
  <2> HIDE DEF Down
  <2> QED BY <1>1, HasLeast
<1>3. n - m \in T /\ m \in Nat
  OBVIOUS
<1>4. \A y \in T : n - m >= y
  <2> TAKE y \in T
  <2>0. y \in 0 .. n
    OBVIOUS
  <2>1. n - y \in Down
    BY <2>0
  <2>2. m <= n - y
    BY <1>2, <2>1
  <2> HIDE DEF Down
  <2> QED BY <2>0, <2>2, <1>3
<1> QED BY <1>3, <1>4 DEF D!Max, C!Max

-----------------------------------------------------------------------------
(* Files to a server.                                                      *)

Https == "https"

\* What a place says of a file that is as it is here, the root that it speaks for has.
TrueOf(entries, root) ==
    \A f \in F!File : entries[f] # F!Absent /\ entries[f] = local[f] => remote[root][f] = local[f]

\* A digest is of the file as it is, or as it was.
Past(entries) == entries \in [F!File -> Nat] /\ \A f \in F!File : entries[f] <= local[f]

ManifestsArePast ==
    \A p \in F!Place : Past(manifests[p]) /\ (p \notin there => manifests[p] = F!Nothing)

ManifestsAreTrue ==
    /\ \A r \in Root : TrueOf(manifests[r], r)
    /\ Https \in Protocol => TrueOf(manifests[Fixed], setting.root[Https])

\* What a cycle has read and sent.
CycleIsPast ==
    /\ Past(upload_work.known) /\ Past(upload_work.sent)
    /\ upload_work.todo \subseteq F!File
    /\ \A f \in upload_work.todo : upload_work.sent[f] = F!Absent
    /\ upload_work.pc = "put" =>
         /\ upload_work.todo # {} /\ upload_work.digest \in Nat /\ upload_work.digest <= local[F!Current]
         /\ upload_work.known[F!Current] = F!Absent \/ upload_work.known[F!Current] < upload_work.digest

CycleIsTrue ==
    upload_work # F!Idle => /\ TrueOf(upload_work.known, upload_work.root)
                            /\ TrueOf(upload_work.sent, upload_work.root)
                            /\ upload_work.protocol = Https => upload_work.root = setting.root[Https]

UploadTypes ==
    /\ local \in [F!File -> Nat]
    /\ remote \in [Root -> [F!File -> Nat]]
    /\ DOMAIN manifests = F!Place /\ there \subseteq F!Place
    /\ setting.active \in Protocol \cup {"none"} /\ DOMAIN setting.root = Protocol
    /\ \A p \in Protocol : setting.root[p] \in Root
    /\ betrayed \in BOOLEAN
    /\ upload_work # F!Idle => upload_work.root \in Root /\ upload_work.protocol \in Protocol
    /\ {"pc", "read", "todo", "known", "digest", "sent", "outcome"} \subseteq DOMAIN upload_work
    /\ upload_work.pc = "idle" => upload_work = F!Idle

UInv ==
    /\ UploadTypes /\ ManifestsArePast /\ CycleIsPast
    /\ ~betrayed => ManifestsAreTrue /\ CycleIsTrue

-----------------------------------------------------------------------------
(* What a file upload's cycle is about: a file not dealt with yet.         *)

LEMMA CurrentIsDue ==
    ASSUME upload_work.todo \subseteq F!File, upload_work.todo # {}
    PROVE  F!Current \in upload_work.todo /\ F!Current \in F!File
<1>1. upload_work.todo \in SUBSET Nat
  BY OutgoingAssumption DEF F!File
<1>2. PICK m \in upload_work.todo : \A y \in upload_work.todo : m <= y
  BY <1>1, HasLeast
<1> QED BY <1>2 DEF F!Current, F!Min

LEMMA NothingIsPast ==
    /\ F!Nothing \in [F!File -> Nat]
    /\ \A f \in F!File : F!Nothing[f] = F!Absent
BY DEF F!Nothing, F!Absent

LEMMA IdleCycle ==
    /\ F!Idle.pc = "idle" /\ F!Idle.todo = {} /\ F!Idle.known = F!Nothing /\ F!Idle.sent = F!Nothing
    /\ {"pc", "read", "todo", "known", "digest", "sent", "outcome"} \subseteq DOMAIN F!Idle
BY DEF F!Idle

LEMMA UploadStarts == F!Init => UInv
<1> SUFFICES ASSUME F!Init PROVE UInv
  OBVIOUS
<1>1. UploadTypes
  <2>1. local \in [F!File -> Nat] /\ remote \in [Root -> [F!File -> Nat]]
    BY NothingIsPast DEF F!Init
  <2>2. DOMAIN manifests = F!Place /\ there \subseteq F!Place /\ betrayed \in BOOLEAN
    BY DEF F!Init
  <2>3. /\ setting.active \in Protocol \cup {"none"} /\ DOMAIN setting.root = Protocol
        /\ \A p \in Protocol : setting.root[p] \in Root
    BY DEF F!Init
  <2>4. upload_work = F!Idle
    BY DEF F!Init
  <2> QED BY <2>1, <2>2, <2>3, <2>4, IdleCycle DEF UploadTypes
<1>2. ManifestsArePast
  BY NothingIsPast DEF F!Init, ManifestsArePast, Past, F!Absent
<1>3. CycleIsPast
  <2>1. upload_work = F!Idle /\ local = F!Nothing
    BY DEF F!Init
  <2> QED BY <2>1, IdleCycle, NothingIsPast DEF CycleIsPast, Past, F!Absent
<1>4. ManifestsAreTrue
  <2>1. manifests = [p \in F!Place |-> F!Nothing]
    BY DEF F!Init
  <2>2. \A p \in F!Place : manifests[p] = F!Nothing
    BY <2>1
  <2>3. \A r : TrueOf(F!Nothing, r)
    BY NothingIsPast DEF TrueOf
  <2>4. Fixed \in F!Place /\ Root \subseteq F!Place
    BY DEF F!Place
  <2> QED BY <2>2, <2>3, <2>4 DEF ManifestsAreTrue
<1>5. CycleIsTrue
  BY DEF F!Init, CycleIsTrue
<1> QED BY <1>1, <1>2, <1>3, <1>4, <1>5 DEF UInv

LEMMA FileChanges ==
    ASSUME UInv, NEW f \in F!File, F!Rewrite(f)
    PROVE  UInv'
<1> USE DEF UInv, F!Rewrite
<1>0. local \in [F!File -> Nat] /\ local' = [local EXCEPT ![f] = local[f] + 1]
  BY DEF UploadTypes
<1>1. /\ local' \in [F!File -> Nat] /\ local'[f] = local[f] + 1
      /\ \A g \in F!File : local[g] <= local'[g] /\ (g # f => local'[g] = local[g])
  BY <1>0
<1>2. ASSUME NEW e, Past(e)
      PROVE  e \in [F!File -> Nat] /\ \A g \in F!File : e[g] <= local'[g]
  BY <1>0, <1>1, <1>2 DEF Past
<1>3. ASSUME NEW e, NEW r, Past(e), TrueOf(e, r)
      PROVE  \A g \in F!File : e[g] # F!Absent /\ e[g] = local'[g] => remote[r][g] = local'[g]
  BY <1>0, <1>1, <1>3 DEF Past, TrueOf
<1>4. UploadTypes'
  BY <1>1 DEF UploadTypes
<1>5. ManifestsArePast'
  BY <1>2 DEF ManifestsArePast, Past
<1>6. CycleIsPast'
  <2>1. Past(upload_work.known)' /\ Past(upload_work.sent)'
    BY <1>2 DEF CycleIsPast, Past
  <2>2. ASSUME upload_work.pc = "put"
        PROVE  upload_work.digest \in Nat /\ upload_work.digest <= local'[F!Current]
    <3>1. upload_work.digest \in Nat /\ upload_work.digest <= local[F!Current] /\ F!Current \in F!File
      BY <2>2, CurrentIsDue DEF CycleIsPast
    <3> QED BY <3>1, <1>0, <1>1
  <2> QED BY <2>1, <2>2 DEF CycleIsPast, F!Current
<1>7. ASSUME ~betrayed' PROVE ManifestsAreTrue' /\ CycleIsTrue'
  <2>0. ManifestsAreTrue /\ CycleIsTrue
    BY <1>7
  <2>1. ManifestsAreTrue'
    <3>0. Fixed \in F!Place /\ Root \subseteq F!Place
      BY DEF F!Place
    <3>1. ASSUME NEW r \in Root PROVE TrueOf(manifests[r], r)'
      <4>1. Past(manifests[r]) /\ TrueOf(manifests[r], r)
        BY <2>0, <3>0 DEF ManifestsAreTrue, ManifestsArePast
      <4>2. \A g \in F!File : manifests[r][g] # F!Absent /\ manifests[r][g] = local'[g]
                               => remote[r][g] = local'[g]
        BY <4>1, <1>3
      <4> QED BY <4>2 DEF TrueOf
    <3>2. ASSUME Https \in Protocol PROVE TrueOf(manifests[Fixed], setting.root[Https])'
      <4>1. Past(manifests[Fixed]) /\ TrueOf(manifests[Fixed], setting.root[Https])
        BY <2>0, <3>0, <3>2 DEF ManifestsAreTrue, ManifestsArePast
      <4>2. \A g \in F!File : manifests[Fixed][g] # F!Absent /\ manifests[Fixed][g] = local'[g]
                               => remote[setting.root[Https]][g] = local'[g]
        BY <4>1, <1>3
      <4> QED BY <4>2 DEF TrueOf
    <3> QED BY <3>1, <3>2 DEF ManifestsAreTrue
  <2>2. CycleIsTrue'
    <3> SUFFICES ASSUME upload_work # F!Idle
                 PROVE  /\ TrueOf(upload_work.known, upload_work.root)'
                        /\ TrueOf(upload_work.sent, upload_work.root)'
                        /\ (upload_work.protocol = Https => upload_work.root = setting.root[Https])
      BY DEF CycleIsTrue
    <3>1. /\ Past(upload_work.known) /\ TrueOf(upload_work.known, upload_work.root)
          /\ Past(upload_work.sent) /\ TrueOf(upload_work.sent, upload_work.root)
          /\ (upload_work.protocol = Https => upload_work.root = setting.root[Https])
      BY <2>0 DEF CycleIsTrue, CycleIsPast
    <3>2. \A g \in F!File : upload_work.known[g] # F!Absent /\ upload_work.known[g] = local'[g]
                               => remote[upload_work.root][g] = local'[g]
      BY <3>1, <1>3
    <3>3. \A g \in F!File : upload_work.sent[g] # F!Absent /\ upload_work.sent[g] = local'[g]
                               => remote[upload_work.root][g] = local'[g]
      BY <3>1, <1>3
    <3> QED BY <3>1, <3>2, <3>3 DEF TrueOf
  <2> QED BY <2>1, <2>2
<1> QED BY <1>4, <1>5, <1>6, <1>7

LEMMA TabIsSaved ==
    ASSUME UInv, NEW p \in Protocol, NEW host \in BOOLEAN, NEW root \in Root, F!put_tab(p, host, root)
    PROVE  UInv'
<1> USE DEF UInv
<1>0. /\ UNCHANGED <<local, remote, manifests, there, upload_work>>
      /\ betrayed' = (betrayed \/ (p = Https /\ root # setting.root[p]
                                    /\ (Fixed \in there \/ upload_work # F!Idle)))
  BY DEF F!put_tab, Https
<1>1. /\ setting'.active = p /\ setting'.root = [setting.root EXCEPT ![p] = root]
  BY DEF F!put_tab
<1>2. /\ DOMAIN setting'.root = Protocol
      /\ \A q \in Protocol : setting'.root[q] = IF q = p THEN root ELSE setting.root[q]
  BY <1>1 DEF UploadTypes
<1>3. UploadTypes'
  BY <1>0, <1>1, <1>2 DEF UploadTypes
<1>4. ManifestsArePast' /\ CycleIsPast'
  BY <1>0 DEF ManifestsArePast, CycleIsPast, Past, F!Current
<1>5. ASSUME ~betrayed' PROVE ManifestsAreTrue' /\ CycleIsTrue'
  <2>0. ManifestsAreTrue /\ CycleIsTrue
    BY <1>5, <1>0
  <2>1. \/ Https \in Protocol => setting'.root[Https] = setting.root[Https]
        \/ Fixed \notin there /\ upload_work = F!Idle
    BY <1>0, <1>2, <1>5
  <2>2. CASE Https \in Protocol => setting'.root[Https] = setting.root[Https]
    <3>1. upload_work' # F!Idle /\ upload_work'.protocol = Https => Https \in Protocol
      BY <1>0 DEF UploadTypes
    <3> QED BY <2>0, <2>2, <3>1, <1>0 DEF ManifestsAreTrue, CycleIsTrue, TrueOf
  <2>3. CASE Fixed \notin there /\ upload_work = F!Idle
    <3>1. manifests'[Fixed] = F!Nothing
      BY <1>0, <2>3 DEF ManifestsArePast, F!Place
    <3> QED BY <2>0, <2>3, <3>1, <1>0, NothingIsPast DEF ManifestsAreTrue, CycleIsTrue, TrueOf
  <2> QED BY <2>1, <2>2, <2>3
<1> QED BY <1>3, <1>4, <1>5

LEMMA FolderIsEmptied ==
    ASSUME UInv, F!Wipe
    PROVE  UInv'
<1> USE DEF UInv
<1>0. /\ UNCHANGED <<local, setting, upload_work>>
      /\ remote' = [r \in Root |-> F!Nothing] /\ there' = {}
      /\ manifests' = [q \in F!Place |-> F!Nothing]
      /\ betrayed' = (betrayed \/ upload_work # F!Idle)
  BY DEF F!Wipe, F!world
<1>1. UploadTypes'
  BY <1>0, NothingIsPast DEF UploadTypes
<1>2. local \in [F!File -> Nat]
  BY DEF UploadTypes
<1>3. ManifestsArePast'
  BY <1>0, <1>2, NothingIsPast DEF ManifestsArePast, Past, F!Absent
<1>4. CycleIsPast'
  BY <1>0 DEF CycleIsPast, Past, F!Current
<1>5. ManifestsAreTrue'
  <2>1. \A q \in F!Place : manifests'[q] = F!Nothing
    BY <1>0
  <2>2. Fixed \in F!Place /\ Root \subseteq F!Place
    BY DEF F!Place
  <2> QED BY <2>1, <2>2, NothingIsPast DEF ManifestsAreTrue, TrueOf
<1>6. ~betrayed' => CycleIsTrue'
  BY <1>0 DEF CycleIsTrue
<1> QED BY <1>1, <1>3, <1>4, <1>5, <1>6

\* Keys, and the cycle that finds nothing to do.
LEMMA NothingIsTouched ==
    ASSUME UInv, UNCHANGED <<local, remote, manifests, there, setting, upload_work, betrayed>>
    PROVE  UInv'
BY DEF UInv, UploadTypes, ManifestsArePast, ManifestsAreTrue, CycleIsPast, CycleIsTrue,
       TrueOf, Past, F!Current

-----------------------------------------------------------------------------
(* The cycle: steps that change nothing but what it knows.                 *)

LEMMA CycleMoves ==
    ASSUME UInv, UNCHANGED <<local, remote, manifests, there, setting, betrayed>>,
           CycleIsPast', ~betrayed => CycleIsTrue',
           upload_work' # F!Idle => upload_work'.root \in Root /\ upload_work'.protocol \in Protocol,
           {"pc", "read", "todo", "known", "digest", "sent", "outcome"} \subseteq DOMAIN upload_work',
           upload_work'.pc = "idle" => upload_work' = F!Idle
    PROVE  UInv'
<1>1. UploadTypes' /\ ManifestsArePast'
  BY DEF UInv, UploadTypes, ManifestsArePast, Past
<1>2. ManifestsAreTrue => ManifestsAreTrue'
  BY DEF ManifestsAreTrue, TrueOf
<1> QED BY <1>1, <1>2 DEF UInv

LEMMA CycleStarts ==
    ASSUME UInv, F!Start
    PROVE  UInv'
<1>0. UNCHANGED <<local, remote, manifests, there, setting, betrayed>>
  BY DEF F!Start, F!world
<1>1. /\ upload_work'.pc = "read" /\ upload_work'.known = F!Nothing /\ upload_work'.sent = F!Nothing
      /\ upload_work'.todo \subseteq F!File
      /\ upload_work'.protocol = setting.active /\ upload_work'.root = setting.root[setting.active]
      /\ {"pc", "read", "todo", "known", "digest", "sent", "outcome"} \subseteq DOMAIN upload_work'
  BY DEF F!Start, F!Idle
<1>2. setting.active \in Protocol /\ setting.root[setting.active] \in Root
  BY DEF F!Start, F!Configured, UInv, UploadTypes
<1>3. local \in [F!File -> Nat]
  BY DEF UInv, UploadTypes
<1>4. CycleIsPast'
  BY <1>0, <1>1, <1>3, NothingIsPast DEF CycleIsPast, Past, F!Absent
<1>5. CycleIsTrue'
  BY <1>0, <1>1, NothingIsPast DEF CycleIsTrue, TrueOf
<1> QED BY <1>0, <1>1, <1>2, <1>4, <1>5, CycleMoves

LEMMA ManifestIsRead ==
    ASSUME UInv, F!ReadManifest
    PROVE  UInv'
<1>0. UNCHANGED <<local, remote, manifests, there, setting, betrayed>>
  BY DEF F!ReadManifest, F!world
<1>1. upload_work # F!Idle /\ upload_work.root \in Root /\ upload_work.protocol \in Protocol
  BY IdleCycle DEF F!ReadManifest, UInv, UploadTypes
<1>2. /\ upload_work'.pc = "file" /\ upload_work'.known = manifests[F!Manifest_]
      /\ upload_work'.sent = upload_work.sent
      /\ upload_work'.todo = upload_work.todo
      /\ upload_work'.root = upload_work.root /\ upload_work'.protocol = upload_work.protocol
      /\ DOMAIN upload_work' = DOMAIN upload_work
  BY DEF F!ReadManifest, UInv, UploadTypes
<1>3. F!Manifest_ = IF upload_work.protocol = Https THEN Fixed ELSE upload_work.root
  BY DEF F!Manifest_, F!ManifestAt, Https
<1>4. F!Manifest_ \in F!Place
  BY <1>1, <1>3 DEF F!Place
<1>5. CycleIsPast'
  <2>1. Past(manifests[F!Manifest_])
    BY <1>4 DEF UInv, ManifestsArePast
  <2> HIDE DEF F!Manifest_
  <2> QED BY <1>0, <1>2, <2>1 DEF CycleIsPast, Past, UInv
<1>6. ASSUME ~betrayed PROVE CycleIsTrue'
  <2>0. CycleIsTrue /\ ManifestsAreTrue
    BY <1>6 DEF UInv
  <2>1. TrueOf(manifests[F!Manifest_], upload_work.root)
    BY <1>1, <1>3, <2>0 DEF CycleIsTrue, ManifestsAreTrue
  <2> HIDE DEF F!Manifest_
  <2> QED BY <1>0, <1>1, <1>2, <2>0, <2>1 DEF CycleIsTrue, TrueOf
<1> QED BY <1>0, <1>1, <1>2, <1>5, <1>6, CycleMoves DEF UInv, UploadTypes

\* What was read and what was sent stay; no file is on its way.
LEMMA CycleGoesOn ==
    ASSUME UInv, upload_work # F!Idle, UNCHANGED <<local, remote, manifests, there, setting, betrayed>>,
           upload_work'.pc \in {"file", "manifest"}, upload_work'.todo \subseteq upload_work.todo,
           UNCHANGED <<upload_work.known, upload_work.sent, upload_work.root>>,
           UNCHANGED <<upload_work.protocol, DOMAIN upload_work>>
    PROVE  UInv'
<1>1. CycleIsPast'
  BY DEF UInv, CycleIsPast, Past
<1>2. CycleIsTrue => CycleIsTrue'
  BY DEF CycleIsTrue, TrueOf
<1> QED BY <1>1, <1>2, CycleMoves DEF UInv, UploadTypes

LEMMA ReadingFails ==
    ASSUME UInv, F!ReadFails \/ F!DigestFails \/ F!SentAll
    PROVE  UInv'
<1>0. UNCHANGED <<local, remote, manifests, there, setting, betrayed>>
  BY DEF F!ReadFails, F!DigestFails, F!SentAll, F!world
<1>1. upload_work.pc \in {"read", "file"} /\ upload_work # F!Idle
  BY IdleCycle DEF F!ReadFails, F!DigestFails, F!SentAll
<1>2. "pc" \in DOMAIN upload_work /\ "outcome" \in DOMAIN upload_work
  BY DEF UInv, UploadTypes
<1>3. \/ upload_work' = [upload_work EXCEPT !.pc = "file"] \/ upload_work' = [upload_work EXCEPT !.pc = "manifest"]
      \/ upload_work' = [upload_work EXCEPT !.pc = "manifest", !.outcome = "skipped"]
  BY DEF F!ReadFails, F!DigestFails, F!SentAll, F!Skipped
<1>4. /\ upload_work'.pc \in {"file", "manifest"} /\ upload_work'.todo = upload_work.todo
      /\ UNCHANGED <<upload_work.known, upload_work.sent, upload_work.root>>
      /\ UNCHANGED <<upload_work.protocol, DOMAIN upload_work>>
  <2>1. CASE upload_work' = [upload_work EXCEPT !.pc = "file"]
    BY <1>2, <2>1
  <2>2. CASE upload_work' = [upload_work EXCEPT !.pc = "manifest"]
    BY <1>2, <2>2
  <2>3. CASE upload_work' = [upload_work EXCEPT !.pc = "manifest", !.outcome = "skipped"]
    BY <1>2, <2>3
  <2> QED BY <1>3, <2>1, <2>2, <2>3
<1> QED BY <1>0, <1>1, <1>4, CycleGoesOn

LEMMA FileIsDigested ==
    ASSUME UInv, F!Digest
    PROVE  UInv'
<1>0. UNCHANGED <<local, remote, manifests, there, setting, betrayed>>
  BY DEF F!Digest, F!world
<1>1. upload_work # F!Idle /\ upload_work.pc = "file" /\ upload_work.todo # {}
  BY IdleCycle DEF F!Digest
<1>2. {"pc", "todo", "digest"} \subseteq DOMAIN upload_work
  BY DEF UInv, UploadTypes
<1>3. F!Current \in upload_work.todo /\ F!Current \in F!File
  BY <1>1, CurrentIsDue DEF UInv, CycleIsPast
<1>4. CASE upload_work.known[F!Current] = local[F!Current]
  <2>1. upload_work' = [upload_work EXCEPT !.todo = upload_work.todo \ {F!Current}]
    BY <1>4 DEF F!Digest
  <2>2. /\ upload_work'.pc = "file" /\ upload_work'.todo \subseteq upload_work.todo
        /\ UNCHANGED <<upload_work.known, upload_work.sent, upload_work.root>>
        /\ UNCHANGED <<upload_work.protocol, DOMAIN upload_work>>
    BY <2>1, <1>1, <1>2
  <2> QED BY <1>0, <1>1, <2>2, CycleGoesOn
<1>5. CASE upload_work.known[F!Current] # local[F!Current]
  <2>1. upload_work' = [upload_work EXCEPT !.pc = "put", !.digest = local[F!Current]]
    BY <1>5 DEF F!Digest
  <2>2. /\ upload_work'.pc = "put" /\ upload_work'.todo = upload_work.todo /\ upload_work'.digest = local[F!Current]
        /\ UNCHANGED <<upload_work.known, upload_work.sent, upload_work.root>>
        /\ UNCHANGED <<upload_work.protocol, DOMAIN upload_work>>
    BY <2>1, <1>2
  <2>3. F!Current' = F!Current
    BY <2>2 DEF F!Current
  <2>4. local[F!Current] \in Nat
    BY <1>3 DEF UInv, UploadTypes
  <2>5. upload_work.known[F!Current] \in Nat /\ upload_work.known[F!Current] <= local[F!Current]
    BY <1>3 DEF UInv, CycleIsPast, Past
  <2>6. upload_work.known[F!Current] < local[F!Current]
    BY <2>4, <2>5, <1>5
  <2>7. CycleIsPast'
    <3>1. /\ Past(upload_work.known)' /\ Past(upload_work.sent)' /\ upload_work'.todo \subseteq F!File
          /\ \A f \in upload_work'.todo : upload_work'.sent[f] = F!Absent
      BY <1>0, <2>2 DEF UInv, CycleIsPast, Past
    <3>2. /\ upload_work'.todo # {} /\ upload_work'.digest \in Nat /\ upload_work'.digest <= local'[F!Current']
          /\ upload_work'.known[F!Current'] < upload_work'.digest
      BY <1>0, <1>1, <2>2, <2>3, <2>4, <2>6
    <3> QED BY <3>1, <3>2 DEF CycleIsPast
  <2>8. CycleIsTrue => CycleIsTrue'
    BY <1>0, <1>1, <2>2 DEF CycleIsTrue, TrueOf
  <2> QED BY <1>0, <1>1, <2>2, <2>7, <2>8, CycleMoves DEF UInv, UploadTypes
<1> QED BY <1>4, <1>5

-----------------------------------------------------------------------------
(* The cycle: what changes the server.                                     *)

\* A put that arrives, whole or torn.
LEMMA RootIsTyped ==
    ASSUME UInv, upload_work # F!Idle, NEW c \in Nat, NEW f \in F!File,
           remote' = [remote EXCEPT ![upload_work.root][f] = c]
    PROVE  /\ remote' \in [Root -> [F!File -> Nat]]
           /\ \A r \in Root, g \in F!File :
                 remote'[r][g] = IF r = upload_work.root /\ g = f THEN c ELSE remote[r][g]
<1>1. remote \in [Root -> [F!File -> Nat]] /\ upload_work.root \in Root
  BY DEF UInv, UploadTypes
<1> QED BY <1>1

LEMMA FileIsPut ==
    ASSUME UInv, F!Put
    PROVE  UInv'
<1>0. UNCHANGED <<local, manifests, there, setting, betrayed>>
  BY DEF F!Put, F!world
<1>1. upload_work # F!Idle /\ upload_work.pc = "put" /\ upload_work.todo # {}
  BY IdleCycle DEF F!Put, UInv, CycleIsPast
<1>2. {"pc", "todo", "digest", "sent"} \subseteq DOMAIN upload_work
  BY DEF UInv, UploadTypes
<1>3. F!Current \in upload_work.todo /\ F!Current \in F!File
  BY <1>1, CurrentIsDue DEF UInv, CycleIsPast
<1>4. /\ upload_work'.pc = "file" /\ upload_work'.todo = upload_work.todo \ {F!Current}
      /\ upload_work'.sent = [upload_work.sent EXCEPT ![F!Current] = upload_work.digest]
      /\ UNCHANGED <<upload_work.known, upload_work.root, upload_work.protocol, DOMAIN upload_work>>
  BY <1>2 DEF F!Put
<1>5. local \in [F!File -> Nat] /\ upload_work.root \in Root /\ upload_work.protocol \in Protocol
  BY <1>1 DEF UInv, UploadTypes
<1>6. /\ remote' \in [Root -> [F!File -> Nat]]
      /\ \A r \in Root, g \in F!File :
            remote'[r][g] = IF r = upload_work.root /\ g = F!Current THEN local[F!Current] ELSE remote[r][g]
  <2>1. remote' = [remote EXCEPT ![upload_work.root][F!Current] = local[F!Current]]
    BY DEF F!Put, F!PutIn
  <2>2. local[F!Current] \in Nat
    BY <1>3, <1>5
  <2> QED BY <2>1, <2>2, <1>1, <1>3, RootIsTyped
<1>7. ASSUME NEW e, NEW r \in Root, TrueOf(e, r)
      PROVE  \A g \in F!File : e[g] # F!Absent /\ e[g] = local[g] => remote'[r][g] = local[g]
  BY <1>6, <1>7 DEF TrueOf
<1>8. /\ upload_work.sent \in [F!File -> Nat] /\ \A g \in F!File : upload_work.sent[g] <= local[g]
      /\ upload_work.digest \in Nat /\ upload_work.digest <= local[F!Current]
  BY <1>1 DEF UInv, CycleIsPast, Past
<1>9. /\ upload_work'.sent \in [F!File -> Nat]
      /\ \A g \in F!File : upload_work'.sent[g] = IF g = F!Current THEN upload_work.digest ELSE upload_work.sent[g]
  BY <1>3, <1>4, <1>8
<1>10. UploadTypes'
  BY <1>0, <1>4, <1>5, <1>6 DEF UInv, UploadTypes
<1>11. ManifestsArePast'
  BY <1>0 DEF UInv, ManifestsArePast, Past
<1>12. CycleIsPast'
  <2>1. Past(upload_work.known)'
    BY <1>0, <1>4 DEF UInv, CycleIsPast, Past
  <2>2. Past(upload_work.sent)'
    BY <1>0, <1>8, <1>9 DEF Past
  <2>3. upload_work'.todo \subseteq F!File /\ \A f \in upload_work'.todo : upload_work'.sent[f] = F!Absent
    BY <1>4, <1>9 DEF UInv, CycleIsPast
  <2> QED BY <1>4, <2>1, <2>2, <2>3 DEF CycleIsPast
<1>13. ASSUME ~betrayed' PROVE ManifestsAreTrue' /\ CycleIsTrue'
  <2>0. ManifestsAreTrue /\ CycleIsTrue
    BY <1>0, <1>13 DEF UInv
  <2>1. \A r \in Root : TrueOf(manifests[r], r)'
    <3> SUFFICES ASSUME NEW r \in Root PROVE TrueOf(manifests[r], r)'
      OBVIOUS
    <3>1. \A g \in F!File : manifests[r][g] # F!Absent /\ manifests[r][g] = local[g] => remote'[r][g] = local[g]
      BY <2>0, <1>7 DEF ManifestsAreTrue
    <3> QED BY <3>1, <1>0 DEF TrueOf
  <2>2. ASSUME Https \in Protocol PROVE TrueOf(manifests[Fixed], setting.root[Https])'
    <3>1. setting.root[Https] \in Root /\ TrueOf(manifests[Fixed], setting.root[Https])
      BY <2>0, <2>2 DEF ManifestsAreTrue, UInv, UploadTypes
    <3>2. \A g \in F!File : manifests[Fixed][g] # F!Absent /\ manifests[Fixed][g] = local[g]
                            => remote'[setting.root[Https]][g] = local[g]
      BY <3>1, <1>7
    <3> QED BY <3>2, <1>0 DEF TrueOf
  <2>3. /\ TrueOf(upload_work.known, upload_work.root) /\ TrueOf(upload_work.sent, upload_work.root)
        /\ upload_work.protocol = Https => upload_work.root = setting.root[Https]
    BY <2>0, <1>1 DEF CycleIsTrue
  <2>4. TrueOf(upload_work.known, upload_work.root)'
    <3>1. \A g \in F!File : upload_work.known[g] # F!Absent /\ upload_work.known[g] = local[g]
             => remote'[upload_work.root][g] = local[g]
      BY <2>3, <1>5, <1>7
    <3> QED BY <3>1, <1>0, <1>4 DEF TrueOf
  <2>5. TrueOf(upload_work.sent, upload_work.root)'
    <3>1. \A g \in F!File : upload_work.sent[g] # F!Absent /\ upload_work.sent[g] = local[g]
             => remote'[upload_work.root][g] = local[g]
      BY <2>3, <1>5, <1>7
    <3>2. remote'[upload_work.root][F!Current] = local[F!Current]
      BY <1>3, <1>5, <1>6
    <3>3. \A g \in F!File : upload_work'.sent[g] # F!Absent /\ upload_work'.sent[g] = local[g]
             => remote'[upload_work.root][g] = local[g]
      BY <3>1, <3>2, <1>9
    <3> QED BY <3>3, <1>0, <1>4 DEF TrueOf
  <2> QED BY <2>1, <2>2, <2>3, <2>4, <2>5, <1>0, <1>4 DEF ManifestsAreTrue, CycleIsTrue
<1> QED BY <1>10, <1>11, <1>12, <1>13 DEF UInv

\* A put that is cut short: what is torn, no manifest calls as it is here, unless
\* the step says so.
LEMMA PutIsCut ==
    ASSUME UInv, upload_work.pc = "put", F!CutPut, UNCHANGED <<local, manifests, there, setting>>
    PROVE  /\ remote' \in [Root -> [F!File -> Nat]] /\ betrayed' \in BOOLEAN
           /\ ~betrayed' => /\ ~betrayed /\ ManifestsAreTrue'
                            /\ \A g \in F!File :
                                 /\ upload_work.known[g] # F!Absent /\ upload_work.known[g] = local[g]
                                      => remote'[upload_work.root][g] = local[g]
                                 /\ upload_work.sent[g] # F!Absent /\ upload_work.sent[g] = local[g]
                                      => remote'[upload_work.root][g] = local[g]
<1>1. upload_work # F!Idle /\ upload_work.todo # {} /\ upload_work.root \in Root
  BY IdleCycle DEF UInv, CycleIsPast, UploadTypes
<1>2. F!Current \in upload_work.todo /\ F!Current \in F!File
  BY <1>1, CurrentIsDue DEF UInv, CycleIsPast
<1>3. local \in [F!File -> Nat] /\ remote \in [Root -> [F!File -> Nat]] /\ betrayed \in BOOLEAN
  BY DEF UInv, UploadTypes
<1>4. ASSUME ~betrayed
      PROVE  /\ ManifestsAreTrue
             /\ TrueOf(upload_work.known, upload_work.root) /\ TrueOf(upload_work.sent, upload_work.root)
  BY <1>1, <1>4 DEF UInv, CycleIsTrue
<1>5. CASE UNCHANGED <<remote, betrayed>>
  <2>1. ManifestsAreTrue => ManifestsAreTrue'
    BY <1>5 DEF ManifestsAreTrue, TrueOf
  <2> QED BY <1>3, <1>4, <1>5, <2>1 DEF TrueOf
<1>6. CASE ~UNCHANGED <<remote, betrayed>>
  <2>1. PICK c \in {F!Torn, local[F!Current]} : F!PutIn(c)
    BY <1>6 DEF F!CutPut
  <2>2. /\ betrayed' = (betrayed \/ \E p \in there : /\ manifests[p][F!Current] # F!Absent
                                                    /\ manifests[p][F!Current] >= upload_work.digest)
    BY <1>6 DEF F!CutPut
  <2>3. c \in Nat
    BY <1>2, <1>3, OutgoingAssumption DEF F!Torn
  <2>4. /\ remote' \in [Root -> [F!File -> Nat]]
        /\ \A r \in Root, g \in F!File :
              remote'[r][g] = IF r = upload_work.root /\ g = F!Current THEN c ELSE remote[r][g]
    BY <2>1, <2>3, <1>1, <1>2, RootIsTyped DEF F!PutIn
  <2>5. ASSUME NEW e, NEW r \in Root, TrueOf(e, r),
               e[F!Current] = F!Absent \/ e[F!Current] # local[F!Current]
        PROVE  \A g \in F!File : e[g] # F!Absent /\ e[g] = local[g] => remote'[r][g] = local[g]
    BY <2>4, <2>5 DEF TrueOf
  <2>6. ASSUME ~betrayed', NEW p \in F!Place
        PROVE  manifests[p][F!Current] = F!Absent \/ manifests[p][F!Current] # local[F!Current]
    <3>1. CASE p \in there
      <4>1. manifests[p][F!Current] = F!Absent \/ ~(manifests[p][F!Current] >= upload_work.digest)
        BY <2>2, <2>6, <3>1
      <4>2. upload_work.digest \in Nat /\ upload_work.digest <= local[F!Current] /\ local[F!Current] \in Nat
        BY <1>2, <1>3 DEF UInv, CycleIsPast
      <4> QED BY <4>1, <4>2
    <3>2. CASE p \notin there
      BY <3>2, <1>2, NothingIsPast DEF UInv, ManifestsArePast
    <3> QED BY <3>1, <3>2
  <2>7. ASSUME ~betrayed'
        PROVE  ManifestsAreTrue'
    <3>0. ManifestsAreTrue /\ Fixed \in F!Place /\ Root \subseteq F!Place
      BY <2>2, <2>7, <1>4 DEF F!Place
    <3>1. \A r \in Root : TrueOf(manifests[r], r)'
      <4> SUFFICES ASSUME NEW r \in Root PROVE TrueOf(manifests[r], r)'
        OBVIOUS
      <4>0. TrueOf(manifests[r], r) /\ r \in F!Place
        BY <3>0 DEF ManifestsAreTrue
      <4>1. \A g \in F!File : manifests[r][g] # F!Absent /\ manifests[r][g] = local[g] => remote'[r][g] = local[g]
        BY <4>0, <2>5, <2>6, <2>7
      <4> QED BY <4>1 DEF TrueOf
    <3>2. ASSUME Https \in Protocol PROVE TrueOf(manifests[Fixed], setting.root[Https])'
      <4>1. setting.root[Https] \in Root /\ TrueOf(manifests[Fixed], setting.root[Https])
        BY <3>0, <3>2 DEF ManifestsAreTrue, UInv, UploadTypes
      <4>2. \A g \in F!File : manifests[Fixed][g] # F!Absent /\ manifests[Fixed][g] = local[g]
                              => remote'[setting.root[Https]][g] = local[g]
        BY <3>0, <4>1, <2>5, <2>6, <2>7
      <4> QED BY <4>2 DEF TrueOf
    <3> QED BY <3>1, <3>2 DEF ManifestsAreTrue
  <2>8. upload_work.known[F!Current] = F!Absent \/ upload_work.known[F!Current] # local[F!Current]
    <3>1. /\ upload_work.known[F!Current] = F!Absent \/ upload_work.known[F!Current] < upload_work.digest
          /\ upload_work.digest \in Nat /\ upload_work.digest <= local[F!Current] /\ local[F!Current] \in Nat
      BY <1>2, <1>3 DEF UInv, CycleIsPast
    <3> QED BY <3>1, <1>2 DEF UInv, CycleIsPast, Past
  <2>9. upload_work.sent[F!Current] = F!Absent
    BY <1>2 DEF UInv, CycleIsPast
  <2>10. betrayed' \in BOOLEAN /\ (~betrayed' => ~betrayed)
    BY <2>2
  <2>11. ASSUME ~betrayed'
         PROVE  \A g \in F!File :
                  /\ upload_work.known[g] # F!Absent /\ upload_work.known[g] = local[g]
                       => remote'[upload_work.root][g] = local[g]
                  /\ upload_work.sent[g] # F!Absent /\ upload_work.sent[g] = local[g]
                       => remote'[upload_work.root][g] = local[g]
    <3>1. TrueOf(upload_work.known, upload_work.root) /\ TrueOf(upload_work.sent, upload_work.root)
      BY <1>4, <2>10, <2>11
    <3>2. \A g \in F!File : upload_work.known[g] # F!Absent /\ upload_work.known[g] = local[g]
             => remote'[upload_work.root][g] = local[g]
      BY <3>1, <2>5, <2>8, <1>1
    <3>3. \A g \in F!File : upload_work.sent[g] # F!Absent /\ upload_work.sent[g] = local[g]
             => remote'[upload_work.root][g] = local[g]
      BY <3>1, <2>5, <2>9, <1>1
    <3> QED BY <3>2, <3>3
  <2> QED BY <2>4, <2>7, <2>10, <2>11
<1> QED BY <1>5, <1>6

\* The manifest is written, cut short, or left.
LEMMA ManifestIsWritten ==
    ASSUME UInv, upload_work # F!Idle, UNCHANGED <<local, remote, setting, betrayed>>,
           \/ UNCHANGED <<manifests, there>>
           \/ F!WriteIn(F!Merged)
           \/ /\ manifests' = [manifests EXCEPT ![F!Manifest_] = F!Nothing]
              /\ there' = there \ {F!Manifest_}
    PROVE  /\ DOMAIN manifests' = F!Place /\ there' \subseteq F!Place
           /\ ManifestsArePast' /\ (~betrayed => ManifestsAreTrue')
<1>0. /\ DOMAIN manifests = F!Place /\ there \subseteq F!Place
      /\ upload_work.root \in Root /\ upload_work.protocol \in Protocol /\ local \in [F!File -> Nat]
  BY DEF UInv, UploadTypes
<1>1. CASE UNCHANGED <<manifests, there>>
  <2>1. ManifestsArePast'
    BY <1>1 DEF UInv, ManifestsArePast, Past
  <2>2. ManifestsAreTrue => ManifestsAreTrue'
    BY <1>1 DEF ManifestsAreTrue, TrueOf
  <2> QED BY <1>0, <1>1, <2>1, <2>2 DEF UInv
<1>2. ASSUME NEW e, Past(e), ~betrayed => TrueOf(e, upload_work.root),
             manifests' = [manifests EXCEPT ![F!Manifest_] = e], there' \subseteq F!Place,
             \A p \in F!Place \ there' : (p = F!Manifest_ /\ e = F!Nothing) \/ (p # F!Manifest_ /\ p \notin there)
      PROVE  /\ DOMAIN manifests' = F!Place
             /\ ManifestsArePast' /\ (~betrayed => ManifestsAreTrue')
  <2>1. F!Manifest_ = IF upload_work.protocol = Https THEN Fixed ELSE upload_work.root
    BY DEF F!Manifest_, F!ManifestAt, Https
  <2>2. F!Manifest_ \in F!Place /\ Fixed \in F!Place /\ Root \subseteq F!Place /\ Fixed \notin Root
    BY <1>0, <2>1, OutgoingAssumption DEF F!Place
  <2> HIDE DEF F!Manifest_
  <2>3. /\ DOMAIN manifests' = F!Place
        /\ \A p \in F!Place : manifests'[p] = IF p = F!Manifest_ THEN e ELSE manifests[p]
    BY <1>0, <1>2, <2>2
  <2>4. ManifestsArePast'
    <3>1. \A p \in F!Place : manifests'[p] \in [F!File -> Nat] /\ \A f \in F!File : manifests'[p][f] <= local[f]
      BY <1>2, <2>3 DEF UInv, ManifestsArePast, Past
    <3>2. \A p \in F!Place \ there' : manifests'[p] = F!Nothing
      BY <1>2, <2>3 DEF UInv, ManifestsArePast
    <3> QED BY <3>1, <3>2 DEF ManifestsArePast, Past
  <2>5. ASSUME ~betrayed PROVE ManifestsAreTrue'
    <3>0. ManifestsAreTrue /\ CycleIsTrue
      BY <2>5 DEF UInv
    <3>1. ASSUME NEW r \in Root PROVE TrueOf(manifests'[r], r)
      <4>1. CASE r = F!Manifest_
        <5>1. r = upload_work.root
          BY <4>1, <2>1, <2>2
        <5> QED BY <4>1, <5>1, <2>2, <2>3, <2>5, <1>2
      <4>2. CASE r # F!Manifest_
        BY <4>2, <3>0, <2>2, <2>3 DEF ManifestsAreTrue
      <4> QED BY <4>1, <4>2
    <3>2. ASSUME Https \in Protocol PROVE TrueOf(manifests'[Fixed], setting.root[Https])
      <4>1. CASE Fixed = F!Manifest_
        <5>1. upload_work.protocol = Https
          BY <4>1, <1>0, <2>1, <2>2
        <5>2. upload_work.root = setting.root[Https]
          BY <5>1, <3>0 DEF CycleIsTrue
        <5> QED BY <4>1, <5>2, <2>2, <2>3, <2>5, <1>2
      <4>2. CASE Fixed # F!Manifest_
        BY <3>2, <4>2, <3>0, <2>2, <2>3 DEF ManifestsAreTrue
      <4> QED BY <4>1, <4>2
    <3>3. \A e2, r : TrueOf(e2, r) =>
            (\A g \in F!File : e2[g] # F!Absent /\ e2[g] = local'[g] => remote'[r][g] = local'[g])
      BY DEF TrueOf
    <3> QED BY <3>1, <3>2, <3>3 DEF ManifestsAreTrue, TrueOf
  <2> QED BY <2>3, <2>4, <2>5
<1>3. CASE F!WriteIn(F!Merged)
  <2>1. Past(F!Merged)
    <3>1. /\ upload_work.sent \in [F!File -> Nat] /\ upload_work.known \in [F!File -> Nat]
          /\ \A f \in F!File : upload_work.sent[f] <= local[f] /\ upload_work.known[f] <= local[f]
      BY DEF UInv, CycleIsPast, Past
    <3> QED BY <3>1 DEF F!Merged, Past
  <2>2. ASSUME ~betrayed PROVE TrueOf(F!Merged, upload_work.root)
    <3>1. TrueOf(upload_work.known, upload_work.root) /\ TrueOf(upload_work.sent, upload_work.root)
      BY <2>2 DEF UInv, CycleIsTrue
    <3>2. \A f \in F!File : F!Merged[f] \in {upload_work.sent[f], upload_work.known[f]}
      BY DEF F!Merged
    <3> QED BY <3>1, <3>2 DEF TrueOf
  <2>3. F!Manifest_ \in F!Place
    BY <1>0 DEF F!Manifest_, F!ManifestAt, F!Place
  <2>4. manifests' = [manifests EXCEPT ![F!Manifest_] = F!Merged] /\ there' = there \cup {F!Manifest_}
    BY <1>3 DEF F!WriteIn
  <2> QED BY <1>0, <1>2, <2>1, <2>2, <2>3, <2>4
<1>4. CASE manifests' = [manifests EXCEPT ![F!Manifest_] = F!Nothing] /\ there' = there \ {F!Manifest_}
  <2>1. Past(F!Nothing)
    BY <1>0, NothingIsPast DEF Past, F!Absent
  <2>2. TrueOf(F!Nothing, upload_work.root)
    BY NothingIsPast DEF TrueOf
  <2> QED BY <1>0, <1>2, <1>4, <2>1, <2>2
<1> QED BY <1>1, <1>3, <1>4

LEMMA IdleAgain ==
    ASSUME UInv, upload_work' = F!Idle, UNCHANGED local
    PROVE  CycleIsPast' /\ CycleIsTrue'
<1>1. local \in [F!File -> Nat]
  BY DEF UInv, UploadTypes
<1> QED BY <1>1, IdleCycle, NothingIsPast DEF CycleIsPast, CycleIsTrue, Past, F!Absent

\* However a cycle ends.
LEMMA CycleEnds ==
    ASSUME UInv, upload_work # F!Idle, upload_work' = F!Idle, UNCHANGED <<local, setting>>,
           IF upload_work.pc = "put" THEN F!CutPut ELSE UNCHANGED <<remote, betrayed>>,
           \/ UNCHANGED <<manifests, there>>
           \/ /\ upload_work.pc # "put"
              /\ \/ F!WriteIn(F!Merged)
                 \/ /\ manifests' = [manifests EXCEPT ![F!Manifest_] = F!Nothing]
                    /\ there' = there \ {F!Manifest_}
    PROVE  UInv'
<1>1. CycleIsPast' /\ CycleIsTrue'
  BY IdleAgain
<1>2. CASE upload_work.pc = "put"
  <2>1. UNCHANGED <<manifests, there>>
    BY <1>2
  <2>2. /\ remote' \in [Root -> [F!File -> Nat]] /\ betrayed' \in BOOLEAN
        /\ ~betrayed' => ManifestsAreTrue'
    BY <1>2, <2>1, PutIsCut
  <2>3. UploadTypes'
    BY <2>1, <2>2, IdleCycle DEF UInv, UploadTypes
  <2>4. ManifestsArePast'
    BY <2>1 DEF UInv, ManifestsArePast, Past
  <2> QED BY <1>1, <2>2, <2>3, <2>4 DEF UInv
<1>3. CASE upload_work.pc # "put"
  <2>1. UNCHANGED <<remote, betrayed>>
    BY <1>3
  <2>2. /\ DOMAIN manifests' = F!Place /\ there' \subseteq F!Place
        /\ ManifestsArePast' /\ (~betrayed => ManifestsAreTrue')
    BY <2>1, ManifestIsWritten
  <2>3. UploadTypes'
    BY <2>1, <2>2, IdleCycle DEF UInv, UploadTypes
  <2> QED BY <1>1, <2>1, <2>2, <2>3 DEF UInv
<1> QED BY <1>2, <1>3

LEMMA PutFailed ==
    ASSUME UInv, F!PutFails
    PROVE  UInv'
<1>0. upload_work.pc = "put" /\ F!CutPut /\ UNCHANGED <<local, manifests, there, setting>>
  BY DEF F!PutFails, F!world
<1>1. /\ remote' \in [Root -> [F!File -> Nat]] /\ betrayed' \in BOOLEAN
      /\ ~betrayed' => /\ ~betrayed /\ ManifestsAreTrue'
                       /\ \A g \in F!File :
                            /\ upload_work.known[g] # F!Absent /\ upload_work.known[g] = local[g]
                                 => remote'[upload_work.root][g] = local[g]
                            /\ upload_work.sent[g] # F!Absent /\ upload_work.sent[g] = local[g]
                                 => remote'[upload_work.root][g] = local[g]
  BY <1>0, PutIsCut
<1>2. upload_work' = [upload_work EXCEPT !.pc = "manifest", !.outcome = "skipped"] /\ upload_work # F!Idle
  BY <1>0, IdleCycle DEF F!PutFails, F!Skipped
<1>3. /\ upload_work'.pc = "manifest"
      /\ UNCHANGED <<upload_work.todo, upload_work.known, upload_work.sent>>
      /\ UNCHANGED <<upload_work.root, upload_work.protocol, DOMAIN upload_work>>
  BY <1>2 DEF UInv, UploadTypes
<1>4. UploadTypes'
  BY <1>0, <1>1, <1>2, <1>3 DEF UInv, UploadTypes
<1>5. ManifestsArePast' /\ CycleIsPast'
  BY <1>0, <1>3 DEF UInv, ManifestsArePast, CycleIsPast, Past
<1>6. ASSUME ~betrayed' PROVE CycleIsTrue'
  <2>1. upload_work.protocol = Https => upload_work.root = setting.root[Https]
    BY <1>1, <1>2, <1>6 DEF UInv, CycleIsTrue
  <2> QED BY <2>1, <1>0, <1>1, <1>3, <1>6 DEF CycleIsTrue, TrueOf
<1> QED BY <1>1, <1>4, <1>5, <1>6 DEF UInv

LEMMA UploadStep ==
    ASSUME UInv, F!Next
    PROVE  UInv'
<1>1. CASE \E f \in F!File : F!Rewrite(f)
  BY <1>1, FileChanges
<1>2. CASE \E p \in Protocol, host \in BOOLEAN, root \in Root : F!put_tab(p, host, root)
  BY <1>2, TabIsSaved
<1>3. CASE F!pin_file_upload_sftp_host_key \/ (\E k \in Key : F!ServerKeyChanges(k)) \/ F!NotConfigured
  <2>1. UNCHANGED <<local, remote, manifests, there, setting, upload_work, betrayed>>
    BY <1>3 DEF F!pin_file_upload_sftp_host_key, F!ServerKeyChanges, F!NotConfigured, F!world
  <2> QED BY <2>1, NothingIsTouched
<1>4. CASE F!Wipe
  BY <1>4, FolderIsEmptied
<1>5. CASE F!Start \/ F!ReadManifest
  BY <1>5, CycleStarts, ManifestIsRead
<1>6. CASE F!ReadFails \/ F!DigestFails \/ F!SentAll
  BY <1>6, ReadingFails
<1>7. CASE F!Digest
  BY <1>7, FileIsDigested
<1>8. CASE F!Put
  BY <1>8, FileIsPut
<1>9. CASE F!PutFails
  BY <1>9, PutFailed
<1>10. CASE F!WriteManifest \/ F!WriteFails
  <2>1. /\ upload_work.pc = "manifest" /\ upload_work # F!Idle /\ upload_work' = F!Idle
        /\ UNCHANGED <<local, setting, remote, betrayed>>
    BY <1>10, IdleCycle DEF F!WriteManifest, F!WriteFails, F!Ends, F!world
  <2>2. \/ UNCHANGED <<manifests, there>>
        \/ F!WriteIn(F!Merged)
        \/ /\ manifests' = [manifests EXCEPT ![F!Manifest_] = F!Nothing]
           /\ there' = there \ {F!Manifest_}
    BY <1>10 DEF F!WriteManifest, F!WriteFails, F!CutWrite
  <2> QED BY <2>1, <2>2, CycleEnds
<1>11. CASE F!Crash
  <2>1. /\ upload_work # F!Idle /\ upload_work' = F!Idle /\ UNCHANGED <<local, setting>>
        /\ IF upload_work.pc = "put" THEN F!CutPut ELSE UNCHANGED <<remote, betrayed>>
    BY <1>11 DEF F!Crash, F!world
  <2>2. \/ UNCHANGED <<manifests, there>>
        \/ /\ upload_work.pc # "put"
           /\ \/ F!WriteIn(F!Merged)
              \/ /\ manifests' = [manifests EXCEPT ![F!Manifest_] = F!Nothing]
                 /\ there' = there \ {F!Manifest_}
    BY <1>11 DEF F!Crash, F!CutWrite
  <2> QED BY <2>1, <2>2, CycleEnds
<1> QED BY <1>1, <1>2, <1>3, <1>4, <1>5, <1>6, <1>7, <1>8, <1>9, <1>10, <1>11 DEF F!Next, F!Goes

LEMMA UploadShown ==
    ASSUME UInv
    PROVE  F!ManifestTellsTruth
<1> SUFFICES ASSUME ~betrayed, NEW p \in Protocol, NEW f \in F!File,
                    manifests[F!ManifestAt(p, setting.root[p])][f] # F!Absent,
                    manifests[F!ManifestAt(p, setting.root[p])][f] = local[f]
             PROVE  remote[setting.root[p]][f] = local[f]
  BY DEF F!ManifestTellsTruth
<1>1. ManifestsAreTrue /\ setting.root[p] \in Root
  BY DEF UInv, UploadTypes
<1>2. TrueOf(manifests[F!ManifestAt(p, setting.root[p])], setting.root[p])
  BY <1>1 DEF ManifestsAreTrue, F!ManifestAt, Https
<1> QED BY <1>2 DEF TrueOf

(* For any files, roots and contents: what a cycle would skip as           *)
(* unchanged, the server has, in whatever order files were rewritten,      *)
(* digested, sent and recorded, and wherever a cycle stopped               *)
(* (fileupload/cycle.py, manifest.py).                                     *)
THEOREM ManifestIsTrue == Spec => []ManifestTellsTruth
<1>1. Init => UInv
  BY UploadStarts DEF Init
<1>2. UInv /\ [Next]_vars => UInv'
  <2> SUFFICES ASSUME UInv, [Next]_vars PROVE UInv'
    OBVIOUS
  <2>1. CASE Uploads /\ F!Next
    BY <2>1, UploadStep
  <2>2. CASE UNCHANGED upload_vars
    <3>1. UNCHANGED <<local, remote, manifests, there, setting, upload_work, betrayed>>
      BY <2>2 DEF upload_vars
    <3> QED BY <3>1, NothingIsTouched
  <2> QED BY <2>1, <2>2 DEF Next, vars, Uploads, Copies, Pushes
<1>3. UInv => ManifestTellsTruth
  BY UploadShown DEF ManifestTellsTruth
<1> QED BY <1>1, <1>2, <1>3, PTL DEF Spec

-----------------------------------------------------------------------------
(* Rows to the customer's database.                                        *)

\* Whatever of the window is not later than u, and has a row to send, is there.
SentTo(u) == \A t \in D!Time \ Disowned : ~D!Expired(t) /\ t <= u => dest[t + Offset] # "none"

\* The meter's rows here have no hole in the window.
WindowIsFilled == \A u \in l1, t \in D!Time : ~D!Expired(t) /\ t <= u => t \in l1

NothingIsSkipped ==
    /\ \A u \in D!Time : dest[u + Offset] # "none" => SentTo(u)
    /\ dest_work.pc = "chunk" /\ table # "missing" => SentTo(dest_work.start)

CopyIsTyped ==
    {"pc", "start", "cap"} \subseteq DOMAIN dest_work /\ dest_work.start \in Nat /\ dest_work.cap \in Nat

DestTypes ==
    /\ now \in 1 .. MaxTime /\ l1 \subseteq D!Time /\ l2 \subseteq D!Time
    /\ CopyIsTyped
    /\ DOMAIN dest = D!Local

DInv == DestTypes /\ WindowIsFilled /\ NothingIsSkipped

USE DEF CopyIsTyped

-----------------------------------------------------------------------------
(* Watermarks and the ends of a page are instants the machine has stored.  *)

LEMMA NewestOfTimes ==
    ASSUME NEW T \in SUBSET (0 .. MaxTime)
    PROVE  /\ D!Newest(T) \in Nat /\ (D!Newest(T) \in T \/ D!Newest(T) = 0)
           /\ \A t \in T : t <= D!Newest(T)
<1>1. T \cup {D!None} \in SUBSET (0 .. MaxTime) /\ T \cup {D!None} # {}
  BY OutgoingAssumption DEF D!None
<1>2. D!Max(T \cup {D!None}) \in T \cup {D!None} /\ \A y \in T \cup {D!None} : D!Max(T \cup {D!None}) >= y
  BY <1>1, HasMost, OutgoingAssumption
<1>3. PICK m \in 0 .. MaxTime : m = D!Newest(T) /\ m \in T \cup {D!None} /\ \A y \in T : m >= y
  BY <1>1, <1>2 DEF D!Newest
<1> QED BY <1>3, OutgoingAssumption DEF D!None

LEMMA NewestOfRows ==
    ASSUME NEW T \in SUBSET D!Local
    PROVE  /\ T # {} => D!Max(T) \in T
           /\ D!Newest(T) \in T \cup {0}
<1>1. T \in SUBSET (0 .. (MaxTime + Offset)) /\ T \cup {D!None} \in SUBSET (0 .. (MaxTime + Offset))
  BY OutgoingAssumption DEF D!None, D!Local, D!Time
<1>2. MaxTime + Offset \in Nat
  BY OutgoingAssumption
<1>3. T # {} => D!Max(T) \in T
  BY <1>1, <1>2, HasMost
<1>4. D!Max(T \cup {D!None}) \in T \cup {D!None}
  BY <1>1, <1>2, HasMost
<1> QED BY <1>3, <1>4 DEF D!Newest, D!None

\* The destination's clock.
LEMMA OfLocal ==
    /\ \A t \in D!Time : t + Offset \in D!Local /\ t \in Nat
    /\ \A r \in D!Local : /\ D!_from_local(r) \in D!Time /\ D!_from_local(r) + Offset = r
    /\ \A t \in D!Time : D!_from_local(t + Offset) = t
BY OutgoingAssumption DEF D!Local, D!Time, D!_from_local, D!Minus

LEMMA DestStarts == D!Init => DInv
<1> SUFFICES ASSUME D!Init PROVE DInv
  OBVIOUS
<1>0. /\ dest_work.pc = "idle" /\ dest_work.start = 0 /\ dest_work.cap = 0
      /\ {"pc", "start", "cap"} \subseteq DOMAIN dest_work
  BY DEF D!Init, D!Idle, D!None
<1>1. DestTypes
  BY <1>0, OutgoingAssumption DEF D!Init, DestTypes, D!NoRows
<1>2. WindowIsFilled
  BY DEF D!Init, WindowIsFilled
<1>3. NothingIsSkipped
  <2>1. \A u \in D!Time : dest[u + Offset] = "none"
    BY OfLocal DEF D!Init, D!NoRows
  <2> QED BY <1>0, <2>1 DEF NothingIsSkipped
<1> QED BY <1>1, <1>2, <1>3 DEF DInv

-----------------------------------------------------------------------------
(* What the machine stores.                                                *)

\* What has left the window stays out of it.
LEMMA TimePasses ==
    ASSUME DInv, D!Tick
    PROVE  DInv'
<1>1. /\ now \in 1 .. MaxTime /\ now' = now + 1 /\ now' \in 1 .. MaxTime
      /\ UNCHANGED <<l1, l2, table, dest, dest_work>>
  BY OutgoingAssumption DEF D!Tick, DInv, DestTypes
<1>2. \A t \in D!Time : D!Expired(t) => D!Expired(t)'
  BY <1>1, OutgoingAssumption DEF D!Expired, D!Time
<1>3. \A u : SentTo(u) => SentTo(u)'
  BY <1>1, <1>2 DEF SentTo
<1>4. SentTo(dest_work.start) => SentTo(dest_work.start)'
  BY <1>1, <1>2 DEF SentTo
<1>5. NothingIsSkipped'
  BY <1>1, <1>3, <1>4 DEF DInv, NothingIsSkipped
<1>6. WindowIsFilled'
  BY <1>1, <1>2 DEF DInv, WindowIsFilled
<1>7. DestTypes'
  BY <1>1 DEF DInv, DestTypes
<1> QED BY <1>5, <1>6, <1>7 DEF DInv

LEMMA RowsAreStored ==
    ASSUME DInv, UNCHANGED <<now, table, dest, dest_work>>,
           l1' \subseteq D!Time, l2' \subseteq D!Time, WindowIsFilled'
    PROVE  DInv'
<1>1. \A u : SentTo(u) => SentTo(u)'
  BY DEF SentTo, D!Expired
<1>2. SentTo(dest_work.start) => SentTo(dest_work.start)'
  BY DEF SentTo, D!Expired
<1> QED BY <1>1, <1>2 DEF DInv, DestTypes, NothingIsSkipped

\* A visit reads on where the rows end, or from where the window begins.
LEMMA VisitFollows ==
    ASSUME now \in 1 .. MaxTime, NEW T \in SUBSET D!Time
    PROVE  D!Follows(T) \in Nat /\ D!Follows(T) >= 1
<1>1. CASE T = {}
  <2>1. {1, D!Minus(now, Window)} \in SUBSET (0 .. MaxTime)
    BY OutgoingAssumption DEF D!Minus
  <2>2. D!Follows(T) = D!Max({1, D!Minus(now, Window)})
    BY <1>1 DEF D!Follows
  <2>3. /\ D!Follows(T) \in {1, D!Minus(now, Window)}
        /\ D!Follows(T) >= 1
    BY <2>1, <2>2, HasMost, OutgoingAssumption
  <2> QED BY <2>1, <2>3
<1>2. CASE T # {}
  <2>1. T \in SUBSET (0 .. MaxTime)
    BY OutgoingAssumption DEF D!Time
  <2>3. D!Newest(T) \in Nat
    BY <2>1, NewestOfTimes
  <2> QED BY <1>2, <2>3 DEF D!Follows
<1> QED BY <1>1, <1>2

LEMMA MeterIsVisited ==
    ASSUME DInv, NEW first, NEW second, D!Visit(first, second)
    PROVE  DInv'
<1>0. l2' \subseteq D!Time
  <2>1. PICK until \in D!Follows(l2) .. now :
          l2' = IF second /\ SecondLogger THEN l2 \cup (D!Follows(l2) .. until) ELSE l2
    BY DEF D!Visit
  <2>2. now \in 1 .. MaxTime /\ l2 \subseteq D!Time
    BY DEF DInv, DestTypes
  <2>3. D!Follows(l2) \in Nat /\ D!Follows(l2) >= 1
    BY <2>2, VisitFollows
  <2>4. D!Follows(l2) .. until \subseteq D!Time
    BY <2>2, <2>3, OutgoingAssumption DEF D!Time
  <2> QED BY <2>1, <2>2, <2>4
<1>1. UNCHANGED <<now, table, dest, dest_work>> /\ l1' \in {l1, l1 \cup (D!Follows(l1) .. now)}
  BY DEF D!Visit
<1>2. CASE l1' = l1
  <2>1. WindowIsFilled'
    BY <1>1, <1>2 DEF DInv, WindowIsFilled, D!Expired
  <2> QED BY <1>1, <1>2, <2>1, <1>0, RowsAreStored DEF DInv, DestTypes
<1>3. CASE l1' = l1 \cup (D!Follows(l1) .. now)
  <2>0. now \in 1 .. MaxTime /\ l1 \subseteq D!Time
    BY DEF DInv, DestTypes
  <2>1. CASE l1 = {}
    <3>1. {1, D!Minus(now, Window)} \in SUBSET (0 .. MaxTime)
      BY <2>0, OutgoingAssumption DEF D!Minus
    <3>2. /\ D!Follows(l1) \in {1, D!Minus(now, Window)}
          /\ D!Follows(l1) >= 1 /\ D!Follows(l1) >= D!Minus(now, Window)
      <4>1. D!Follows(l1) = D!Max({1, D!Minus(now, Window)})
        BY <2>1 DEF D!Follows
      <4> QED BY <3>1, <4>1, HasMost, OutgoingAssumption
    <3>3. \A t \in D!Time : ~D!Expired(t) /\ t <= now => t \in D!Follows(l1) .. now
      <4> SUFFICES ASSUME NEW t \in D!Time, ~D!Expired(t), t <= now
                   PROVE  t \in D!Follows(l1) .. now
        OBVIOUS
      <4>1. t \in 1 .. MaxTime /\ t + Window >= now
        BY <2>0, OutgoingAssumption DEF D!Expired, D!Time
      <4>2. CASE D!Follows(l1) = 1
        BY <4>1, <4>2, <2>0
      <4>3. CASE D!Follows(l1) = D!Minus(now, Window)
        BY <4>1, <4>3, <2>0, OutgoingAssumption DEF D!Minus
      <4> QED BY <3>2, <4>2, <4>3
    <3>4. D!Follows(l1) .. now \subseteq D!Time
      BY <3>1, <3>2, <2>0, OutgoingAssumption DEF D!Time
    <3>5. WindowIsFilled'
      <4> SUFFICES ASSUME NEW u \in l1', NEW t \in D!Time, ~D!Expired(t), t <= u PROVE t \in l1'
        BY <1>1 DEF WindowIsFilled, D!Expired
      <4>1. u \in D!Follows(l1) .. now /\ u \in Nat /\ t \in Nat
        BY <1>3, <2>1, <3>4, OutgoingAssumption DEF D!Time
      <4>2. t <= now
        BY <4>1, <2>0, <3>1, <3>2
      <4> QED BY <1>3, <2>1, <3>3, <4>2
    <3> QED BY <1>1, <1>3, <2>1, <3>4, <3>5, <1>0, RowsAreStored
  <2>2. CASE l1 # {}
    <3>0. l1 \in SUBSET (0 .. MaxTime)
      BY <2>0, OutgoingAssumption DEF D!Time
    <3>1. D!Newest(l1) \in Nat /\ (D!Newest(l1) \in l1 \/ D!Newest(l1) = 0) /\ \A t \in l1 : t <= D!Newest(l1)
      BY <3>0, NewestOfTimes
    <3>2. D!Newest(l1) \in l1
      <4>1. PICK t \in l1 : t \in 1 .. MaxTime
        BY <2>0, <2>2 DEF D!Time
      <4>2. t <= D!Newest(l1) /\ t >= 1 /\ t \in Nat
        BY <3>1, <4>1, OutgoingAssumption
      <4> QED BY <3>1, <4>2
    <3>3. D!Follows(l1) = D!Newest(l1) + 1 /\ D!Newest(l1) \in 1 .. MaxTime
      BY <2>0, <2>2, <3>2 DEF D!Follows, D!Time
    <3>4. D!Follows(l1) .. now \subseteq D!Time
      BY <3>3, <2>0, OutgoingAssumption DEF D!Time
    <3>5. WindowIsFilled'
      <4> SUFFICES ASSUME NEW u \in l1', NEW t \in D!Time, ~D!Expired(t), t <= u PROVE t \in l1'
        BY <1>1 DEF WindowIsFilled, D!Expired
      <4>0. t \in 1 .. MaxTime /\ u \in 1 .. MaxTime
        BY <1>3, <2>0, <3>4 DEF D!Time
      <4>1. CASE t <= D!Newest(l1)
        BY <4>1, <3>2, <1>3 DEF DInv, WindowIsFilled
      <4>2. CASE ~(t <= D!Newest(l1))
        <5>1. ~(u <= D!Newest(l1))
          BY <4>0, <4>2, <3>3
        <5>2. u \in D!Follows(l1) .. now
          BY <5>1, <1>3, <3>1
        <5> QED BY <5>2, <4>0, <4>2, <3>3, <1>3, <2>0
      <4> QED BY <4>1, <4>2
    <3> QED BY <1>1, <1>3, <2>0, <3>4, <3>5, <1>0, RowsAreStored
  <2> QED BY <2>1, <2>2
<1> QED BY <1>1, <1>2, <1>3

LEMMA RowsAreDropped ==
    ASSUME DInv, D!purge_expired \/ D!clear_readings
    PROVE  DInv'
<1>1. UNCHANGED <<now, table, dest, dest_work>> /\ l2' \subseteq l2 /\ l1' \in {{}, {t \in l1 : ~D!Expired(t)}}
  BY DEF D!purge_expired, D!clear_readings
<1>2. l1' \subseteq l1
  BY <1>1
<1>3. WindowIsFilled'
  <2> SUFFICES ASSUME NEW u \in l1', NEW t \in D!Time, ~D!Expired(t), t <= u PROVE t \in l1'
    BY <1>1 DEF WindowIsFilled, D!Expired
  <2>1. t \in l1
    BY <1>2 DEF DInv, WindowIsFilled
  <2> QED BY <1>1, <2>1
<1> QED BY <1>1, <1>2, <1>3, RowsAreStored DEF DInv, DestTypes

-----------------------------------------------------------------------------
(* The cycle.                                                              *)

\* Steps that send and delete nothing, and set no place to go on from.
LEMMA CopyMoves ==
    ASSUME DInv, UNCHANGED <<now, l1, l2, dest>>, dest_work'.pc # "chunk" \/ UNCHANGED <<dest_work, table>>,
           CopyIsTyped'
    PROVE  DInv'
<1>1. \A u : SentTo(u) => SentTo(u)'
  BY DEF SentTo, D!Expired
<1>2. UNCHANGED <<dest_work, table>> => (SentTo(dest_work.start) => SentTo(dest_work.start)')
  BY DEF SentTo, D!Expired
<1>3. WindowIsFilled'
  BY DEF DInv, WindowIsFilled, D!Expired
<1> QED BY <1>1, <1>2, <1>3 DEF DInv, DestTypes, NothingIsSkipped

LEMMA IdleCopy ==
    /\ D!Idle.pc = "idle" /\ {"pc", "start", "cap"} \subseteq DOMAIN D!Idle
    /\ D!Idle.start \in Nat /\ D!Idle.cap \in Nat
BY DEF D!Idle, D!None

LEMMA TableIsDropped ==
    ASSUME DInv, D!DropTable
    PROVE  DInv'
<1>1. /\ UNCHANGED <<now, l1, l2, dest_work>> /\ table' = "missing" /\ dest' = D!NoRows
  BY DEF D!DropTable, D!store
<1>2. \A u \in D!Time : dest'[u + Offset] = "none"
  BY <1>1, OfLocal DEF D!NoRows
<1>3. DestTypes' /\ WindowIsFilled'
  BY <1>1 DEF DInv, DestTypes, WindowIsFilled, D!Expired, D!NoRows
<1>4. NothingIsSkipped'
  BY <1>1, <1>2 DEF NothingIsSkipped
<1> QED BY <1>3, <1>4 DEF DInv

\* A cycle goes on from the destination's newest row, or from before it.
LEMMA CapIsATime ==
    ASSUME l1 \subseteq D!Time, l2 \subseteq D!Time
    PROVE  D!Cap \in Nat
<1>1. l1 \in SUBSET (0 .. MaxTime) /\ l2 \in SUBSET (0 .. MaxTime)
  BY OutgoingAssumption DEF D!Time
<1>2. D!Newest(l1) \in Nat /\ D!Newest(l2) \in Nat
  BY <1>1, NewestOfTimes
<1>3. D!Minus(D!Newest(l1), Skew) \in Nat
  BY <1>2, OutgoingAssumption DEF D!Minus
<1>4. D!Min({D!Newest(l1), D!Newest(l2)}) \in Nat
  <2> DEFINE T == {D!Newest(l1), D!Newest(l2)}
  <2>1. T \in SUBSET Nat /\ T # {}
    BY <1>2
  <2> HIDE DEF T
  <2>2. PICK m \in T : \A y \in T : m <= y
    BY <2>1, HasLeast
  <2>3. D!Min(T) \in T
    BY <2>2 DEF D!Min
  <2> QED BY <2>1, <2>3 DEF T
<1> QED BY <1>2, <1>3, <1>4 DEF D!Cap

LEMMA WatermarkIsRead ==
    ASSUME DInv, D!_merge_sources
    PROVE  DInv'
<1>1. UNCHANGED <<now, l1, l2, table, dest>>
  BY DEF D!_merge_sources, D!store
<1>2. CASE ~(dest_work' = [dest_work EXCEPT !.pc = "chunk", !.start = D!_watermark_start, !.cap = D!Cap])
  <2>1. dest_work' = D!Idle \/ dest_work' = [dest_work EXCEPT !.pc = "purge"]
    BY <1>2 DEF D!_merge_sources, D!Ends
  <2>2. /\ dest_work'.pc # "chunk" /\ CopyIsTyped'
    BY <2>1, IdleCopy DEF DInv, DestTypes
  <2> QED BY <1>1, <2>2, CopyMoves
<1>3. CASE dest_work' = [dest_work EXCEPT !.pc = "chunk", !.start = D!_watermark_start, !.cap = D!Cap]
  <2>1. /\ dest_work'.pc = "chunk" /\ dest_work'.start = D!_watermark_start /\ dest_work'.cap = D!Cap
        /\ {"pc", "start", "cap"} \subseteq DOMAIN dest_work'
    BY <1>3 DEF DInv, DestTypes
  <2>0. D!Cap \in Nat
    BY CapIsATime DEF DInv, DestTypes
  <2>2. D!Rows \in SUBSET D!Local /\ \A r \in D!Rows : dest[r] # "none"
    BY DEF D!Rows
  <2>3. D!_watermark_start \in Nat /\ SentTo(D!_watermark_start)
    <3>1. CASE D!Rows = {}
      <4>1. D!_watermark_start = 0
        BY <3>1 DEF D!_watermark_start, D!None
      <4> QED BY <4>1, OutgoingAssumption DEF SentTo, D!Time
    <3>2. CASE D!Rows # {}
      <4>1. D!Max(D!Rows) \in D!Local /\ dest[D!Max(D!Rows)] # "none"
        BY <3>2, <2>2, NewestOfRows
      <4>2. PICK u \in D!Time : u = D!_from_local(D!Max(D!Rows)) /\ u + Offset = D!Max(D!Rows)
        BY <4>1, OfLocal
      <4>3. SentTo(u)
        BY <4>1, <4>2 DEF DInv, NothingIsSkipped
      <4>4. D!_watermark_start = D!Minus(u, Rewind)
        BY <3>2, <4>2 DEF D!_watermark_start
      <4>5. D!_watermark_start \in Nat /\ D!_watermark_start <= u
        BY <4>4, OutgoingAssumption DEF D!Minus, D!Time
      <4>6. \A t \in D!Time : t <= D!_watermark_start => t <= u
        BY <4>5, OutgoingAssumption DEF D!Time
      <4> QED BY <4>3, <4>5, <4>6 DEF SentTo
    <3> QED BY <3>1, <3>2
  <2>4. NothingIsSkipped'
    <3>1. \A u : SentTo(u) => SentTo(u)'
      BY <1>1 DEF SentTo, D!Expired
    <3> HIDE DEF D!_watermark_start
    <3>2. SentTo(dest_work.start)'
      BY <1>1, <2>1, <2>3 DEF SentTo, D!Expired
    <3> QED BY <1>1, <3>1, <3>2 DEF DInv, NothingIsSkipped
  <2>5. DestTypes' /\ WindowIsFilled'
    <3> HIDE DEF D!_watermark_start, D!Cap
    <3> QED BY <1>1, <2>0, <2>1, <2>3 DEF DInv, DestTypes, WindowIsFilled, D!Expired
  <2> QED BY <2>4, <2>5 DEF DInv
<1> QED BY <1>2, <1>3

\* A page begins where the rows behind it are all there, and is the oldest of the rest.
LEMMA PageArrives ==
    ASSUME DInv, dest_work.pc = "chunk", table # "missing", UNCHANGED <<now, l1, l2>>,
           NEW page \in D!_source_chunk, dest' = D!Inserted(page)
    PROVE  /\ DOMAIN dest' = D!Local
           /\ \A u \in D!Time : dest'[u + Offset] # "none" => SentTo(u)'
           /\ \A t \in D!Time \ Disowned : ~D!Expired(t) /\ t <= dest_work.start => dest'[t + Offset] # "none"
           /\ D!Newest(page) \in Nat /\ SentTo(D!Newest(page))'
<1>0. /\ page \subseteq D!Pending /\ page \subseteq D!Time
      /\ \A r \in page, t \in D!Pending \ page : r < t
  BY DEF D!_source_chunk, D!Pending, DInv, DestTypes
<1>1. /\ DOMAIN dest' = D!Local
      /\ \A t \in D!Time : dest'[t + Offset] # "none" <=> dest[t + Offset] # "none" \/ t \in page
  BY OfLocal DEF D!Inserted
<1>2. SentTo(dest_work.start) /\ dest_work.start \in Nat
  BY DEF DInv, NothingIsSkipped, DestTypes
<1>3. ASSUME NEW u \in page
      PROVE  \A t \in D!Time \ Disowned : ~D!Expired(t) /\ t <= u => dest'[t + Offset] # "none"
  <2> SUFFICES ASSUME NEW t \in D!Time \ Disowned, ~D!Expired(t), t <= u
               PROVE  t \in page \/ dest[t + Offset] # "none"
    BY <1>1
  <2>1. CASE t <= dest_work.start
    BY <2>1, <1>2 DEF SentTo
  <2>2. CASE ~(t <= dest_work.start)
    <3>1. u \in l1 /\ u <= dest_work.cap /\ u \in Nat /\ t \in Nat /\ dest_work.cap \in Nat
      BY <1>0, OutgoingAssumption DEF D!Pending, D!Time, DInv, DestTypes
    <3>2. t \in l1 \ Disowned
      BY <3>1 DEF DInv, WindowIsFilled
    <3>3. t > dest_work.start
      BY <2>2, <3>1, <1>2
    <3>4. CASE t \in page
      BY <3>4
    <3>5. CASE t \notin page
      <4>1. t \notin D!Pending
        <5>1. SUFFICES ASSUME t \in D!Pending PROVE FALSE
          OBVIOUS
        <5>2. u < t
          BY <5>1, <3>5, <1>0
        <5> QED BY <5>2, <3>1
      <4>2. ~(t <= dest_work.cap)
        BY <4>1, <3>2, <3>3 DEF D!Pending
      <4> QED BY <4>2, <3>1
    <3> QED BY <3>4, <3>5
  <2> QED BY <2>1, <2>2
<1>4. ASSUME NEW u \in D!Time, dest'[u + Offset] # "none" PROVE SentTo(u)'
  <2>1. CASE u \in page
    BY <2>1, <1>3 DEF SentTo, D!Expired
  <2>2. CASE dest[u + Offset] # "none"
    <3>1. SentTo(u)
      BY <2>2 DEF DInv, NothingIsSkipped
    <3> QED BY <3>1, <1>1 DEF SentTo, D!Expired
  <2> QED BY <1>1, <1>4, <2>1, <2>2
<1>5. \A t \in D!Time \ Disowned : ~D!Expired(t) /\ t <= dest_work.start => dest'[t + Offset] # "none"
  BY <1>1, <1>2 DEF SentTo
<1>6. D!Newest(page) \in Nat /\ (D!Newest(page) \in page \/ D!Newest(page) = 0)
  <2>1. page \in SUBSET (0 .. MaxTime)
    BY <1>0, OutgoingAssumption DEF D!Time
  <2> QED BY <2>1, NewestOfTimes
<1>7. SentTo(D!Newest(page))'
  <2>1. CASE D!Newest(page) = 0
    BY <2>1, OutgoingAssumption DEF SentTo, D!Time
  <2>2. CASE D!Newest(page) \in page
    BY <2>2, <1>3 DEF SentTo, D!Expired
  <2> QED BY <1>6, <2>1, <2>2
<1> QED BY <1>1, <1>4, <1>5, <1>6, <1>7

LEMMA PageIsSent ==
    ASSUME DInv, D!_send_device
    PROVE  DInv'
<1>1. /\ dest_work.pc = "chunk" /\ table # "missing" /\ UNCHANGED <<now, l1, l2, table>>
  BY DEF D!_send_device, D!store
<1>2. PICK page \in D!_source_chunk :
        /\ dest' = D!Inserted(page)
        /\ \/ dest_work' = [dest_work EXCEPT !.pc = "purge"]
           \/ dest_work' = [dest_work EXCEPT !.start = D!Newest(page)]
           \/ dest_work' = [dest_work EXCEPT !.pc = "purge", !.late = TRUE]
  BY DEF D!_send_device, D!To, D!Late
<1>3. /\ DOMAIN dest' = D!Local
      /\ \A u \in D!Time : dest'[u + Offset] # "none" => SentTo(u)'
      /\ D!Newest(page) \in Nat /\ SentTo(D!Newest(page))'
  BY <1>1, <1>2, PageArrives
<1>4. WindowIsFilled'
  BY <1>1 DEF DInv, WindowIsFilled, D!Expired
<1>5. CASE dest_work' = [dest_work EXCEPT !.start = D!Newest(page)]
  <2>1. /\ dest_work'.pc = "chunk" /\ DOMAIN dest_work' = DOMAIN dest_work
        /\ dest_work'.start = D!Newest(page) /\ dest_work'.cap = dest_work.cap
    BY <1>1, <1>5 DEF DInv, DestTypes
  <2>2. SentTo(dest_work.start)'
    BY <1>3, <2>1 DEF SentTo
  <2>3. DestTypes'
    BY <1>1, <1>3, <2>1 DEF DInv, DestTypes
  <2> QED BY <1>1, <1>3, <1>4, <2>2, <2>3 DEF DInv, NothingIsSkipped
<1>6. CASE \/ dest_work' = [dest_work EXCEPT !.pc = "purge"]
           \/ dest_work' = [dest_work EXCEPT !.pc = "purge", !.late = TRUE]
  <2>1. /\ dest_work'.pc = "purge" /\ DOMAIN dest_work' = DOMAIN dest_work
        /\ dest_work'.start = dest_work.start /\ dest_work'.cap = dest_work.cap
    <3>1. CASE dest_work' = [dest_work EXCEPT !.pc = "purge"]
      BY <3>1 DEF DInv, DestTypes
    <3>2. CASE dest_work' = [dest_work EXCEPT !.pc = "purge", !.late = TRUE]
      BY <3>2 DEF DInv, DestTypes
    <3> QED BY <1>6, <3>1, <3>2
  <2>2. DestTypes'
    BY <1>1, <1>3, <2>1 DEF DInv, DestTypes
  <2> QED BY <1>3, <1>4, <2>1, <2>2 DEF DInv, NothingIsSkipped
<1> QED BY <1>2, <1>5, <1>6

\* Only what has left the window goes.
LEMMA OldRowsGo ==
    ASSUME DInv, D!_purge_destination
    PROVE  DInv'
<1>1. dest_work.pc = "purge" /\ UNCHANGED <<now, l1, l2, table>>
  BY DEF D!_purge_destination, D!store
<1>2. PICK gone \in SUBSET D!Old :
        /\ dest' = [t \in D!Local |-> IF t \in gone THEN "none" ELSE dest[t]]
        /\ dest_work' \in {D!Idle, dest_work}
  BY DEF D!_purge_destination, D!Ends
<1>3. \A t \in D!Time : t + Offset \in D!Old => D!Expired(t)
  <2> SUFFICES ASSUME NEW t \in D!Time, t + Offset < D!Minus(now, Window) + Offset PROVE D!Expired(t)
    BY DEF D!Old, D!_to_local
  <2>1. now \in Nat /\ t \in Nat /\ t > 0
    BY OutgoingAssumption DEF DInv, DestTypes, D!Time
  <2> QED BY <2>1, OutgoingAssumption DEF D!Minus, D!Expired
<1>4. \A t \in D!Time : ~D!Expired(t) => dest'[t + Offset] = dest[t + Offset]
  BY <1>2, <1>3, OfLocal
<1>5. \A t \in D!Time : dest'[t + Offset] # "none" => dest[t + Offset] # "none"
  BY <1>2, OfLocal
<1>6. \A u : SentTo(u) => SentTo(u)'
  BY <1>1, <1>4 DEF SentTo, D!Expired
<1>7. dest_work'.pc # "chunk" /\ CopyIsTyped'
  BY <1>1, <1>2, IdleCopy DEF DInv, DestTypes
<1>8. DestTypes' /\ WindowIsFilled'
  BY <1>1, <1>2, <1>7 DEF DInv, DestTypes, WindowIsFilled, D!Expired
<1> QED BY <1>5, <1>6, <1>7, <1>8 DEF DInv, NothingIsSkipped

\* A page that was committed or not, and the cycle ends.
LEMMA CopyFails ==
    ASSUME DInv, D!Fails
    PROVE  DInv'
<1>1. dest_work' = D!Idle /\ UNCHANGED <<now, l1, l2, table>>
  BY DEF D!Fails, D!Ends, D!store
<1>2. CASE UNCHANGED dest
  BY <1>1, <1>2, IdleCopy, CopyMoves
<1>3. CASE ~UNCHANGED dest
  <2>1. PICK page \in D!_source_chunk : dest' = D!Inserted(page)
    BY <1>3 DEF D!Fails
  <2>2. dest_work.pc = "chunk" /\ table # "missing"
    BY <1>3 DEF D!Fails
  <2>3. DOMAIN dest' = D!Local /\ \A u \in D!Time : dest'[u + Offset] # "none" => SentTo(u)'
    BY <1>1, <2>1, <2>2, PageArrives
  <2>4. DestTypes' /\ WindowIsFilled'
    BY <1>1, <2>3, IdleCopy DEF DInv, DestTypes, WindowIsFilled, D!Expired
  <2> QED BY <1>1, <2>3, <2>4, IdleCopy DEF DInv, NothingIsSkipped
<1> QED BY <1>2, <1>3

LEMMA DestStep ==
    ASSUME DInv, D!Next
    PROVE  DInv'
<1>0. CopyIsTyped
  BY DEF DInv, DestTypes
<1>1. CASE D!Tick
  BY <1>1, TimePasses
<1>2. CASE \E first, second \in BOOLEAN : D!Visit(first, second)
  BY <1>2, MeterIsVisited
<1>3. CASE D!purge_expired \/ D!clear_readings
  BY <1>3, RowsAreDropped
<1>4. CASE D!BillingRead \/ D!put_database_destination
  <2>1. UNCHANGED <<now, l1, l2, dest, dest_work, table>>
    BY <1>4 DEF D!BillingRead, D!put_database_destination, D!store
  <2> QED BY <1>0, <2>1, CopyMoves
<1>5. CASE D!DropTable
  BY <1>5, TableIsDropped
<1>6. CASE D!Start \/ D!reconcile \/ D!_replace_billing \/ D!SkipBilling
  <2>1. UNCHANGED <<now, l1, l2, dest>>
    BY <1>6 DEF D!Start, D!reconcile, D!_replace_billing, D!SkipBilling, D!store
  <2>2. \/ dest_work' = [D!Idle EXCEPT !.pc = "reconcile"] \/ dest_work' = D!Idle
        \/ dest_work' = [dest_work EXCEPT !.pc = "billing", !.refused = table = "per_logger"]
        \/ dest_work' = [dest_work EXCEPT !.pc = "sources"]
    BY <1>6 DEF D!Start, D!reconcile, D!_replace_billing, D!SkipBilling, D!AfterBilling, D!To, D!Ends
  <2>3. /\ dest_work'.pc # "chunk" /\ CopyIsTyped'
    <3>1. CASE dest_work' = [D!Idle EXCEPT !.pc = "reconcile"] \/ dest_work' = D!Idle
      BY <3>1, IdleCopy
    <3>2. CASE dest_work' = [dest_work EXCEPT !.pc = "billing", !.refused = table = "per_logger"]
      BY <3>2, <1>0
    <3>3. CASE dest_work' = [dest_work EXCEPT !.pc = "sources"]
      BY <3>3, <1>0
    <3> QED BY <2>2, <3>1, <3>2, <3>3
  <2> QED BY <2>1, <2>3, CopyMoves
<1>7. CASE D!_merge_sources
  BY <1>7, WatermarkIsRead
<1>8. CASE D!SendNothing
  <2>1. UNCHANGED <<now, l1, l2, dest>> /\ dest_work' = [dest_work EXCEPT !.pc = "purge", !.late = TRUE]
    BY <1>8 DEF D!SendNothing, D!Late, D!store
  <2>2. /\ dest_work'.pc # "chunk" /\ CopyIsTyped'
    BY <1>0, <2>1
  <2> QED BY <2>1, <2>2, CopyMoves
<1>9. CASE D!_send_device
  BY <1>9, PageIsSent
<1>10. CASE D!_purge_destination
  BY <1>10, OldRowsGo
<1>11. CASE D!TableGone
  <2>1. UNCHANGED <<now, l1, l2, dest>> /\ dest_work' = D!Idle
    BY <1>11 DEF D!TableGone, D!Ends, D!store
  <2> QED BY <2>1, IdleCopy, CopyMoves
<1>12. CASE D!Fails
  BY <1>12, CopyFails
<1> QED BY <1>1, <1>2, <1>3, <1>4, <1>5, <1>6, <1>7, <1>8, <1>9, <1>10, <1>11, <1>12 DEF D!Next, D!Goes

LEMMA DestShown ==
    ASSUME DInv
    PROVE  D!NoHoleAtDestination
<1> SUFFICES ASSUME NEW t \in l1 \ Disowned, ~D!Expired(t), t + Offset <= D!Newest(D!Rows)
             PROVE  dest[t + Offset] # "none"
  BY DEF D!NoHoleAtDestination, D!_to_local
<1>1. t \in D!Time /\ t \in Nat /\ t > 0
  <2>1. t \in D!Time
    BY DEF DInv, DestTypes
  <2> QED BY <2>1, OutgoingAssumption DEF D!Time
<1>2. D!Rows \in SUBSET D!Local /\ \A r \in D!Rows : dest[r] # "none"
  BY DEF D!Rows
<1>3. D!Newest(D!Rows) \in D!Rows
  <2>1. D!Newest(D!Rows) \in D!Rows \cup {0}
    BY <1>2, NewestOfRows
  <2> QED BY <2>1, <1>1, OutgoingAssumption
<1>4. PICK u \in D!Time : u + Offset = D!Newest(D!Rows)
  BY <1>2, <1>3, OfLocal
<1>5. SentTo(u)
  BY <1>2, <1>3, <1>4 DEF DInv, NothingIsSkipped
<1>6. t <= u
  BY <1>1, <1>4, OutgoingAssumption DEF D!Time
<1> QED BY <1>1, <1>5, <1>6 DEF SentTo

(* For any window, page and rewind: no hole behind the destination's       *)
(* newest row, where nothing would be sent again (dataout/sync.py).        *)
THEOREM DestinationIsWhole == Spec => []NoHoleAtDestination
<1>1. Init => DInv
  BY DestStarts DEF Init
<1>2. DInv /\ [Next]_vars => DInv'
  <2> SUFFICES ASSUME DInv, [Next]_vars PROVE DInv'
    OBVIOUS
  <2>1. CASE Copies /\ D!Next
    BY <2>1, DestStep
  <2>2. CASE UNCHANGED dest_vars
    <3>1. UNCHANGED <<now, l1, l2, table, dest, dest_work>>
      BY <2>2 DEF dest_vars
    <3> QED BY <3>1, CopyMoves DEF DInv, DestTypes
  <2> QED BY <2>1, <2>2 DEF Next, vars, Uploads, Copies, Pushes
<1>3. DInv => NoHoleAtDestination
  BY DestShown DEF NoHoleAtDestination
<1> QED BY <1>1, <1>2, <1>3, PTL DEF Spec

-----------------------------------------------------------------------------
(* Items to the central server.                                            *)

\* The server has the row, or will be sent it, or a request has cut it off.
Settled(kind, i) == srv[kind][i] = rows[kind][i] \/ C!CutOff(kind, i)

\* What is sent of a row.
ItemOf(kind, i) == [id |-> i, row |-> rows[kind][i]]

Present(kind) == {i \in C!IdOf(kind) : rows[kind][i] # C!Gone}

\* Rows are written later than whatever the server has.
StampsArePast ==
    \A kind \in C!Kind, i \in C!Id : rows[kind][i].stamp <= clock /\ srv[kind][i].stamp <= clock

\* NothingStranded, of every row that the server has.
BehindIsSettled ==
    \A kind \in C!Kind : \A i \in Present(kind) :
        (\E j \in C!Id : rows[kind][i].stamp <= srv[kind][j].stamp) => Settled(kind, i)

\* What the server was asked is so until that kind is sent.
MarksAreTrue ==
    /\ push_work.pc \in {"meters"} => push_work.marks["billing"] = C!Newest(C!Stamps(srv["billing"]))
    /\ push_work.pc \in {"meters", "billing"} =>
         push_work.marks["energy_summary"] = C!Newest(C!Stamps(srv["energy_summary"]))

\* What is to be sent of a kind: each row at most once, newer than the server's,
\* and written over by nothing older.
ItemsAreNews ==
    push_work.pc \in C!Kind =>
      /\ \A c \in push_work.items :
           /\ c.row.stamp <= clock
           /\ srv[push_work.pc][c.id].stamp < c.row.stamp
           /\ LET row == rows[push_work.pc][c.id] IN
              row = C!Gone \/ row = c.row \/ row.stamp > c.row.stamp
      /\ \A c, d \in push_work.items : c.id = d.id => c = d

\* A row that is not to be sent, nor with the server, is newer than all that is.
RestIsNewer ==
    push_work.pc \in C!Kind =>
      \A i \in Present(push_work.pc) :
        \/ Settled(push_work.pc, i)
        \/ ItemOf(push_work.pc, i) \in push_work.items
        \/ \A c \in push_work.items : c.row.stamp < rows[push_work.pc][i].stamp

PushTypes ==
    /\ clock \in 1 .. MaxClock
    /\ rows \in [C!Kind -> [C!Id -> C!Row]] /\ srv \in [C!Kind -> [C!Id -> C!Row]]
    /\ \A k \in C!Kind, i \in C!Id : rows[k][i] = C!Gone \/ rows[k][i].stamp > 0
    /\ spoilt \in BOOLEAN
    /\ {"pc", "items", "marks", "mark", "progress"} \subseteq DOMAIN push_work
    /\ push_work.pc = "idle" => push_work = C!Idle
    /\ push_work.pc \in C!Kind => \A c \in push_work.items : c.id \in C!IdOf(push_work.pc) /\ c.row \in C!Row

CInv ==
    /\ PushTypes
    /\ ~spoilt => /\ StampsArePast /\ BehindIsSettled
                  /\ MarksAreTrue /\ ItemsAreNews /\ RestIsNewer

-----------------------------------------------------------------------------
(* Stamps, and what they tell of the server.                               *)

\* The newest stamp of a table.
LEMMA NewestStamp ==
    ASSUME NEW tab \in [C!Id -> C!Row]
    PROVE  /\ C!Newest(C!Stamps(tab)) \in Nat
           /\ \A i \in C!Id : tab[i].stamp <= C!Newest(C!Stamps(tab))
           /\ C!Newest(C!Stamps(tab)) = 0 \/ \E i \in C!Id : C!Newest(C!Stamps(tab)) = tab[i].stamp
<1> DEFINE T == C!Stamps(tab) \cup {0}
<1>1. \A i \in C!Id : tab[i].stamp \in 0 .. MaxClock
  BY DEF C!Row
<1>2. T \in SUBSET (0 .. MaxClock) /\ T # {}
  BY <1>1, OutgoingAssumption DEF C!Stamps
<1>3. C!Max(T) \in T /\ \A y \in T : C!Max(T) >= y
  <2> HIDE DEF T
  <2> QED BY <1>2, HasMost, OutgoingAssumption
<1>4. PICK m \in 0 .. MaxClock : m = C!Newest(C!Stamps(tab)) /\ m \in T /\ \A y \in T : m >= y
  BY <1>2, <1>3 DEF C!Newest
<1>5. \A i \in C!Id : m >= tab[i].stamp
  BY <1>4 DEF C!Stamps
<1>6. m = 0 \/ \E i \in C!Id : m = tab[i].stamp
  BY <1>4 DEF C!Stamps
<1> QED BY <1>1, <1>4, <1>5, <1>6, OutgoingAssumption

LEMMA TwoKinds ==
    /\ "billing" \in C!Kind /\ "energy_summary" \in C!Kind
    /\ \A kind \in C!Kind : kind = "billing" \/ kind = "energy_summary"
    /\ \A kind \in C!Kind : C!IdOf(kind) \subseteq C!Id
    /\ "idle" \notin C!Kind /\ "meters" \notin C!Kind /\ "load_profile" \notin C!Kind
    /\ "holdings" \notin C!Kind
BY DEF C!Kind, C!IdOf, C!Id

LEMMA GoneIsARow == C!Gone \in C!Row /\ C!Gone.stamp = 0
BY OutgoingAssumption DEF C!Gone, C!Row

LEMMA StampsAreTimes == \A r \in C!Row : r.stamp \in Nat
BY OutgoingAssumption DEF C!Row

LEMMA PushStarts == C!Init => CInv
<1> SUFFICES ASSUME C!Init PROVE CInv
  OBVIOUS
<1>1. C!Empty \in [C!Kind -> [C!Id -> C!Row]] /\ \A k \in C!Kind, i \in C!Id : C!Empty[k][i] = C!Gone
  BY GoneIsARow DEF C!Empty
<1>2. /\ push_work = C!Idle /\ C!Idle.pc = "idle"
      /\ {"pc", "items", "marks", "mark", "progress"} \subseteq DOMAIN C!Idle
  BY DEF C!Init, C!Idle
<1>3. PushTypes
  <2>0. clock = 1 /\ spoilt = FALSE
    BY DEF C!Init
  <2>1. clock \in 1 .. MaxClock
    BY <2>0, OutgoingAssumption
  <2>4. spoilt \in BOOLEAN
    BY DEF C!Init
  <2>2. /\ rows \in [C!Kind -> [C!Id -> C!Row]] /\ srv \in [C!Kind -> [C!Id -> C!Row]]
        /\ \A k \in C!Kind, i \in C!Id : rows[k][i] = C!Gone
    BY <1>1 DEF C!Init
  <2>3. push_work.pc \notin C!Kind
    BY <1>2, TwoKinds
  <2> QED BY <1>2, <2>1, <2>2, <2>3, <2>4 DEF PushTypes
<1>4. StampsArePast
  BY <1>1, GoneIsARow DEF C!Init, StampsArePast
<1>5. BehindIsSettled
  BY <1>1, TwoKinds DEF C!Init, BehindIsSettled, Present
<1>6. MarksAreTrue /\ ItemsAreNews /\ RestIsNewer
  BY <1>2, TwoKinds DEF MarksAreTrue, ItemsAreNews, RestIsNewer
<1> QED BY <1>3, <1>4, <1>5, <1>6 DEF CInv

-----------------------------------------------------------------------------
(* What the machine writes.                                                *)

\* Rows are written later than what was sent, whatever is on its way.
LEMMA RowsMoveOn ==
    ASSUME CInv, PushTypes', UNCHANGED <<srv, push_work, spoilt, parted>>, clock <= clock',
           \A k \in C!Kind, i \in C!Id :
              \/ rows'[k][i] = rows[k][i] \/ rows'[k][i] = C!Gone
              \/ clock < rows'[k][i].stamp /\ rows'[k][i].stamp <= clock'
    PROVE  CInv'
<1> SUFFICES ASSUME ~spoilt
             PROVE  StampsArePast' /\ BehindIsSettled' /\ MarksAreTrue' /\ ItemsAreNews' /\ RestIsNewer'
  BY DEF CInv
<1>0. StampsArePast /\ BehindIsSettled /\ MarksAreTrue /\ ItemsAreNews /\ RestIsNewer /\ PushTypes
  BY DEF CInv
<1>1. clock \in Nat /\ clock' \in Nat
  BY <1>0, OutgoingAssumption DEF PushTypes
<1>2. \A k \in C!Kind, i \in C!Id : rows[k][i] \in C!Row /\ rows'[k][i] \in C!Row /\ srv[k][i] \in C!Row
  BY <1>0 DEF PushTypes
<1>3. \A k \in C!Kind, i \in C!Id : /\ rows[k][i].stamp \in Nat /\ rows'[k][i].stamp \in Nat
                                     /\ srv[k][i].stamp \in Nat
  BY <1>2, StampsAreTimes
<1>4. StampsArePast'
  <2> SUFFICES ASSUME NEW k \in C!Kind, NEW i \in C!Id
               PROVE  rows'[k][i].stamp <= clock' /\ srv[k][i].stamp <= clock'
    BY DEF StampsArePast
  <2>1. rows[k][i].stamp <= clock /\ srv[k][i].stamp <= clock
    BY <1>0 DEF StampsArePast
  <2>2. srv[k][i].stamp <= clock'
    BY <2>1, <1>1, <1>3
  <2>3. CASE rows'[k][i] = rows[k][i]
    BY <2>1, <2>2, <2>3, <1>1, <1>3
  <2>4. CASE rows'[k][i] = C!Gone
    BY <2>2, <2>4, <1>1, GoneIsARow
  <2> QED BY <2>2, <2>3, <2>4
<1>5. ASSUME NEW k \in C!Kind, NEW i \in C!Id, rows'[k][i] # C!Gone, rows'[k][i] # rows[k][i]
      PROVE  clock < rows'[k][i].stamp
  BY <1>5
<1>6. BehindIsSettled'
  <2> SUFFICES ASSUME NEW k \in C!Kind, NEW i \in C!IdOf(k), rows'[k][i] # C!Gone,
                      NEW j \in C!Id, rows'[k][i].stamp <= srv[k][j].stamp
               PROVE  Settled(k, i)'
    BY DEF BehindIsSettled, Present
  <2>0. i \in C!Id
    BY TwoKinds
  <2>1. srv[k][j].stamp <= clock
    BY <1>0 DEF StampsArePast
  <2>2. rows'[k][i] = rows[k][i]
    <3>1. ~(clock < rows'[k][i].stamp)
      BY <2>0, <2>1, <1>1, <1>3
    <3> QED BY <3>1, <2>0, <1>5
  <2>3. i \in Present(k) /\ rows[k][i].stamp <= srv[k][j].stamp
    BY <2>2 DEF Present
  <2>4. Settled(k, i)
    BY <2>3, <1>0 DEF BehindIsSettled
  <2> QED BY <2>2, <2>4 DEF Settled, C!CutOff
<1>7. MarksAreTrue'
  BY <1>0 DEF MarksAreTrue, C!Newest, C!Stamps
<1>8. ASSUME push_work.pc \in C!Kind PROVE ItemsAreNews'
  <2>1. \A c, d \in push_work.items : c.id = d.id => c = d
    BY <1>0, <1>8 DEF ItemsAreNews
  <2>2. ASSUME NEW c \in push_work.items
        PROVE  /\ c.row.stamp <= clock' /\ srv[push_work.pc][c.id].stamp < c.row.stamp
               /\ \/ rows'[push_work.pc][c.id] = C!Gone \/ rows'[push_work.pc][c.id] = c.row
                  \/ rows'[push_work.pc][c.id].stamp > c.row.stamp
    <3>1. c.id \in C!Id /\ c.row \in C!Row /\ c.row.stamp \in Nat
      BY <1>0, <1>8, TwoKinds, StampsAreTimes DEF PushTypes
    <3>2. /\ c.row.stamp <= clock /\ srv[push_work.pc][c.id].stamp < c.row.stamp
          /\ \/ rows[push_work.pc][c.id] = C!Gone \/ rows[push_work.pc][c.id] = c.row
             \/ rows[push_work.pc][c.id].stamp > c.row.stamp
      BY <1>0, <1>8 DEF ItemsAreNews
    <3>3. c.row.stamp <= clock'
      BY <3>1, <3>2, <1>1
    <3>4. CASE rows'[push_work.pc][c.id] = rows[push_work.pc][c.id]
      BY <3>2, <3>3, <3>4
    <3>5. CASE clock < rows'[push_work.pc][c.id].stamp
      <4>1. rows'[push_work.pc][c.id].stamp > c.row.stamp
        BY <3>1, <3>2, <3>5, <1>1, <1>3, <1>8
      <4> QED BY <3>2, <3>3, <4>1
    <3> QED BY <3>1, <3>2, <3>3, <3>4, <3>5, <1>8
  <2> QED BY <2>1, <2>2, <1>8 DEF ItemsAreNews
<1>9. ASSUME push_work.pc \in C!Kind PROVE RestIsNewer'
  <2> SUFFICES ASSUME NEW i \in C!IdOf(push_work.pc), rows'[push_work.pc][i] # C!Gone
               PROVE  \/ Settled(push_work.pc, i)' \/ ItemOf(push_work.pc, i)' \in push_work.items
                      \/ \A c \in push_work.items : c.row.stamp < rows'[push_work.pc][i].stamp
    BY DEF RestIsNewer, Present
  <2>0. i \in C!Id
    BY <1>9, TwoKinds
  <2>1. CASE rows'[push_work.pc][i] = rows[push_work.pc][i]
    <3>1. \/ Settled(push_work.pc, i) \/ ItemOf(push_work.pc, i) \in push_work.items
          \/ \A c \in push_work.items : c.row.stamp < rows[push_work.pc][i].stamp
      BY <1>0, <1>9, <2>1 DEF RestIsNewer, Present
    <3> QED BY <3>1, <2>1 DEF Settled, C!CutOff, ItemOf
  <2>2. CASE rows'[push_work.pc][i] # rows[push_work.pc][i]
    <3>1. clock < rows'[push_work.pc][i].stamp
      BY <2>0, <2>2, <1>5, <1>9
    <3>2. ASSUME NEW c \in push_work.items PROVE c.row.stamp < rows'[push_work.pc][i].stamp
      <4>1. c.row.stamp <= clock /\ c.row.stamp \in Nat
        BY <1>0, <1>9, StampsAreTimes DEF ItemsAreNews, PushTypes
      <4> QED BY <4>1, <3>1, <2>0, <1>1, <1>3, <1>9
    <3> QED BY <3>2
  <2> QED BY <2>1, <2>2
<1>10. ItemsAreNews' /\ RestIsNewer'
  <2>1. CASE push_work.pc \in C!Kind
    BY <2>1, <1>8, <1>9
  <2>2. CASE push_work.pc \notin C!Kind
    BY <2>2 DEF ItemsAreNews, RestIsNewer
  <2> QED BY <2>1, <2>2
<1> QED BY <1>4, <1>6, <1>7, <1>10

LEMMA BillsAreRead ==
    ASSUME CInv, NEW changed \in SUBSET Bill, C!BillingRead(changed)
    PROVE  CInv'
<1>1. /\ clock < MaxClock /\ clock' = clock + 1
      /\ UNCHANGED <<spoilt, srv, push_work, parted>>
  BY DEF C!BillingRead, C!server
<1>2. PushTypes
  BY DEF CInv
<1>3. clock \in 1 .. MaxClock /\ clock' \in 1 .. MaxClock /\ clock <= clock'
  BY <1>1, <1>2, OutgoingAssumption DEF PushTypes
<1> DEFINE New(i) == IF i \in changed THEN [content |-> {clock}, stamp |-> clock'] ELSE rows["billing"][i]
<1>4. rows' = [rows EXCEPT !["billing"] = [i \in C!Id |-> New(i)]]
  BY DEF C!BillingRead
<1>5. ASSUME NEW i \in C!Id PROVE New(i) \in C!Row
  <2>1. rows["billing"][i] \in C!Row
    BY <1>2, TwoKinds DEF PushTypes
  <2>2. [content |-> {clock}, stamp |-> clock'] \in C!Row
    BY <1>3, OutgoingAssumption DEF C!Row
  <2> QED BY <2>1, <2>2
<1>6. [i \in C!Id |-> New(i)] \in [C!Id -> C!Row]
  <2> HIDE DEF New
  <2> QED BY <1>5
<1>7. ASSUME NEW i \in C!Id PROVE New(i) = rows["billing"][i] \/ New(i).stamp = clock'
  OBVIOUS
<1> HIDE DEF New
<1>8. rows' \in [C!Kind -> [C!Id -> C!Row]]
  BY <1>2, <1>4, <1>6 DEF PushTypes
<1>9. \A k \in C!Kind, i \in C!Id : rows'[k][i] = rows[k][i] \/ rows'[k][i].stamp = clock'
  <2> TAKE k \in C!Kind, i \in C!Id
  <2>1. CASE k = "billing"
    <3>1. rows'[k][i] = New(i)
      BY <1>2, <1>4, <2>1 DEF PushTypes
    <3> QED BY <3>1, <2>1, <1>7
  <2>2. CASE k # "billing"
    BY <1>2, <1>4, <2>2 DEF PushTypes
  <2> QED BY <2>1, <2>2
<1>10. \A k \in C!Kind, i \in C!Id : rows'[k][i] = rows[k][i] \/ (clock < rows'[k][i].stamp /\ rows'[k][i].stamp <= clock')
  BY <1>1, <1>3, <1>9, OutgoingAssumption
<1>11. PushTypes'
  <2>1. \A k \in C!Kind, i \in C!Id : rows'[k][i] = C!Gone \/ rows'[k][i].stamp > 0
    BY <1>2, <1>3, <1>9, OutgoingAssumption DEF PushTypes
  <2> QED BY <1>1, <1>2, <1>3, <1>8, <2>1 DEF PushTypes
<1> QED BY <1>1, <1>3, <1>10, <1>11, RowsMoveOn

\* A day is as it was, gone, or has the stamp of its recompute.
LEMMA DayIsRecomputed ==
    ASSUME CInv, NEW d \in C!Day, NEW stamp \in 0 .. MaxClock
    PROVE  /\ C!Recomputed(d, stamp) \in C!Row
           /\ \/ C!Recomputed(d, stamp) \in {rows["energy_summary"][d], C!Gone}
              \/ C!Recomputed(d, stamp).stamp = stamp
<1>1. rows["energy_summary"][d] \in C!Row
  BY TwoKinds DEF CInv, PushTypes, C!Id
<1>2. C!Summary(d) \in SUBSET (0 .. MaxClock + MaxDay)
  BY OutgoingAssumption DEF C!Summary, C!Day, C!Holiday
<1>3. [content |-> C!Summary(d), stamp |-> stamp] \in C!Row
  BY <1>2 DEF C!Row
<1> QED BY <1>1, <1>3, GoneIsARow DEF C!Recomputed

LEMMA SummaryIsRecomputed ==
    ASSUME CInv, C!energy_summary_recompute_cycle
    PROVE  CInv'
<1>1. /\ clock < MaxClock /\ clock' = clock + 1
      /\ UNCHANGED <<spoilt, srv, push_work, parted>>
  BY DEF C!energy_summary_recompute_cycle, C!server
<1>2. PushTypes
  BY DEF CInv
<1>3. clock \in 1 .. MaxClock /\ clock' \in 0 .. MaxClock /\ clock' \in 1 .. MaxClock /\ clock <= clock'
  BY <1>1, <1>2, OutgoingAssumption DEF PushTypes
<1> DEFINE New(i) == IF i \in C!Day THEN C!Recomputed(i, clock') ELSE C!Gone
<1>4. rows' = [rows EXCEPT !["energy_summary"] = [i \in C!Id |-> New(i)]]
  BY DEF C!energy_summary_recompute_cycle
<1>5. ASSUME NEW i \in C!Id
      PROVE  New(i) \in C!Row /\ (New(i) \in {rows["energy_summary"][i], C!Gone} \/ New(i).stamp = clock')
  BY <1>3, DayIsRecomputed, GoneIsARow
<1> HIDE DEF New
<1>6. [i \in C!Id |-> New(i)] \in [C!Id -> C!Row]
  BY <1>5
<1>8. rows' \in [C!Kind -> [C!Id -> C!Row]]
  BY <1>2, <1>4, <1>6 DEF PushTypes
<1>9. \A k \in C!Kind, i \in C!Id : rows'[k][i] = rows[k][i] \/ rows'[k][i] = C!Gone \/ rows'[k][i].stamp = clock'
  <2> TAKE k \in C!Kind, i \in C!Id
  <2>1. CASE k = "energy_summary"
    <3>1. rows'[k][i] = New(i)
      BY <1>2, <1>4, <2>1 DEF PushTypes
    <3> QED BY <3>1, <2>1, <1>5
  <2>2. CASE k # "energy_summary"
    BY <1>2, <1>4, <2>2 DEF PushTypes
  <2> QED BY <2>1, <2>2
<1>10. \A k \in C!Kind, i \in C!Id :
         \/ rows'[k][i] = rows[k][i] \/ rows'[k][i] = C!Gone
         \/ clock < rows'[k][i].stamp /\ rows'[k][i].stamp <= clock'
  BY <1>1, <1>3, <1>9, OutgoingAssumption
<1>11. PushTypes'
  <2>1. \A k \in C!Kind, i \in C!Id : rows'[k][i] = C!Gone \/ rows'[k][i].stamp > 0
    BY <1>2, <1>3, <1>9, OutgoingAssumption DEF PushTypes
  <2> QED BY <1>1, <1>2, <1>3, <1>8, <2>1 DEF PushTypes
<1> QED BY <1>1, <1>3, <1>10, <1>11, RowsMoveOn

LEMMA ReadingsAreCleared ==
    ASSUME CInv, C!clear_readings
    PROVE  CInv'
<1>1. /\ rows' = [rows EXCEPT !["billing"] = C!Empty["billing"]]
      /\ UNCHANGED <<clock, spoilt, srv, push_work, parted>>
  BY DEF C!clear_readings, C!server
<1>2. PushTypes
  BY DEF CInv
<1>3. C!Empty["billing"] \in [C!Id -> C!Row] /\ \A i \in C!Id : C!Empty["billing"][i] = C!Gone
  BY TwoKinds, GoneIsARow DEF C!Empty
<1>4. rows' \in [C!Kind -> [C!Id -> C!Row]]
  BY <1>1, <1>2, <1>3 DEF PushTypes
<1>5. \A k \in C!Kind, i \in C!Id : rows'[k][i] = rows[k][i] \/ rows'[k][i] = C!Gone
  BY <1>1, <1>2, <1>3 DEF PushTypes
<1>6. PushTypes' /\ clock <= clock'
  BY <1>1, <1>2, <1>4, <1>5, OutgoingAssumption DEF PushTypes
<1> QED BY <1>1, <1>5, <1>6, RowsMoveOn

-----------------------------------------------------------------------------
(* The cycle.                                                              *)

\* Steps that send nothing and leave a cycle that sends no kind.
LEMMA PushMoves ==
    ASSUME CInv, UNCHANGED <<clock, rows, srv, spoilt, parted>>,
           {"pc", "items", "marks", "mark", "progress"} \subseteq DOMAIN push_work',
           push_work'.pc = "idle" => push_work' = C!Idle,
           push_work'.pc \notin C!Kind, ~spoilt => MarksAreTrue'
    PROVE  CInv'
<1>1. PushTypes'
  BY DEF CInv, PushTypes
<1>2. StampsArePast => StampsArePast'
  BY DEF StampsArePast
<1>3. BehindIsSettled => BehindIsSettled'
  BY DEF BehindIsSettled, Present, Settled, C!CutOff
<1>4. ItemsAreNews' /\ RestIsNewer'
  BY DEF ItemsAreNews, RestIsNewer
<1> QED BY <1>1, <1>2, <1>3, <1>4 DEF CInv

LEMMA IdlePush ==
    /\ C!Idle.pc = "idle" /\ {"pc", "items", "marks", "mark", "progress"} \subseteq DOMAIN C!Idle
    /\ C!Idle.pc \notin C!Kind
BY TwoKinds DEF C!Idle

LEMMA PushStops ==
    ASSUME CInv, UNCHANGED <<clock, rows, srv, spoilt, parted>>, push_work' = C!Idle
    PROVE  CInv'
<1>1. MarksAreTrue'
  BY IdlePush DEF MarksAreTrue
<1> QED BY <1>1, IdlePush, PushMoves

LEMMA PushCycleStarts ==
    ASSUME CInv, C!Start
    PROVE  CInv'
<1>1. UNCHANGED <<clock, rows, srv, spoilt, parted>> /\ push_work' = [C!Idle EXCEPT !.pc = "holdings"]
  BY DEF C!Start, C!here, C!server
<1>2. push_work'.pc = "holdings" /\ {"pc", "items", "marks", "mark", "progress"} \subseteq DOMAIN push_work'
  BY <1>1, IdlePush
<1>3. MarksAreTrue'
  BY <1>2 DEF MarksAreTrue
<1> QED BY <1>1, <1>2, <1>3, TwoKinds, PushMoves

LEMMA HoldingsAreRead ==
    ASSUME CInv, C!fetch_holdings
    PROVE  CInv'
<1>1. UNCHANGED <<clock, rows, srv, spoilt, parted>>
  BY DEF C!fetch_holdings, C!here, C!server
<1>2. CASE ~srv_speaks
  BY <1>1, <1>2, PushStops DEF C!fetch_holdings, C!Ends
<1>3. CASE srv_speaks
  <2>1. push_work' = [push_work EXCEPT !.pc = "meters", !.marks = [k \in C!Kind |-> C!Newest(C!Stamps(srv[k]))],
                             !.mark = C!Newest(srv_intervals)]
    BY <1>3 DEF C!fetch_holdings
  <2>2. /\ push_work'.pc = "meters" /\ push_work'.marks = [k \in C!Kind |-> C!Newest(C!Stamps(srv[k]))]
        /\ {"pc", "items", "marks", "mark", "progress"} \subseteq DOMAIN push_work'
    BY <2>1 DEF CInv, PushTypes
  <2>3. MarksAreTrue'
    <3>1. \A k \in C!Kind : push_work'.marks[k] = C!Newest(C!Stamps(srv[k]))
      BY <2>2
    <3>2. srv' = srv
      BY <1>1
    <3> QED BY <3>1, <3>2, TwoKinds DEF MarksAreTrue
  <2> QED BY <1>1, <2>2, <2>3, TwoKinds, PushMoves
<1> QED BY <1>2, <1>3

\* A kind's turn: what is newer than the server's newest.
LEMMA KindIsTaken ==
    ASSUME CInv, NEW kind \in C!Kind, C!To(kind),
           UNCHANGED <<clock, rows, srv, spoilt, parted>>,
           ~spoilt => push_work.marks[kind] = C!Newest(C!Stamps(srv[kind])),
           ~spoilt => MarksAreTrue'
    PROVE  CInv'
<1>0. PushTypes /\ kind # "load_profile"
  BY TwoKinds DEF CInv
<1>1. push_work' = [push_work EXCEPT !.pc = kind, !.items = C!Newer(kind)]
  BY <1>0 DEF C!To
<1>2. /\ push_work'.pc = kind /\ push_work'.items = C!Newer(kind)
      /\ {"pc", "items", "marks", "mark", "progress"} \subseteq DOMAIN push_work'
  BY <1>0, <1>1 DEF PushTypes
<1>3. C!Newer(kind) = {ItemOf(kind, i) : i \in {j \in C!IdOf(kind) : /\ rows[kind][j] # C!Gone
                                                                       /\ rows[kind][j].stamp > push_work.marks[kind]}}
  BY DEF C!Newer, ItemOf
<1>4. \A c \in C!Newer(kind) : /\ c.id \in C!IdOf(kind) /\ c.row = rows[kind][c.id] /\ c = ItemOf(kind, c.id)
                                /\ c.row # C!Gone /\ c.row.stamp > push_work.marks[kind]
  BY <1>3 DEF ItemOf
<1>5. \A i \in C!Id : rows[kind][i] \in C!Row /\ rows[kind][i].stamp \in Nat
  BY <1>0, StampsAreTimes DEF PushTypes
<1> HIDE DEF C!Newer
<1>6. PushTypes'
  <2>1. \A c \in push_work'.items : c.id \in C!IdOf(push_work'.pc) /\ c.row \in C!Row
    BY <1>2, <1>4, <1>5, TwoKinds
  <2> QED BY <1>0, <1>2, <2>1, TwoKinds DEF PushTypes
<1> SUFFICES ASSUME ~spoilt
             PROVE  StampsArePast' /\ BehindIsSettled' /\ MarksAreTrue' /\ ItemsAreNews' /\ RestIsNewer'
  BY <1>6 DEF CInv
<1>7. StampsArePast /\ BehindIsSettled
  BY DEF CInv
<1>8. StampsArePast' /\ BehindIsSettled'
  BY <1>7 DEF StampsArePast, BehindIsSettled, Present, Settled, C!CutOff
<1>9. srv[kind] \in [C!Id -> C!Row] /\ push_work.marks[kind] = C!Newest(C!Stamps(srv[kind]))
  BY <1>0 DEF PushTypes
<1>10. /\ push_work.marks[kind] \in Nat
       /\ \A i \in C!Id : srv[kind][i].stamp <= push_work.marks[kind] /\ srv[kind][i].stamp \in Nat
       /\ push_work.marks[kind] = 0 \/ \E i \in C!Id : push_work.marks[kind] = srv[kind][i].stamp
  BY <1>9, NewestStamp, StampsAreTimes
<1>11. ItemsAreNews'
  <2>1. \A c, d \in C!Newer(kind) : c.id = d.id => c = d
    BY <1>4
  <2>2. ASSUME NEW c \in C!Newer(kind)
        PROVE  c.row.stamp <= clock /\ srv[kind][c.id].stamp < c.row.stamp /\ rows[kind][c.id] = c.row
    <3>1. c.id \in C!Id /\ c.row = rows[kind][c.id] /\ c.row.stamp > push_work.marks[kind]
      BY <1>4, TwoKinds
    <3>2. c.row.stamp <= clock
      BY <3>1, <1>7 DEF StampsArePast
    <3>3. srv[kind][c.id].stamp < c.row.stamp
      BY <3>1, <1>5, <1>10
    <3> QED BY <3>1, <3>2, <3>3
  <2> QED BY <1>2, <2>1, <2>2 DEF ItemsAreNews
<1>12. RestIsNewer'
  <2> SUFFICES ASSUME NEW i \in C!IdOf(kind), rows[kind][i] # C!Gone
               PROVE  Settled(kind, i)' \/ ItemOf(kind, i)' \in C!Newer(kind)
    BY <1>2 DEF RestIsNewer, Present
  <2>0. i \in C!Id
    BY TwoKinds
  <2>1. CASE rows[kind][i].stamp > push_work.marks[kind]
    <3>1. ItemOf(kind, i) \in C!Newer(kind)
      BY <2>1, <1>3
    <3> QED BY <3>1 DEF ItemOf
  <2>2. CASE ~(rows[kind][i].stamp > push_work.marks[kind])
    <3>1. \E j \in C!Id : rows[kind][i].stamp <= srv[kind][j].stamp
      <4>1. rows[kind][i].stamp <= push_work.marks[kind]
        BY <2>0, <2>2, <1>5, <1>10
      <4>2. CASE push_work.marks[kind] = 0
        <5>1. rows[kind][i].stamp <= srv[kind][i].stamp
          BY <2>0, <4>1, <4>2, <1>5, <1>10
        <5> QED BY <2>0, <5>1
      <4>3. CASE \E j \in C!Id : push_work.marks[kind] = srv[kind][j].stamp
        BY <4>1, <4>3
      <4> QED BY <4>2, <4>3, <1>10
    <3>2. Settled(kind, i)
      BY <3>1, <1>7 DEF BehindIsSettled, Present
    <3> QED BY <3>2 DEF Settled, C!CutOff
  <2> QED BY <2>1, <2>2
<1> QED BY <1>8, <1>11, <1>12

LEMMA TurnIsTaken ==
    ASSUME CInv, C!_send_meters \/ C!NextKind
    PROVE  CInv'
<1>0. UNCHANGED <<clock, rows, srv, spoilt, parted>>
  BY DEF C!_send_meters, C!NextKind, C!here, C!server
<1>1. CASE C!_send_meters
  <2>1. push_work.pc = "meters" /\ C!To("billing")
    BY <1>1 DEF C!_send_meters
  <2>2. push_work'.pc = "billing" /\ push_work'.marks = push_work.marks
    BY <2>1 DEF C!To, CInv, PushTypes
  <2>3. ASSUME ~spoilt
        PROVE  /\ push_work.marks["billing"] = C!Newest(C!Stamps(srv["billing"]))
               /\ MarksAreTrue'
    <3>1. /\ push_work.marks["billing"] = C!Newest(C!Stamps(srv["billing"]))
          /\ push_work.marks["energy_summary"] = C!Newest(C!Stamps(srv["energy_summary"]))
      BY <2>1, <2>3 DEF CInv, MarksAreTrue
    <3>2. srv' = srv
      BY <1>0
    <3> QED BY <2>2, <3>1, <3>2 DEF MarksAreTrue
  <2> QED BY <1>0, <2>1, <2>3, TwoKinds, KindIsTaken
<1>2. CASE C!NextKind /\ push_work.pc = "billing"
  <2>1. C!To("energy_summary")
    BY <1>2 DEF C!NextKind, C!After
  <2>2. push_work'.pc = "energy_summary"
    BY <2>1 DEF C!To, CInv, PushTypes
  <2>3. MarksAreTrue'
    BY <2>2 DEF MarksAreTrue
  <2>4. ~spoilt => push_work.marks["energy_summary"] = C!Newest(C!Stamps(srv["energy_summary"]))
    BY <1>2 DEF CInv, MarksAreTrue
  <2> QED BY <1>0, <2>1, <2>3, <2>4, TwoKinds, KindIsTaken
<1>3. CASE C!NextKind /\ push_work.pc = "energy_summary"
  <2>1. C!To("load_profile")
    BY <1>3 DEF C!NextKind, C!After
  <2>2. /\ push_work'.pc = "load_profile" /\ {"pc", "items", "marks", "mark", "progress"} \subseteq DOMAIN push_work'
    BY <2>1 DEF C!To, CInv, PushTypes
  <2>3. MarksAreTrue'
    BY <2>2 DEF MarksAreTrue
  <2> QED BY <1>0, <2>2, <2>3, TwoKinds, PushMoves
<1>4. CASE C!NextKind /\ push_work.pc = "load_profile"
  BY <1>0, <1>4, PushStops DEF C!NextKind, C!Ends
<1> QED BY <1>1, <1>2, <1>3, <1>4, TwoKinds DEF C!NextKind

-----------------------------------------------------------------------------
(* A request: the oldest of what is to be sent.                            *)

\* What the server has after a request, row by row, and what the request cut off.
LEMMA ServerHears ==
    ASSUME CInv, ~spoilt, NEW kind \in C!Kind, push_work.pc = kind, NEW chunk \in C!Chunk, C!Accepted(chunk),
           UNCHANGED <<clock, rows>>
    PROVE  /\ StampsArePast' /\ BehindIsSettled'
           /\ \A i \in Present(kind) :
                 \/ Settled(kind, i)'
                 \/ ItemOf(kind, i) \in push_work.items \ chunk
                 \/ \A c \in push_work.items : c.row.stamp < rows[kind][i].stamp
           /\ \A i \in C!Id : (\A c \in chunk : c.id # i) => srv'[kind][i] = srv[kind][i]
           /\ \A k \in C!Kind : k # kind => srv'[k] = srv[k]
<1>0. /\ PushTypes /\ StampsArePast /\ BehindIsSettled /\ ItemsAreNews /\ RestIsNewer
      /\ push_work.pc # "load_profile" /\ push_work.pc = kind
  BY TwoKinds DEF CInv
<1>1. /\ chunk \subseteq push_work.items
      /\ \A c \in chunk, d \in push_work.items \ chunk : c.row.stamp <= d.row.stamp
  BY DEF C!Chunk
<1>2. \A c \in push_work.items : /\ c.id \in C!IdOf(kind) /\ c.id \in C!Id /\ c.row \in C!Row /\ c.row.stamp \in Nat
                                  /\ c.row.stamp <= clock
  BY <1>0, TwoKinds, StampsAreTimes DEF PushTypes, ItemsAreNews
<1>3. \A c, d \in push_work.items : c.id = d.id => c = d
  BY <1>0 DEF ItemsAreNews
<1>4. /\ \A k \in C!Kind : k # kind => srv'[k] = srv[k]
      /\ \A i \in C!Id : srv'[kind][i] = IF \E c \in chunk : c.id = i
                                           THEN (CHOOSE c \in chunk : c.id = i).row
                                           ELSE srv[kind][i]
  <2> DEFINE New(i) == IF \E c \in chunk : c.id = i THEN (CHOOSE c \in chunk : c.id = i).row
                       ELSE srv[kind][i]
  <2>1. srv' = [srv EXCEPT ![kind] = [i \in C!Id |-> New(i)]]
    BY <1>0 DEF C!Accepted
  <2> HIDE DEF New
  <2>2. /\ \A k \in C!Kind : k # kind => srv'[k] = srv[k]
        /\ \A i \in C!Id : srv'[kind][i] = New(i)
    BY <1>0, <2>1 DEF PushTypes
  <2> QED BY <2>2 DEF New
<1>5. \A c \in chunk : srv'[kind][c.id] = c.row
  <2> TAKE c \in chunk
  <2>1. (CHOOSE d \in chunk : d.id = c.id) = c
    BY <1>1, <1>3
  <2> QED BY <2>1, <1>1, <1>2, <1>4
<1>6. \A i \in C!Id : (\A c \in chunk : c.id # i) => srv'[kind][i] = srv[kind][i]
  BY <1>4
<1>7. \A k \in C!Kind, i \in C!Id : /\ rows[k][i] \in C!Row /\ srv[k][i] \in C!Row
                                     /\ rows[k][i].stamp \in Nat /\ srv[k][i].stamp \in Nat
  BY <1>0, StampsAreTimes DEF PushTypes
<1>8. parted' = (parted \ {<<kind, c>> : c \in chunk}) \cup
                  {<<kind, i>> : i \in {j \in push_work.items \ chunk :
                      \E c \in chunk : c.row.stamp = j.row.stamp}}
  BY <1>0 DEF C!Accepted
<1>9. StampsArePast'
  <2> SUFFICES ASSUME NEW k \in C!Kind, NEW i \in C!Id PROVE srv'[k][i].stamp <= clock
    BY <1>0 DEF StampsArePast
  <2>1. CASE k = kind /\ \E c \in chunk : c.id = i
    BY <2>1, <1>1, <1>2, <1>5
  <2>2. CASE ~(k = kind /\ \E c \in chunk : c.id = i)
    BY <2>2, <1>0, <1>4, <1>6 DEF StampsArePast
  <2> QED BY <2>1, <2>2
\* A row stays settled, or is in the request.
<1>10. ASSUME NEW k \in C!Kind, NEW i \in Present(k), Settled(k, i) PROVE Settled(k, i)'
  <2>0. i \in C!Id /\ i \in C!IdOf(k) /\ rows[k][i] # C!Gone
    BY TwoKinds DEF Present
  <2>1. CASE k # kind
    <3>1. srv'[k][i] = srv[k][i]
      BY <2>0, <2>1, <1>4
    <3>2. C!CutOff(k, i) => C!CutOff(k, i)'
      BY <2>1, <1>8 DEF C!CutOff
    <3> QED BY <3>1, <3>2, <1>10 DEF Settled
  <2>2. CASE k = kind /\ \E c \in chunk : c.id = i
    <3> PICK c \in chunk : c.id = i
      BY <2>2
    <3>1. /\ srv[k][i].stamp < c.row.stamp
          /\ rows[k][i] = c.row \/ rows[k][i].stamp > c.row.stamp
      BY <1>0, <1>1, <2>0, <2>2 DEF ItemsAreNews
    <3>2. c.row.stamp \in Nat /\ srv'[k][i] = c.row
      BY <1>1, <1>2, <1>5, <2>2
    <3>3. srv[k][i] # rows[k][i]
      <4>1. rows[k][i].stamp >= c.row.stamp
        BY <3>1, <3>2, <1>7, <2>0
      <4> QED BY <4>1, <3>1, <3>2, <1>7, <2>0
    <3>4. <<k, ItemOf(k, i)>> \in parted
      BY <3>3, <1>10 DEF Settled, C!CutOff, ItemOf
    <3>5. CASE rows[k][i] = c.row
      BY <3>2, <3>5 DEF Settled
    <3>6. CASE rows[k][i] # c.row
      <4>1. \A d \in chunk : d # ItemOf(k, i)
        <5> SUFFICES ASSUME ItemOf(k, i) \in chunk PROVE FALSE
          OBVIOUS
        <5>1. ItemOf(k, i).id = i /\ ItemOf(k, i).row = rows[k][i]
          BY DEF ItemOf
        <5>2. ItemOf(k, i) = c
          BY <5>1, <1>1, <1>3
        <5> QED BY <5>1, <5>2, <3>6
      <4>2. <<k, ItemOf(k, i)>> \in parted'
        BY <3>4, <4>1, <1>8
      <4> QED BY <4>2 DEF Settled, C!CutOff, ItemOf
    <3> QED BY <3>5, <3>6
  <2>3. CASE k = kind /\ \A c \in chunk : c.id # i
    <3>1. srv'[k][i] = srv[k][i]
      BY <2>0, <2>3, <1>6
    <3>2. \A c \in chunk : c # ItemOf(k, i)
      BY <2>3 DEF ItemOf
    <3>3. <<k, ItemOf(k, i)>> \in parted => <<k, ItemOf(k, i)>> \in parted'
      BY <3>2, <1>8
    <3> QED BY <3>1, <3>3, <1>10 DEF Settled, C!CutOff, ItemOf
  <2> QED BY <2>1, <2>2, <2>3
<1>11. ASSUME NEW i \in Present(kind), ItemOf(kind, i) \in chunk PROVE Settled(kind, i)'
  <2>1. ItemOf(kind, i).id = i /\ ItemOf(kind, i).row = rows[kind][i]
    BY DEF ItemOf
  <2>2. srv'[kind][i] = rows[kind][i]
    BY <2>1, <1>5, <1>11
  <2> QED BY <2>2 DEF Settled
<1>12. \A i \in Present(kind) :
          \/ Settled(kind, i)'
          \/ ItemOf(kind, i) \in push_work.items \ chunk
          \/ \A c \in push_work.items : c.row.stamp < rows[kind][i].stamp
  <2> TAKE i \in Present(kind)
  <2>1. \/ Settled(kind, i) \/ ItemOf(kind, i) \in push_work.items
        \/ \A c \in push_work.items : c.row.stamp < rows[kind][i].stamp
    BY <1>0 DEF RestIsNewer
  <2>2. CASE Settled(kind, i)
    BY <2>2, <1>10
  <2>3. CASE ItemOf(kind, i) \in chunk
    BY <2>3, <1>11
  <2> QED BY <2>1, <2>2, <2>3
<1>13. BehindIsSettled'
  <2> SUFFICES ASSUME NEW k \in C!Kind, NEW i \in Present(k),
                      NEW j \in C!Id, rows[k][i].stamp <= srv'[k][j].stamp
               PROVE  Settled(k, i)'
    BY DEF BehindIsSettled, Present
  <2>0. i \in C!Id /\ i \in C!IdOf(k)
    BY TwoKinds DEF Present
  <2>1. CASE srv'[k][j] = srv[k][j]
    <3>1. Settled(k, i)
      BY <2>1, <1>0 DEF BehindIsSettled
    <3> QED BY <3>1, <1>10
  <2>2. CASE srv'[k][j] # srv[k][j]
    <3>1. k = kind
      BY <2>2, <1>4
    <3>2. PICK c \in chunk : c.id = j
      BY <2>2, <3>1, <1>6
    <3>3. srv'[k][j] = c.row /\ c.row.stamp \in Nat /\ c \in push_work.items
      BY <3>1, <3>2, <1>1, <1>2, <1>5
    <3>4. rows[k][i].stamp <= c.row.stamp /\ rows[k][i].stamp \in Nat
      BY <3>3, <1>7, <2>0
    <3>5. \/ Settled(k, i)' \/ ItemOf(k, i) \in push_work.items \ chunk
      <4>1. ~(c.row.stamp < rows[k][i].stamp)
        BY <3>3, <3>4
      <4> QED BY <4>1, <3>1, <3>3, <1>12
    <3>6. CASE ItemOf(k, i) \in push_work.items \ chunk
      <4>1. ItemOf(k, i).row = rows[k][i]
        BY DEF ItemOf
      <4>2. c.row.stamp <= rows[k][i].stamp
        BY <3>6, <4>1, <1>1
      <4>3. c.row.stamp = ItemOf(k, i).row.stamp
        BY <4>1, <4>2, <3>3, <3>4
      <4>4. <<k, ItemOf(k, i)>> \in parted'
        BY <3>1, <3>6, <4>3, <1>8
      <4> QED BY <4>4 DEF Settled, C!CutOff, ItemOf
    <3> QED BY <3>5, <3>6
  <2> QED BY <2>1, <2>2
<1> QED BY <1>4, <1>6, <1>9, <1>12, <1>13

LEMMA ServerIsTyped ==
    ASSUME CInv, push_work.pc \in C!Kind \cup {"load_profile"}, NEW chunk \in C!Chunk, C!Accepted(chunk)
    PROVE  srv' \in [C!Kind -> [C!Id -> C!Row]] /\ (push_work.pc \notin C!Kind => UNCHANGED <<srv, parted>>)
<1>0. PushTypes
  BY DEF CInv
<1>1. CASE push_work.pc = "load_profile"
  BY <1>0, <1>1, TwoKinds DEF C!Accepted, PushTypes
<1>2. CASE push_work.pc \in C!Kind
  <2> DEFINE New(i) == IF \E c \in chunk : c.id = i THEN (CHOOSE c \in chunk : c.id = i).row
                       ELSE srv[push_work.pc][i]
  <2>1. srv' = [srv EXCEPT ![push_work.pc] = [i \in C!Id |-> New(i)]]
    BY <1>2, TwoKinds DEF C!Accepted
  <2>2. \A c \in chunk : c.row \in C!Row
    BY <1>0, <1>2 DEF PushTypes, C!Chunk
  <2>3. \A i \in C!Id : New(i) \in C!Row
    BY <1>0, <1>2, <2>2 DEF PushTypes
  <2> HIDE DEF New
  <2>4. [i \in C!Id |-> New(i)] \in [C!Id -> C!Row]
    BY <2>3
  <2>5. srv' \in [C!Kind -> [C!Id -> C!Row]]
    BY <1>0, <2>1, <2>4 DEF PushTypes
  <2> QED BY <1>2, <2>5
<1> QED BY <1>1, <1>2

LEMMA ChunkIsPosted ==
    ASSUME CInv, C!_post_chunk
    PROVE  CInv'
<1>1. push_work.pc \in C!Kind \cup {"load_profile"} /\ UNCHANGED <<clock, rows, spoilt>>
  BY DEF C!_post_chunk, C!here
<1>2. PICK chunk \in C!Chunk :
        C!Accepted(chunk) /\ push_work' = [push_work EXCEPT !.items = push_work.items \ chunk, !.progress = TRUE]
  BY DEF C!_post_chunk
<1>3. PushTypes
  BY DEF CInv
<1>4. /\ push_work'.pc = push_work.pc /\ push_work'.items = push_work.items \ chunk /\ push_work'.marks = push_work.marks
      /\ DOMAIN push_work' = DOMAIN push_work
  BY <1>2, <1>3 DEF PushTypes
<1>5. srv' \in [C!Kind -> [C!Id -> C!Row]] /\ (push_work.pc \notin C!Kind => UNCHANGED <<srv, parted>>)
  BY <1>1, <1>2, ServerIsTyped
<1>6. push_work.pc # "idle"
  BY <1>1, TwoKinds
<1>7. PushTypes'
  BY <1>1, <1>3, <1>4, <1>5, <1>6 DEF PushTypes
<1>8. CASE push_work.pc \notin C!Kind
  <2>1. MarksAreTrue'
    BY <1>1, <1>4, <1>8, TwoKinds DEF MarksAreTrue
  <2> QED BY <1>1, <1>3, <1>4, <1>5, <1>6, <1>8, <2>1, PushMoves DEF PushTypes
<1>9. ASSUME NEW kind \in C!Kind, push_work.pc = kind, ~spoilt
      PROVE  MarksAreTrue' /\ ItemsAreNews' /\ RestIsNewer' /\ StampsArePast' /\ BehindIsSettled'
  <2>1. /\ StampsArePast' /\ BehindIsSettled'
        /\ \A i \in Present(kind) :
              \/ Settled(kind, i)'
              \/ ItemOf(kind, i) \in push_work.items \ chunk
              \/ \A c \in push_work.items : c.row.stamp < rows[kind][i].stamp
        /\ \A i \in C!Id : (\A c \in chunk : c.id # i) => srv'[kind][i] = srv[kind][i]
        /\ \A k \in C!Kind : k # kind => srv'[k] = srv[k]
    BY <1>1, <1>2, <1>9, ServerHears
  <2>2. MarksAreTrue'
    <3>1. CASE kind = "billing"
      <4>1. srv'["energy_summary"] = srv["energy_summary"]
        BY <2>1, <3>1, TwoKinds
      <4>2. push_work.marks["energy_summary"] = C!Newest(C!Stamps(srv["energy_summary"]))
        BY <1>9, <3>1 DEF CInv, MarksAreTrue
      <4>3. C!Newest(C!Stamps(srv["energy_summary"]))' = C!Newest(C!Stamps(srv["energy_summary"]))
        BY <4>1 DEF C!Newest, C!Stamps
      <4> QED BY <1>4, <1>9, <3>1, <4>2, <4>3 DEF MarksAreTrue
    <3>2. CASE kind = "energy_summary"
      BY <1>4, <1>9, <3>2 DEF MarksAreTrue
    <3> QED BY <3>1, <3>2, TwoKinds
  <2>3. ItemsAreNews'
    <3>1. ItemsAreNews
      BY <1>9 DEF CInv
    <3>2. ASSUME NEW c \in push_work.items \ chunk PROVE srv'[kind][c.id] = srv[kind][c.id]
      <4>1. c.id \in C!Id
        BY <1>3, <1>9, TwoKinds DEF PushTypes
      <4>2. \A d \in chunk : d.id # c.id
        BY <3>1, <1>9 DEF ItemsAreNews, C!Chunk
      <4> QED BY <4>1, <4>2, <2>1
    <3> QED BY <1>1, <1>4, <1>9, <3>1, <3>2 DEF ItemsAreNews
  <2>4. RestIsNewer'
    <3> SUFFICES ASSUME NEW i \in Present(kind)
                 PROVE  \/ Settled(kind, i)' \/ ItemOf(kind, i) \in push_work.items \ chunk
                        \/ \A c \in push_work.items \ chunk : c.row.stamp < rows[kind][i].stamp
      BY <1>1, <1>4, <1>9 DEF RestIsNewer, Present, ItemOf, Settled, C!CutOff
    <3> QED BY <2>1
  <2> QED BY <2>1, <2>2, <2>3, <2>4
<1>10. CASE spoilt
  BY <1>1, <1>7, <1>10 DEF CInv
<1> QED BY <1>1, <1>3, <1>7, <1>8, <1>9, <1>10 DEF CInv, PushTypes

LEMMA RequestHasFailed ==
    ASSUME CInv, C!RequestFails
    PROVE  CInv'
<1>1. push_work' = C!Idle /\ UNCHANGED <<clock, rows, spoilt>>
  BY DEF C!RequestFails, C!Ends, C!here
<1>2. CASE UNCHANGED <<srv, parted>>
  BY <1>1, <1>2, PushStops
<1>3. CASE ~UNCHANGED <<srv, parted>>
  <2>1. PICK chunk \in C!Chunk : C!Accepted(chunk)
    BY <1>3 DEF C!RequestFails
  <2>2. push_work.pc \in C!Kind \cup {"load_profile"}
    BY <1>3 DEF C!RequestFails
  <2>3. srv' \in [C!Kind -> [C!Id -> C!Row]] /\ push_work.pc \in C!Kind
    BY <1>3, <2>1, <2>2, ServerIsTyped
  <2>4. PushTypes'
    BY <1>1, <2>3, IdlePush DEF CInv, PushTypes
  <2>5. ~spoilt => StampsArePast' /\ BehindIsSettled'
    <3> PICK kind \in C!Kind : push_work.pc = kind
      BY <2>3
    <3> QED BY <1>1, <2>1, ServerHears
  <2>6. MarksAreTrue' /\ ItemsAreNews' /\ RestIsNewer'
    BY <1>1, IdlePush DEF MarksAreTrue, ItemsAreNews, RestIsNewer
  <2> QED BY <1>1, <2>4, <2>5, <2>6 DEF CInv
<1> QED BY <1>2, <1>3

LEMMA SameForPush ==
    ASSUME CInv, UNCHANGED <<clock, rows, srv, spoilt, push_work, parted>>
    PROVE  CInv'
<1>1. PushTypes => PushTypes'
  BY DEF PushTypes
<1>2. StampsArePast => StampsArePast'
  BY DEF StampsArePast
<1>3. MarksAreTrue => MarksAreTrue'
  BY DEF MarksAreTrue, C!Newest, C!Stamps
<1>4. ItemsAreNews => ItemsAreNews'
  BY DEF ItemsAreNews
<1>5. BehindIsSettled => BehindIsSettled'
  BY DEF BehindIsSettled, Present, Settled, C!CutOff
<1>6. RestIsNewer => RestIsNewer'
  BY DEF RestIsNewer, Present, Settled, C!CutOff, ItemOf
<1> QED BY <1>1, <1>2, <1>3, <1>4, <1>5, <1>6 DEF CInv

\* After a spoilt step, only the types are promised.
LEMMA ServerHasChanged ==
    ASSUME CInv, C!ServerChanges
    PROVE  CInv'
<1>1. UNCHANGED <<clock, rows, push_work, parted>>
  BY DEF C!ServerChanges
<1>2. CASE UNCHANGED <<srv, spoilt>>
  <2> QED BY <1>1, <1>2, SameForPush
<1>3. CASE ~UNCHANGED <<srv, spoilt>>
  <2>1. srv' = C!Empty /\ spoilt' = (spoilt \/ push_work # C!Idle)
    BY <1>3 DEF C!ServerChanges
  <2>2. C!Empty \in [C!Kind -> [C!Id -> C!Row]] /\ \A k \in C!Kind, i \in C!Id : C!Empty[k][i] = C!Gone
    BY GoneIsARow DEF C!Empty
  <2>3. PushTypes'
    BY <1>1, <2>1, <2>2 DEF CInv, PushTypes
  <2>4. ASSUME ~spoilt'
        PROVE  StampsArePast' /\ BehindIsSettled' /\ MarksAreTrue' /\ ItemsAreNews' /\ RestIsNewer'
    <3>1. push_work = C!Idle /\ StampsArePast /\ BehindIsSettled /\ PushTypes /\ push_work'.pc = "idle"
      BY <1>1, <2>1, <2>4, IdlePush DEF CInv
    <3>2. StampsArePast'
      <4> SUFFICES ASSUME NEW k \in C!Kind, NEW i \in C!Id
                   PROVE  rows[k][i].stamp <= clock /\ srv'[k][i].stamp <= clock
        BY <1>1 DEF StampsArePast
      <4>1. srv'[k][i].stamp = 0 /\ clock \in Nat /\ clock >= 0
        BY <2>1, <2>2, <3>1, GoneIsARow, OutgoingAssumption DEF PushTypes
      <4> QED BY <3>1, <4>1 DEF StampsArePast
    <3>3. BehindIsSettled'
      <4> SUFFICES ASSUME NEW k \in C!Kind, NEW i \in Present(k),
                          NEW j \in C!Id, rows[k][i].stamp <= srv'[k][j].stamp
                   PROVE  Settled(k, i)'
        BY <1>1 DEF BehindIsSettled, Present
      <4>0. i \in C!Id /\ srv'[k][j].stamp = 0
        BY <2>1, <2>2, GoneIsARow, TwoKinds DEF Present
      <4>1. rows[k][i] = C!Gone \/ rows[k][i].stamp > 0
        BY <4>0, <3>1 DEF PushTypes
      <4>2. rows[k][i].stamp \in Nat /\ rows[k][i] # C!Gone
        BY <4>0, <3>1, StampsAreTimes DEF PushTypes, Present
      <4> QED BY <4>0, <4>1, <4>2
    <3>4. MarksAreTrue' /\ ItemsAreNews' /\ RestIsNewer'
      BY <3>1, TwoKinds DEF MarksAreTrue, ItemsAreNews, RestIsNewer
    <3> QED BY <3>2, <3>3, <3>4
  <2> QED BY <2>3, <2>4 DEF CInv
<1> QED BY <1>2, <1>3

LEMMA PushStep ==
    ASSUME CInv, C!Next
    PROVE  CInv'
<1>1. CASE \E changed \in SUBSET Bill : C!BillingRead(changed)
  BY <1>1, BillsAreRead
<1>2. CASE C!energy_summary_recompute_cycle \/ C!clear_readings
  BY <1>2, SummaryIsRecomputed, ReadingsAreCleared
<1>3. CASE C!StoreInterval \/ (\E d \in C!Day : C!edit_holiday(d)) \/ C!EditMeter \/ C!put_central_push_settings
  <2>1. UNCHANGED <<clock, rows, srv, spoilt, push_work, parted>>
    BY <1>3 DEF C!StoreInterval, C!edit_holiday, C!EditMeter, C!put_central_push_settings, C!server, C!here
  <2> QED BY <2>1, SameForPush
<1>4. CASE C!ClockIsSetBack
  <2>1. /\ clock > 1 /\ clock' = clock - 1 /\ spoilt' = TRUE
        /\ UNCHANGED <<rows, srv, push_work, parted>>
    BY <1>4 DEF C!ClockIsSetBack, C!server
  <2>2. clock' \in 1 .. MaxClock
    BY <2>1, OutgoingAssumption DEF CInv, PushTypes
  <2>3. spoilt' \in BOOLEAN
    BY <2>1
  <2>4. PushTypes'
    BY <2>1, <2>2, <2>3 DEF CInv, PushTypes
  <2> QED BY <2>1, <2>4 DEF CInv
<1>5. CASE C!ServerChanges
  BY <1>5, ServerHasChanged
<1>6. CASE C!Start \/ C!fetch_holdings
  BY <1>6, PushCycleStarts, HoldingsAreRead
<1>7. CASE C!_send_meters \/ C!NextKind
  BY <1>7, TurnIsTaken
<1>8. CASE C!_post_chunk
  BY <1>8, ChunkIsPosted
<1>9. CASE C!OutOfBudget
  <2>1. push_work' = C!Idle /\ UNCHANGED <<clock, rows, srv, spoilt, parted>>
    BY <1>9 DEF C!OutOfBudget, C!Ends, C!here, C!server
  <2> QED BY <2>1, PushStops
<1>10. CASE C!RequestFails
  BY <1>10, RequestHasFailed
<1> QED BY <1>1, <1>2, <1>3, <1>4, <1>5, <1>6, <1>7, <1>8, <1>9, <1>10 DEF C!Next, C!Goes

LEMMA PushShown ==
    ASSUME CInv
    PROVE  C!NothingStranded
<1> SUFFICES ASSUME ~spoilt, NEW kind \in C!Kind, NEW i \in C!IdOf(kind), C!Stranded(kind, i)
             PROVE  C!CutOff(kind, i)
  BY DEF C!NothingStranded
<1>0. PushTypes /\ BehindIsSettled /\ i \in C!Id
  BY TwoKinds DEF CInv
<1>1. /\ rows[kind][i] # C!Gone /\ srv[kind][i] # rows[kind][i]
      /\ rows[kind][i].stamp <= C!Newest(C!Stamps(srv[kind]))
  BY DEF C!Stranded
<1>2. srv[kind] \in [C!Id -> C!Row]
  BY <1>0 DEF PushTypes
<1>3. C!Newest(C!Stamps(srv[kind])) = 0 \/ \E j \in C!Id : C!Newest(C!Stamps(srv[kind])) = srv[kind][j].stamp
  BY <1>2, NewestStamp
<1>4. rows[kind][i].stamp \in Nat /\ rows[kind][i].stamp > 0
  BY <1>0, <1>1, StampsAreTimes DEF PushTypes
<1>5. \E j \in C!Id : rows[kind][i].stamp <= srv[kind][j].stamp
  BY <1>1, <1>3, <1>4
<1>6. i \in Present(kind)
  BY <1>1 DEF Present
<1> QED BY <1>0, <1>1, <1>5, <1>6 DEF BehindIsSettled, Settled

(* For any rows, days and size of a request: no row is left behind the     *)
(* newest stamp that the server has, but for those that the code leaves    *)
(* (centralpush/cycle.py).                                                 *)
THEOREM NothingIsStranded == Spec => []NothingStranded
<1>1. Init => CInv
  BY PushStarts DEF Init
<1>2. CInv /\ [Next]_vars => CInv'
  <2> SUFFICES ASSUME CInv, [Next]_vars PROVE CInv'
    OBVIOUS
  <2>1. CASE Pushes /\ C!Next
    BY <2>1, PushStep
  <2>2. CASE UNCHANGED push_vars
    <3>1. UNCHANGED <<clock, rows, srv, spoilt, push_work, parted>>
      BY <2>2 DEF push_vars
    <3> QED BY <3>1, SameForPush
  <2> QED BY <2>1, <2>2 DEF Next, vars, Uploads, Copies, Pushes
<1>3. CInv => NothingStranded
  BY PushShown DEF NothingStranded
<1> QED BY <1>1, <1>2, <1>3, PTL DEF Spec
=============================================================================
