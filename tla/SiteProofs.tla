------------------------------- MODULE SiteProofs -------------------------------
(***************************************************************************)
(* Proofs about what is administered on one machine, part by part: the     *)
(* accounts, the device rows, the calendar, the stored Energy Summary and  *)
(* the backups, for any number of requests, rows, days and files.  Each    *)
(* part has its inductive invariant; a step of the machine is a step of    *)
(* one part and none of the others.                                        *)
(***************************************************************************)
EXTENDS Site, NaturalsInduction, WellFoundedInduction, FiniteSetTheorems, TLAPS

-----------------------------------------------------------------------------
(* What all parts need: the most of a set of ids, and how many there are.  *)

LEMMA HasLeast ==
    ASSUME NEW T \in SUBSET Nat, T # {}
    PROVE  \E m \in T : \A y \in T : m <= y
<1>1. PICK x \in T : \A y \in T : ~(<<y, x>> \in OpToRel(<, Nat))
  BY NatLessThanWellFounded, WFMin
<1>2. \A y \in T : ~(y < x)
  BY <1>1 DEF OpToRel
<1> QED BY <1>2

LEMMA HasMost ==
    ASSUME NEW n \in Nat, NEW T \in SUBSET (1 .. n), T # {}
    PROVE  \E m \in T : /\ m = (CHOOSE x \in T : \A y \in T : x >= y)
                        /\ \A y \in T : m >= y
<1> DEFINE Down == {m \in Nat : n - m \in T}
<1>1. Down \in SUBSET Nat /\ Down # {}
  <2> PICK t \in T : TRUE
    OBVIOUS
  <2>1. n - t \in Nat /\ n - (n - t) = t
    OBVIOUS
  <2> QED BY <2>1
<1>2. PICK m \in Down : \A y \in Down : m <= y
  <2> HIDE DEF Down
  <2> QED BY <1>1, HasLeast
<1>3. n - m \in T /\ m \in Nat
  OBVIOUS
<1>4. \A y \in T : n - m >= y
  <2> TAKE y \in T
  <2>0. y \in 1 .. n
    OBVIOUS
  <2>1. n - y \in Down
    BY <2>0
  <2>2. m <= n - y
    BY <1>2, <2>1
  <2> HIDE DEF Down
  <2> QED BY <2>0, <2>2, <1>3
<1> QED BY <1>3, <1>4

\* The parts count as the theorems about finite sets do.
LEMMA SameCount ==
    ASSUME NEW S
    PROVE  /\ H!Cardinality(S) = Cardinality(S) /\ E!Cardinality(S) = Cardinality(S)
           /\ B!Cardinality(S) = Cardinality(S)
BY DEF Cardinality, H!Cardinality, E!Cardinality, B!Cardinality

LEMMA CountTo ==
    ASSUME NEW n \in Nat
    PROVE  IsFiniteSet(1 .. n) /\ Cardinality(1 .. n) = n
<1>1. n \in Int /\ 1 \in Int
  OBVIOUS
<1>2. IsFiniteSet(1 .. n) /\ Cardinality(1 .. n) = IF 1 > n THEN 0 ELSE n - 1 + 1
  BY <1>1, FS_Interval
<1> QED BY <1>2

-----------------------------------------------------------------------------
(* The accounts: a new one gets an id that nobody has.                     *)

LEMMA UserNextIdIsFree ==
    ASSUME MaxUsers \in Nat
    PROVE  A!NextId \notin A!Used
<1>1. CASE A!Used = {}
  BY <1>1
<1>2. CASE A!Used # {}
  <2>1. A!Used \in SUBSET (1 .. MaxUsers)
    BY DEF A!Used, A!Id
  <2>2. A!Max(A!Used) \in A!Used /\ \A y \in A!Used : A!Max(A!Used) >= y
    BY <1>2, <2>1, HasMost DEF A!Max
  <2>3. A!NextId = A!Max(A!Used) + 1
    BY <1>2 DEF A!NextId
  <2>4. A!Max(A!Used) \in 1 .. MaxUsers
    BY <2>1, <2>2
  <2>5. ASSUME A!Max(A!Used) + 1 \in A!Used
        PROVE  FALSE
    BY <2>2, <2>4, <2>5
  <2> QED BY <2>3, <2>5
<1> QED BY <1>1, <1>2

-----------------------------------------------------------------------------
(* The accounts: what a request that was let in is about.                  *)

\* Setup is for an administrator; whoever changes or deletes an account is another one.
Admitted(w) ==
    /\ w.pc = "setup"  => w.row \in A!User /\ w.row.role = "admin"
    /\ w.pc = "create" => w.actor \in A!Id /\ w.row \in A!User
    /\ w.pc = "role"   => w.actor \in A!Id /\ w.id \in A!Id /\ w.actor # w.id /\ w.row \in A!User
    /\ w.pc = "delete" => w.actor \in A!Id /\ w.id \in A!Id /\ w.actor # w.id

UserIInv ==
    /\ A!TypeOK
    /\ \A t \in Thread : Admitted(user_work[t])
    /\ A!AnAdminRemains

LEMMA UserInitIInv ==
    ASSUME MaxUsers \in Nat, A!Init
    PROVE  UserIInv
<1>1. A!Idle \in [pc : {"idle", "setup", "create", "role", "delete"},
                actor : 0 .. MaxUsers, id : 0 .. MaxUsers, row : A!User \cup {None}]
  BY DEF A!Idle
<1>2. A!TypeOK
  BY <1>1 DEF A!Init, A!TypeOK
<1>3. Admitted(A!Idle)
  BY DEF Admitted, A!Idle
<1>4. \A t \in Thread : Admitted(user_work[t])
  BY <1>3 DEF A!Init
<1>5. A!AnAdminRemains
  BY DEF A!Init, A!AnAdminRemains, A!Used
<1> QED BY <1>2, <1>4, <1>5 DEF UserIInv

\* A request begins: nothing is written, and what it is let in for is settled.
LEMMA UserBeginKeeps ==
    ASSUME MaxUsers \in Nat, UserIInv, NEW t \in Thread, NEW w, A!Begins(t, w), Admitted(w),
           w \in [pc : {"idle", "setup", "create", "role", "delete"},
                  actor : 0 .. MaxUsers, id : 0 .. MaxUsers, row : A!User \cup {None}]
    PROVE  UserIInv'
<1>1. user_work' = [user_work EXCEPT ![t] = w] /\ users' = users /\ deposed' = deposed
  BY DEF A!Begins, A!Goes
<1>2. A!TypeOK'
  BY <1>1 DEF UserIInv, A!TypeOK
<1>3. \A s \in Thread : Admitted(user_work'[s])
  BY <1>1 DEF UserIInv, A!TypeOK
<1>4. A!AnAdminRemains'
  BY <1>1 DEF UserIInv, A!AnAdminRemains, A!Used, A!Admin
<1> QED BY <1>2, <1>3, <1>4 DEF UserIInv, Admitted

\* A request commits: what it leaves of the table decides.
LEMMA UserCommitKeeps ==
    ASSUME MaxUsers \in Nat, UserIInv, NEW t \in Thread,
           NEW to \in [A!Id -> A!User \cup {None}], A!Commits(t, to), A!AnAdminRemains'
    PROVE  UserIInv'
<1>1. users' = to /\ user_work' = [user_work EXCEPT ![t] = A!Idle]
  BY DEF A!Commits, A!Goes
<1>2. deposed' \in BOOLEAN
  BY DEF A!Commits, UserIInv, A!TypeOK
<1>3. A!Idle \in [pc : {"idle", "setup", "create", "role", "delete"},
                actor : 0 .. MaxUsers, id : 0 .. MaxUsers, row : A!User \cup {None}]
  BY DEF A!Idle
<1>4. A!TypeOK'
  BY <1>1, <1>2, <1>3 DEF UserIInv, A!TypeOK
<1>5. Admitted(A!Idle)
  BY DEF Admitted, A!Idle
<1>6. \A s \in Thread : Admitted(user_work'[s])
  BY <1>1, <1>5 DEF UserIInv, A!TypeOK
<1> QED BY <1>4, <1>6 DEF UserIInv, Admitted

-----------------------------------------------------------------------------
(* The accounts: whoever commits leaves an administrator.                  *)

\* A commit that changes the table for one still an administrator: he is another
\* than the row it writes, so he still is one.
LEMMA UserActorStays ==
    ASSUME UserIInv, NEW t \in Thread, NEW to, A!Commits(t, to), to # users,
           NEW i, user_work[t].actor # 0, user_work[t].actor # i,
           \A j \in A!Id \ {i} : to[j] = users[j]
    PROVE  A!AnAdminRemains'
<1>1. CASE user_work[t].actor \notin A!Admin
  BY <1>1 DEF A!Commits, A!AnAdminRemains
<1>2. CASE user_work[t].actor \in A!Admin
  <2>1. user_work[t].actor \in A!Id /\ users'[user_work[t].actor] = users[user_work[t].actor]
    BY <1>2 DEF A!Admin, A!Used, A!Commits
  <2>2. user_work[t].actor \in A!Admin'
    BY <1>2, <2>1 DEF A!Admin, A!Used
  <2> QED BY <2>2 DEF A!AnAdminRemains
<1> QED BY <1>1, <1>2

\* A commit that changes nothing.
LEMMA UserNothingChanges ==
    ASSUME UserIInv, NEW t \in Thread, A!Commits(t, users)
    PROVE  A!AnAdminRemains'
BY DEF UserIInv, A!TypeOK, A!Commits, A!AnAdminRemains, A!Used, A!Admin

LEMMA UserCommitNewKeeps ==
    ASSUME MaxUsers \in Nat, UserIInv, NEW t \in Thread, A!CommitNew(t)
    PROVE  UserIInv'
<1> DEFINE w == user_work[t]
           to == [users EXCEPT ![A!NextId] = w.row]
<1>1. w.pc \in {"setup", "create"} /\ A!NextId \in A!Id /\ Admitted(w) /\ w.row \in A!User
  BY DEF A!CommitNew, UserIInv, Admitted
<1>2. CASE A!Taken(w.row.name)
  <2>1. A!Commits(t, users) /\ users \in [A!Id -> A!User \cup {None}]
    BY <1>2 DEF A!CommitNew, UserIInv, A!TypeOK
  <2> QED BY <2>1, UserNothingChanges, UserCommitKeeps
<1>3. CASE ~A!Taken(w.row.name)
  <2>1. A!Commits(t, to) /\ to \in [A!Id -> A!User \cup {None}]
    BY <1>1, <1>3 DEF A!CommitNew, UserIInv, A!TypeOK
  <2>2. users' = to /\ to[A!NextId] = w.row /\ \A j \in A!Id \ {A!NextId} : to[j] = users[j]
    BY <1>1, <2>1 DEF A!Commits, UserIInv, A!TypeOK
  <2>3. A!NextId \notin A!Used
    BY UserNextIdIsFree
  <2>4. CASE w.pc = "setup"
    <3>1. w.row.role = "admin"
      BY <1>1, <2>4 DEF Admitted
    <3>2. CASE w.row = None
      <4>1. A!Used' = A!Used /\ A!Admin' = A!Admin
        BY <1>1, <2>2, <2>3, <3>2 DEF A!Used, A!Admin
      <4> QED BY <2>1, <4>1, UserCommitKeeps DEF UserIInv, A!AnAdminRemains, A!Commits
    <3>3. CASE w.row # None
      <4>1. A!NextId \in A!Admin'
        BY <1>1, <2>2, <3>1, <3>3 DEF A!Used, A!Admin
      <4> QED BY <2>1, <4>1, UserCommitKeeps DEF A!AnAdminRemains
    <3> QED BY <3>2, <3>3
  <2>5. CASE w.pc = "create"
    <3>1. CASE to = users
      BY <2>1, <3>1, UserNothingChanges, UserCommitKeeps
    <3>2. CASE to # users
      <4>1. w.actor \in A!Id /\ w.actor # 0
        BY <1>1, <2>5 DEF Admitted, A!Id
      <4>2. CASE w.actor \in A!Admin
        <5>1. w.actor # A!NextId
          BY <2>3, <4>2 DEF A!Admin
        <5> QED BY <2>1, <2>2, <3>2, <4>1, <5>1, UserActorStays, UserCommitKeeps
      <4>3. CASE w.actor \notin A!Admin
        <5>1. deposed'
          BY <2>1, <3>2, <4>1, <4>3 DEF A!Commits
        <5> QED BY <2>1, <5>1, UserCommitKeeps DEF A!AnAdminRemains
      <4> QED BY <4>2, <4>3
    <3> QED BY <3>1, <3>2
  <2> QED BY <1>1, <2>4, <2>5
<1> QED BY <1>2, <1>3

LEMMA UserCommitRoleKeeps ==
    ASSUME MaxUsers \in Nat, UserIInv, NEW t \in Thread, A!CommitRole(t)
    PROVE  UserIInv'
<1> DEFINE w == user_work[t]
           to == [users EXCEPT ![w.id].role = w.row.role]
<1>1. w.actor \in A!Id /\ w.id \in A!Id /\ w.actor # w.id /\ w.row \in A!User
  BY DEF A!CommitRole, UserIInv, Admitted
<1>2. CASE w.id \in A!Used /\ to # users
  <2>1. A!Commits(t, to)
    BY <1>2 DEF A!CommitRole
  <2>2. users[w.id] \in A!User
    BY <1>1, <1>2 DEF UserIInv, A!TypeOK, A!Used
  <2>3. [users[w.id] EXCEPT !.role = w.row.role] \in A!User
    BY <1>1, <2>2 DEF A!User
  <2>4. to = [users EXCEPT ![w.id] = [users[w.id] EXCEPT !.role = w.row.role]]
    OBVIOUS
  <2>5. to \in [A!Id -> A!User \cup {None}] /\ \A j \in A!Id \ {w.id} : to[j] = users[j]
    BY <1>1, <2>3, <2>4 DEF UserIInv, A!TypeOK
  <2>6. w.actor # 0
    BY <1>1 DEF A!Id
  <2> QED BY <1>1, <1>2, <2>1, <2>5, <2>6, UserActorStays, UserCommitKeeps
<1>3. CASE w.id \notin A!Used \/ to = users
  <2>1. A!Commits(t, users) /\ users \in [A!Id -> A!User \cup {None}]
    BY <1>3 DEF A!CommitRole, UserIInv, A!TypeOK
  <2> QED BY <2>1, UserNothingChanges, UserCommitKeeps
<1> QED BY <1>2, <1>3

LEMMA UserCommitDeleteKeeps ==
    ASSUME MaxUsers \in Nat, UserIInv, NEW t \in Thread, A!CommitDelete(t)
    PROVE  UserIInv'
<1> DEFINE w == user_work[t]
           to == [users EXCEPT ![w.id] = None]
<1>1. w.actor \in A!Id /\ w.id \in A!Id /\ w.actor # w.id
  BY DEF A!CommitDelete, UserIInv, Admitted
<1>2. A!Commits(t, to) /\ to \in [A!Id -> A!User \cup {None}]
  BY DEF A!CommitDelete, UserIInv, A!TypeOK
<1>3. CASE to = users
  BY <1>2, <1>3, UserNothingChanges, UserCommitKeeps
<1>4. CASE to # users
  <2>1. \A j \in A!Id \ {w.id} : to[j] = users[j]
    BY DEF UserIInv, A!TypeOK
  <2>2. w.actor # 0
    BY <1>1 DEF A!Id
  <2> QED BY <1>1, <1>2, <1>4, <2>1, <2>2, UserActorStays, UserCommitKeeps
<1> QED BY <1>3, <1>4

-----------------------------------------------------------------------------
(* The accounts: whoever begins is let in.                                 *)

LEMMA UserBeginsAreAdmitted ==
    ASSUME MaxUsers \in Nat, UserIInv, NEW t \in Thread,
           \/ \E n \in Name : A!create_initial_admin(t, n)
           \/ \E a \in A!Id, n \in Name, r \in A!Role : A!create_user(t, a, n, r)
           \/ \E a \in A!Id, i \in A!Id, r \in A!Role : A!set_user_role(t, a, i, r)
           \/ \E a \in A!Id, i \in A!Id : A!delete_user(t, a, i)
    PROVE  UserIInv'
<1> DEFINE W == [pc : {"idle", "setup", "create", "role", "delete"},
                 actor : 0 .. MaxUsers, id : 0 .. MaxUsers, row : A!User \cup {None}]
<1>1. ASSUME NEW n \in Name, A!create_initial_admin(t, n)
      PROVE  UserIInv'
  <2> DEFINE w == [pc |-> "setup", actor |-> 0, id |-> 0,
                   row |-> [name |-> n, role |-> "admin"]]
  <2>1. w \in W /\ Admitted(w)
    BY DEF Admitted, A!User, A!Role
  <2>2. A!Begins(t, w)
    BY <1>1 DEF A!create_initial_admin
  <2> QED BY <2>1, <2>2, UserBeginKeeps
<1>2. ASSUME NEW a \in A!Id, NEW n \in Name, NEW r \in A!Role, A!create_user(t, a, n, r)
      PROVE  UserIInv'
  <2> DEFINE w == [pc |-> "create", actor |-> a, id |-> 0, row |-> [name |-> n, role |-> r]]
  <2>1. w \in W /\ Admitted(w)
    BY DEF Admitted, A!User, A!Id
  <2> QED BY <1>2, <2>1, UserBeginKeeps DEF A!create_user
<1>3. ASSUME NEW a \in A!Id, NEW i \in A!Id, NEW r \in A!Role, A!set_user_role(t, a, i, r)
      PROVE  UserIInv'
  <2> DEFINE w == [pc |-> "role", actor |-> a, id |-> i, row |-> [users[i] EXCEPT !.role = r]]
  <2>1. users[i] \in A!User /\ a # i
    BY <1>3 DEF A!set_user_role, A!_refuse_self, A!Used, UserIInv, A!TypeOK
  <2>2. [users[i] EXCEPT !.role = r] \in A!User
    BY <2>1 DEF A!User
  <2>3. w \in W /\ Admitted(w)
    BY <2>1, <2>2 DEF Admitted, A!Id
  <2> QED BY <1>3, <2>3, UserBeginKeeps DEF A!set_user_role
<1>4. ASSUME NEW a \in A!Id, NEW i \in A!Id, A!delete_user(t, a, i)
      PROVE  UserIInv'
  <2> DEFINE w == [pc |-> "delete", actor |-> a, id |-> i, row |-> None]
  <2>1. w \in W /\ Admitted(w)
    BY <1>4 DEF A!delete_user, A!_refuse_self, Admitted, A!Id
  <2> QED BY <1>4, <2>1, UserBeginKeeps DEF A!delete_user
<1> QED BY <1>1, <1>2, <1>3, <1>4

LEMMA UserStepIInv ==
    ASSUME MaxUsers \in Nat, UserIInv, [A!Next]_A!vars
    PROVE  UserIInv'
<1>1. CASE UNCHANGED A!vars
  BY <1>1 DEF A!vars, UserIInv, A!TypeOK, Admitted, A!AnAdminRemains, A!Used, A!Admin
<1>2. CASE A!Next
  BY <1>2, UserBeginsAreAdmitted, UserCommitNewKeeps, UserCommitRoleKeeps,
     UserCommitDeleteKeeps DEF A!Next
<1> QED BY <1>1, <1>2

-----------------------------------------------------------------------------
(* The devices: the inductive invariant.                                   *)

\* There is a password, and a line for each of so many meters.
Furnished == MaxDevices \in Nat /\ Password # {} /\ D!Injection(Line, Serial) # {}

\* The part of the types it needs.
RowTypes ==
    /\ rows \in [D!Id -> D!Row \cup {None}]
    /\ wired \in [Line -> Serial]
    /\ device_work \in [Thread -> D!Work]

\* An identified row stands for an answer of the meter it names.
Proven(row, answered) ==
    /\ row.serial # None => <<row.transport, row.password, row.serial>> \in answered
    /\ row.code # None => row.code = row.serial

\* What a request is about to store: the columns its probe was answered with.  A new
\* row has no code yet, an edited one the code it was loaded with.
DeviceReady(w, answered) ==
    /\ w.pc \in {"probe", "create", "update"} => w.row \in D!Row
    /\ w.pc \in {"create", "update"} =>
         <<w.row.transport, w.row.password, w.serial>> \in answered
    /\ w.pc \in {"probe", "update"} /\ w.id # 0 =>
         w.loaded \in D!Row /\ w.row.code = w.loaded.code /\ w.id \in D!Id
    /\ w.pc = "update" => w.id # 0

DeviceIInv ==
    /\ RowTypes
    /\ \A q \in Thread : DeviceReady(device_work[q], proven)
    /\ ~mixed => \A i \in D!Used : Proven(rows[i], proven)

LEMMA DeviceInitIInv ==
    ASSUME Furnished, D!Init
    PROVE  DeviceIInv
<1>1. wired \in [Line -> Serial]
  BY DEF Furnished, D!Init, D!Injection
<1>2. D!Idle \in D!Work
  BY DEF D!Idle, D!Work, Furnished
<1>3. device_work \in [Thread -> D!Work]
  BY <1>2 DEF D!Init
<1>4. PICK r \in {q \in D!Row : q.serial = None /\ q.code = None} \cup {None} :
        rows = [i \in D!Id |-> IF i = 1 THEN r ELSE None]
  BY DEF D!Init
<1>5. rows \in [D!Id -> D!Row \cup {None}]
  BY <1>4
<1>6. \A q \in Thread : DeviceReady(device_work[q], proven)
  BY DEF D!Init, DeviceReady, D!Idle
<1>7. \A i \in D!Used : Proven(rows[i], proven)
  BY <1>4 DEF D!Used, Proven
<1> QED BY <1>1, <1>3, <1>5, <1>6, <1>7 DEF DeviceIInv, RowTypes

\* A request goes on with w; the rows are as they were, and no proof is forgotten.
LEMMA DeviceRequestKeeps ==
    ASSUME DeviceIInv, NEW q \in Thread, NEW w \in D!Work, D!Goes(q, w), DeviceReady(w, proven'),
           UNCHANGED <<rows, wired, mixed>>, proven \subseteq proven'
    PROVE  DeviceIInv'
<1>1. device_work' = [device_work EXCEPT ![q] = w]
  BY DEF D!Goes
<1>2. RowTypes'
  BY <1>1 DEF DeviceIInv, RowTypes
<1>3. \A r \in Thread : DeviceReady(device_work'[r], proven')
  <2> TAKE r \in Thread
  <2>1. CASE r = q
    BY <1>1, <2>1 DEF DeviceIInv, RowTypes
  <2>2. CASE r # q
    BY <1>1, <2>2 DEF DeviceIInv, RowTypes, DeviceReady
  <2> QED BY <2>1, <2>2
<1>4. (~mixed => \A i \in D!Used : Proven(rows[i], proven))'
  BY DEF DeviceIInv, D!Used, Proven
<1> QED BY <1>2, <1>3, <1>4 DEF DeviceIInv

LEMMA DeviceIdleIsReady ==
    /\ Furnished => D!Idle \in D!Work
    /\ \A p : DeviceReady(D!Idle, p)
    /\ D!Idle.id = 0
BY DEF Furnished, D!Idle, D!Work, DeviceReady

LEMMA DeviceBeginKeeps ==
    ASSUME Furnished, DeviceIInv, NEW q \in Thread,
           \/ \E l \in Line, p \in Password : D!create_device(q, l, p)
           \/ \E i \in D!Id, l \in Line, p \in Password \cup {None} : D!update_device(q, i, l, p)
           \/ \E i \in D!Id : D!delete_device(q, i)
           \/ D!ProbeFails(q)
    PROVE  DeviceIInv'
<1>1. ASSUME NEW l \in Line, NEW p \in Password, D!create_device(q, l, p)
      PROVE  DeviceIInv'
  <2> DEFINE row == [transport |-> l, password |-> p, serial |-> None, code |-> None]
             w == [D!Idle EXCEPT !.pc = "probe", !.row = row]
  <2>1. row \in D!Row
    BY DEF D!Row
  <2> HIDE DEF row
  <2>2. w \in D!Work /\ w.pc = "probe" /\ w.row = row /\ w.id = 0
    BY <2>1, DeviceIdleIsReady DEF D!Work
  <2>3. D!Goes(q, w) /\ UNCHANGED <<rows, wired, mixed, proven>>
    BY <1>1 DEF D!create_device, row
  <2> HIDE DEF w
  <2>4. DeviceReady(w, proven')
    BY <2>1, <2>2 DEF DeviceReady
  <2> QED BY <2>2, <2>3, <2>4, DeviceRequestKeeps
<1>2. ASSUME NEW i \in D!Id, NEW l \in Line, NEW p \in Password \cup {None},
             D!update_device(q, i, l, p)
      PROVE  DeviceIInv'
  <2> DEFINE row == [rows[i] EXCEPT !.transport = l,
                       !.password = D!_kept(p, rows[i].password)]
             w == [D!Idle EXCEPT !.pc = "probe", !.id = i, !.loaded = rows[i], !.row = row]
  <2>1. rows[i] \in D!Row
    BY <1>2 DEF D!update_device, D!Used, DeviceIInv, RowTypes
  <2>2. row \in D!Row /\ row.code = rows[i].code
    BY <2>1 DEF D!Row, D!_kept
  <2>3. i \in 0 .. MaxDevices
    BY DEF D!Id, Furnished
  <2> HIDE DEF row
  <2>4. w \in D!Work /\ w.pc = "probe" /\ w.row = row /\ w.id = i /\ w.loaded = rows[i]
    BY <2>1, <2>2, <2>3, DeviceIdleIsReady DEF D!Work
  <2>5. D!Goes(q, w) /\ UNCHANGED <<rows, wired, mixed, proven>>
    BY <1>2 DEF D!update_device, row
  <2> HIDE DEF w
  <2>6. DeviceReady(w, proven')
    BY <2>1, <2>2, <2>4 DEF DeviceReady
  <2> QED BY <2>4, <2>5, <2>6, DeviceRequestKeeps
<1>3. ASSUME NEW i \in D!Id, D!delete_device(q, i)
      PROVE  DeviceIInv'
  <2> DEFINE w == [D!Idle EXCEPT !.pc = "delete", !.id = i]
  <2>0. i \in 0 .. MaxDevices
    BY DEF D!Id, Furnished
  <2>1. w \in D!Work /\ w.pc = "delete"
    BY <2>0, DeviceIdleIsReady DEF D!Work
  <2>2. D!Goes(q, w) /\ UNCHANGED <<rows, wired, mixed, proven>>
    BY <1>3 DEF D!delete_device
  <2> HIDE DEF w
  <2>3. DeviceReady(w, proven')
    BY <2>1 DEF DeviceReady
  <2> QED BY <2>1, <2>2, <2>3, DeviceRequestKeeps
<1>4. CASE D!ProbeFails(q)
  BY <1>4, DeviceIdleIsReady, DeviceRequestKeeps DEF D!ProbeFails
<1> QED BY <1>1, <1>2, <1>3, <1>4

LEMMA DeviceProbeKeeps ==
    ASSUME DeviceIInv, NEW q \in Thread, D!probe_meter(q)
    PROVE  DeviceIInv'
<1> DEFINE o == device_work[q]
           serial == wired[o.row.transport]
           w == [o EXCEPT !.pc = IF o.id = 0 THEN "create" ELSE "update", !.serial = serial]
<1>1. /\ o \in D!Work /\ DeviceReady(o, proven) /\ o.pc = "probe" /\ o.row \in D!Row
      /\ secret[serial] = o.row.password
  BY DEF D!probe_meter, DeviceIInv, RowTypes, DeviceReady
<1>2. serial \in Serial
  BY <1>1 DEF DeviceIInv, RowTypes, D!Row
<1>3. /\ proven' = proven \cup {<<o.row.transport, o.row.password, serial>>}
      /\ D!Goes(q, w) /\ UNCHANGED <<rows, wired, mixed>>
  BY DEF D!probe_meter
<1> HIDE DEF o, serial
<1>4. w \in D!Work
  BY <1>1, <1>2 DEF D!Work
<1>5. /\ w.pc = (IF o.id = 0 THEN "create" ELSE "update") /\ w.serial = serial
      /\ w.row = o.row /\ w.id = o.id /\ w.loaded = o.loaded
  BY <1>1 DEF D!Work
<1>6. proven \subseteq proven' /\ <<o.row.transport, o.row.password, serial>> \in proven'
  BY <1>3
<1> HIDE DEF w
<1>7. DeviceReady(w, proven')
  BY <1>1, <1>5, <1>6 DEF DeviceReady
<1> QED BY <1>3, <1>4, <1>6, <1>7, DeviceRequestKeeps

\* A request ends, and row id is all it may have written.
LEMMA DeviceCommitKeeps ==
    ASSUME Furnished, DeviceIInv, NEW q \in Thread, D!Goes(q, D!Idle), UNCHANGED <<wired, proven>>,
           rows' \in [D!Id -> D!Row \cup {None}], mixed => mixed',
           ~mixed' => \A i \in D!Id : \/ rows'[i] = rows[i]
                                  \/ rows'[i] = None
                                  \/ Proven(rows'[i], proven)
    PROVE  DeviceIInv'
<1>1. device_work' = [device_work EXCEPT ![q] = D!Idle] /\ D!Idle \in D!Work
  BY DeviceIdleIsReady DEF D!Goes
<1>2. RowTypes'
  BY <1>1 DEF DeviceIInv, RowTypes
<1>3. \A r \in Thread : DeviceReady(device_work'[r], proven')
  <2> TAKE r \in Thread
  <2>1. CASE r = q
    BY <1>1, <2>1, DeviceIdleIsReady DEF DeviceIInv, RowTypes
  <2>2. CASE r # q
    BY <1>1, <2>2 DEF DeviceIInv, RowTypes, DeviceReady
  <2> QED BY <2>1, <2>2
<1>4. ASSUME ~mixed', NEW i \in D!Id, rows'[i] # None
      PROVE  Proven(rows'[i], proven')
  <2>1. ~mixed
    BY <1>4
  <2>2. CASE rows'[i] = rows[i]
    BY <1>4, <2>1, <2>2 DEF DeviceIInv, D!Used, Proven
  <2>3. CASE Proven(rows'[i], proven)
    BY <2>3 DEF Proven
  <2> QED BY <1>4, <2>1, <2>2, <2>3
<1>5. (~mixed => \A i \in D!Used : Proven(rows[i], proven))'
  BY <1>4 DEF D!Used
<1> QED BY <1>2, <1>3, <1>5 DEF DeviceIInv

LEMMA DeviceCommitCreateKeeps ==
    ASSUME Furnished, DeviceIInv, NEW q \in Thread, NEW c \in Serial \cup {None},
           D!CommitCreate(q, c)
    PROVE  DeviceIInv'
<1> DEFINE w == device_work[q]
           new == [w.row EXCEPT !.serial = w.serial, !.code = c]
<1>1. w.pc = "create" /\ DeviceReady(w, proven) /\ w \in D!Work /\ w.row \in D!Row
      /\ <<w.row.transport, w.row.password, w.serial>> \in proven
  BY DEF D!CommitCreate, DeviceIInv, RowTypes, DeviceReady
<1>2. D!Goes(q, D!Idle) /\ UNCHANGED <<wired, proven, mixed>> /\ D!NextId \in D!Id
  BY DEF D!CommitCreate
<1>3. CASE D!Held(w.serial, 0) \/ ~D!_resolve_meter_activation_code(c, w.serial)
  <2>1. rows' = rows
    BY <1>3 DEF D!CommitCreate
  <2> QED BY <1>2, <2>1, DeviceCommitKeeps DEF DeviceIInv, RowTypes
<1>4. CASE ~D!Held(w.serial, 0) /\ D!_resolve_meter_activation_code(c, w.serial)
  <2>1. rows' = [rows EXCEPT ![D!NextId] = new]
    BY <1>4 DEF D!CommitCreate
  <2>2. w.serial \in Serial \cup {None}
    BY <1>1 DEF D!Work
  <2>3. new \in D!Row /\ new.transport = w.row.transport /\ new.password = w.row.password
        /\ new.serial = w.serial /\ new.code = c
    BY <1>1, <2>2 DEF D!Row
  <2>4. c # None => c = w.serial
    BY <1>4 DEF D!_resolve_meter_activation_code
  <2> HIDE DEF new
  <2>5. Proven(new, proven)
    BY <1>1, <2>3, <2>4 DEF Proven
  <2>6. rows' \in [D!Id -> D!Row \cup {None}]
    BY <1>2, <2>1, <2>3 DEF DeviceIInv, RowTypes
  <2>7. \A i \in D!Id : rows'[i] = rows[i] \/ rows'[i] = None \/ Proven(rows'[i], proven)
    BY <1>2, <2>1, <2>5 DEF DeviceIInv, RowTypes
  <2> QED BY <1>2, <2>6, <2>7, DeviceCommitKeeps
<1> QED BY <1>3, <1>4

LEMMA DeviceCommitUpdateKeeps ==
    ASSUME Furnished, DeviceIInv, NEW q \in Thread, D!CommitUpdate(q)
    PROVE  DeviceIInv'
<1> DEFINE w       == device_work[q]
           edited  == [w.row EXCEPT !.serial = w.serial]
           written == {c \in DOMAIN edited : edited[c] # w.loaded[c]}
           lands   == /\ ~D!_reject_changed_serial(w.loaded, w.serial)
                      /\ ~D!Held(w.serial, w.id) /\ rows[w.id] # None /\ written # {}
           merged  == [c \in DOMAIN edited |-> IF c \in written THEN edited[c]
                                                ELSE rows[w.id][c]]
<1>1. /\ w \in D!Work /\ w.row \in D!Row /\ w.loaded \in D!Row /\ w.id \in D!Id
      /\ w.row.code = w.loaded.code
      /\ <<w.row.transport, w.row.password, w.serial>> \in proven
  BY DEF D!CommitUpdate, DeviceIInv, RowTypes, DeviceReady
<1>2. D!Goes(q, D!Idle) /\ UNCHANGED <<wired, proven>>
      /\ mixed' = (mixed \/ (lands /\ rows[w.id] # w.loaded))
  BY DEF D!CommitUpdate
<1>3. CASE ~lands
  <2>1. rows' = rows
    BY <1>3 DEF D!CommitUpdate
  <2> HIDE DEF lands
  <2> QED BY <1>2, <1>3, <2>1, DeviceCommitKeeps DEF DeviceIInv, RowTypes
<1>4. CASE lands
  <2>1. rows' = [rows EXCEPT ![w.id] = merged]
    BY <1>4 DEF D!CommitUpdate, DeviceIInv, RowTypes
  <2>2. rows[w.id] \in D!Row
    BY <1>1, <1>4 DEF DeviceIInv, RowTypes
  <2>3. w.serial \in Serial \cup {None}
    BY <1>1 DEF D!Work
  <2>4. edited \in D!Row /\ edited.transport = w.row.transport
        /\ edited.password = w.row.password /\ edited.serial = w.serial
        /\ edited.code = w.loaded.code
    BY <1>1, <2>3 DEF D!Row
  <2>5. DOMAIN edited = {"transport", "password", "serial", "code"}
    BY <1>1 DEF D!Row
  <2>6. merged \in D!Row
    BY <2>2, <2>4, <2>5 DEF D!Row
  <2>7. ASSUME ~mixed'
        PROVE  Proven(merged, proven)
    <3>1. ~mixed /\ rows[w.id] = w.loaded
      BY <1>2, <1>4, <2>7
    <3>2. merged = edited
      BY <2>4, <2>5, <3>1 DEF D!Row
    <3>3. w.id \in D!Used
      BY <1>1, <1>4 DEF D!Used
    <3>4. Proven(w.loaded, proven)
      BY <3>1, <3>3 DEF DeviceIInv
    <3>5. w.loaded.serial = None \/ w.loaded.serial = w.serial
      BY <1>4 DEF D!_reject_changed_serial
    <3>6. edited.code # None => edited.code = w.serial
      BY <2>4, <3>4, <3>5 DEF Proven
    <3> HIDE DEF edited, merged, written
    <3> QED BY <1>1, <2>4, <3>2, <3>6 DEF Proven
  <2> HIDE DEF merged
  <2>8. rows' \in [D!Id -> D!Row \cup {None}]
    BY <1>1, <2>1, <2>6 DEF DeviceIInv, RowTypes
  <2>9. ~mixed' => \A i \in D!Id : rows'[i] = rows[i] \/ Proven(rows'[i], proven)
    BY <1>1, <2>1, <2>7 DEF DeviceIInv, RowTypes
  <2> HIDE DEF lands
  <2> QED BY <1>2, <2>8, <2>9, DeviceCommitKeeps
<1> QED BY <1>3, <1>4

LEMMA DeviceCommitDeleteKeeps ==
    ASSUME Furnished, DeviceIInv, NEW q \in Thread, D!CommitDelete(q)
    PROVE  DeviceIInv'
<1>1. /\ rows' = [rows EXCEPT ![device_work[q].id] = None] /\ D!Goes(q, D!Idle)
      /\ UNCHANGED <<wired, proven, mixed>>
  BY DEF D!CommitDelete
<1>2. rows' \in [D!Id -> D!Row \cup {None}]
  BY <1>1 DEF DeviceIInv, RowTypes
<1>3. \A i \in D!Id : rows'[i] = rows[i] \/ rows'[i] = None
  BY <1>1 DEF DeviceIInv, RowTypes
<1> QED BY <1>1, <1>2, <1>3, DeviceCommitKeeps

LEMMA DeviceRewireKeeps ==
    ASSUME DeviceIInv, D!Rewire
    PROVE  DeviceIInv'
<1>1. UNCHANGED <<rows, device_work, proven, mixed>> /\ wired' \in [Line -> Serial]
  BY DEF D!Rewire, DeviceIInv, RowTypes
<1>2. RowTypes'
  BY <1>1 DEF DeviceIInv, RowTypes
<1>3. \A q \in Thread : DeviceReady(device_work'[q], proven')
  BY <1>1 DEF DeviceIInv, DeviceReady
<1>4. (~mixed => \A i \in D!Used : Proven(rows[i], proven))'
  BY <1>1 DEF DeviceIInv, D!Used, Proven
<1> QED BY <1>2, <1>3, <1>4 DEF DeviceIInv

LEMMA DeviceStepIInv ==
    ASSUME Furnished, DeviceIInv, [D!Next]_D!vars
    PROVE  DeviceIInv'
<1>1. CASE UNCHANGED D!vars
  BY <1>1 DEF D!vars, DeviceIInv, RowTypes, DeviceReady, D!Used, Proven
<1>2. CASE D!Next
  BY <1>2, DeviceBeginKeeps, DeviceProbeKeeps, DeviceCommitCreateKeeps, DeviceCommitUpdateKeeps,
     DeviceCommitDeleteKeeps, DeviceRewireKeeps DEF D!Next
<1> QED BY <1>1, <1>2

-----------------------------------------------------------------------------
(* The calendar: the inductive invariant.                                  *)

Calendars == MaxHolidays \in Nat /\ NoDay \notin H!Day /\ None \notin H!Row

\* What a request holds while it waits for its commit.
HolidayReady(w) ==
    /\ w.pc = "add"    => w.body \in H!Holiday
    /\ w.pc = "edit"   => w.body \in H!Holiday /\ w.id \in H!Id
    /\ w.pc = "delete" => w.id \in H!Id /\ w.loaded # None
    /\ w.pc = "import" => w.set \in SUBSET H!Holiday

HolidayIInv ==
    /\ holidays \in [H!Id -> H!Row \cup {None}] /\ accounted \in Int
    /\ DOMAIN holiday_work = Thread
    /\ \A a \in Thread : HolidayReady(holiday_work[a])
    /\ H!CalendarIsAccountedFor

LEMMA HolidaysAreWhole ==
    ASSUME Calendars
    PROVE  \A h \in H!Holiday : h \in H!Row /\ h # None /\ H!Whole(h)
<1>1. \A h \in H!Annual : h \in H!Row /\ h.kind = "annual" /\ h.date = NoDay /\ h.day \in H!Day
  BY DEF H!Annual, H!Row
<1>2. \A h \in H!Public : h \in H!Row /\ h.kind = "public" /\ h.day = NoDay /\ h.date \in H!Day
  BY DEF H!Public, H!Row
<1> QED BY <1>1, <1>2 DEF Calendars, H!Holiday, H!Whole

LEMMA StoredIsFinite ==
    ASSUME Calendars
    PROVE  IsFiniteSet(H!Stored)
<1>1. IsFiniteSet(1 .. MaxHolidays)
  BY FS_Interval DEF Calendars
<1> QED BY <1>1, FS_Subset DEF H!Stored, H!Id

LEMMA HolidayNextIdIsFree ==
    ASSUME Calendars
    PROVE  H!NextId \notin H!Stored
<1>1. CASE H!Stored = {}
  BY <1>1
<1>2. CASE H!Stored # {}
  <2>1. H!Stored \in SUBSET (1 .. MaxHolidays)
    BY DEF H!Stored, H!Id
  <2>2. H!Max(H!Stored) \in H!Stored /\ \A y \in H!Stored : H!Max(H!Stored) >= y
    BY <1>2, <2>1, HasMost DEF Calendars, H!Max
  <2>3. H!NextId = H!Max(H!Stored) + 1
    BY <1>2 DEF H!NextId
  <2>4. H!Max(H!Stored) \in 1 .. MaxHolidays
    BY <2>1, <2>2
  <2>5. ASSUME H!Max(H!Stored) + 1 \in H!Stored
        PROVE  FALSE
    BY <2>2, <2>4, <2>5
  <2> QED BY <2>3, <2>5
<1> QED BY <1>1, <1>2

LEMMA HolidayInitIInv ==
    ASSUME Calendars, H!Init
    PROVE  HolidayIInv
<1>1. H!Stored = {}
  BY DEF H!Init, H!Stored
<1>2. H!CalendarIsAccountedFor
  BY <1>1, FS_EmptySet, SameCount DEF H!Init, H!CalendarIsAccountedFor
<1>3. HolidayReady(H!Idle)
  BY DEF HolidayReady, H!Idle
<1> QED BY <1>2, <1>3 DEF H!Init, HolidayIInv

\* A request goes on with w, and nothing is written.
LEMMA HolidayGoesKeeps ==
    ASSUME HolidayIInv, NEW a \in Thread, NEW w, HolidayReady(w), H!Goes(a, w),
           UNCHANGED <<holidays, accounted, crossed>>
    PROVE  HolidayIInv'
<1>1. holiday_work' = [holiday_work EXCEPT ![a] = w]
  BY DEF H!Goes
<1>2. DOMAIN holiday_work' = Thread /\ \A b \in Thread : HolidayReady(holiday_work'[b])
  BY <1>1 DEF HolidayIInv
<1>3. H!CalendarIsAccountedFor'
  BY DEF HolidayIInv, H!CalendarIsAccountedFor, H!Stored
<1> QED BY <1>2, <1>3 DEF HolidayIInv, HolidayReady

\* A request commits, and is done.
LEMMA HolidayCommitKeeps ==
    ASSUME HolidayIInv, NEW a \in Thread, H!Goes(a, H!Idle),
           holidays' \in [H!Id -> H!Row \cup {None}], accounted' \in Int,
           H!CalendarIsAccountedFor'
    PROVE  HolidayIInv'
<1>1. holiday_work' = [holiday_work EXCEPT ![a] = H!Idle]
  BY DEF H!Goes
<1>2. HolidayReady(H!Idle)
  BY DEF HolidayReady, H!Idle
<1>3. DOMAIN holiday_work' = Thread /\ \A b \in Thread : HolidayReady(holiday_work'[b])
  BY <1>1, <1>2 DEF HolidayIInv
<1> QED BY <1>3 DEF HolidayIInv, HolidayReady

LEMMA HolidayBeginKeeps ==
    ASSUME Calendars, HolidayIInv, NEW a \in Thread,
           \/ \E h \in H!Holiday : H!create_holiday(a, h)
           \/ \E i \in H!Id, h \in H!Holiday : H!update_holiday(a, i, h)
           \/ \E i \in H!Id : H!delete_holiday(a, i)
           \/ \E set \in {s \in SUBSET H!Holiday : H!Cardinality(s) <= MaxHolidays} :
                H!import_holidays(a, set)
           \/ H!import_holidays_from_meter(a)
    PROVE  HolidayIInv'
<1>0. HolidayReady(H!Idle)
  BY DEF HolidayReady, H!Idle
<1>1. ASSUME NEW h \in H!Holiday, H!create_holiday(a, h)
      PROVE  HolidayIInv'
  <2>1. HolidayReady([H!Idle EXCEPT !.pc = "add", !.body = h])
    BY DEF HolidayReady, H!Idle
  <2> QED BY <1>0, <1>1, <2>1, HolidayGoesKeeps DEF H!create_holiday
<1>2. ASSUME NEW i \in H!Id, NEW h \in H!Holiday, H!update_holiday(a, i, h)
      PROVE  HolidayIInv'
  <2>1. HolidayReady([H!Idle EXCEPT !.pc = "edit", !.id = i, !.loaded = holidays[i], !.body = h])
    BY DEF HolidayReady, H!Idle
  <2> QED BY <1>0, <1>2, <2>1, HolidayGoesKeeps DEF H!update_holiday
<1>3. ASSUME NEW i \in H!Id, H!delete_holiday(a, i)
      PROVE  HolidayIInv'
  <2>1. HolidayReady([H!Idle EXCEPT !.pc = "delete", !.id = i, !.loaded = holidays[i]])
    BY <1>3 DEF HolidayReady, H!Idle, H!delete_holiday, H!Stored
  <2> QED BY <1>3, <2>1, HolidayGoesKeeps DEF H!delete_holiday
<1>4. ASSUME NEW set \in SUBSET H!Holiday, H!import_holidays(a, set)
      PROVE  HolidayIInv'
  <2>1. HolidayReady([H!Idle EXCEPT !.pc = "import", !.set = set])
    BY DEF HolidayReady, H!Idle
  <2> QED BY <1>4, <2>1, HolidayGoesKeeps DEF H!import_holidays
<1>5. CASE H!import_holidays_from_meter(a)
  <2>1. {h \in H!Annual : h.day \in MeterDays} \in SUBSET H!Holiday
    BY DEF H!Holiday
  <2> QED BY <1>4, <1>5, <2>1 DEF H!import_holidays_from_meter
<1> QED BY <1>1, <1>2, <1>3, <1>4, <1>5

-----------------------------------------------------------------------------
(* The calendar: each commit.                                              *)

LEMMA HolidayCommitAddKeeps ==
    ASSUME Calendars, HolidayIInv, NEW a \in Thread, H!CommitAdd(a)
    PROVE  HolidayIInv'
<1> DEFINE body == holiday_work[a].body
<1>1. body \in H!Holiday /\ H!NextId \in H!Id /\ H!Goes(a, H!Idle) /\ crossed' = crossed
  BY DEF H!CommitAdd, HolidayIInv, HolidayReady
<1>2. body \in H!Row /\ body # None /\ H!Whole(body)
  BY <1>1, HolidaysAreWhole
<1>3. CASE H!_find_colliding_holiday(body, 0)
  <2>1. UNCHANGED <<holidays, accounted>>
    BY <1>3 DEF H!CommitAdd
  <2>2. H!CalendarIsAccountedFor'
    BY <1>1, <2>1 DEF HolidayIInv, H!CalendarIsAccountedFor, H!Stored
  <2> QED BY <1>1, <2>1, <2>2, HolidayCommitKeeps DEF HolidayIInv
<1>4. CASE ~H!_find_colliding_holiday(body, 0)
  <2>1. holidays' = [holidays EXCEPT ![H!NextId] = body] /\ accounted' = accounted + 1
    BY <1>4 DEF H!CommitAdd
  <2> HIDE DEF body
  <2>2. holidays' \in [H!Id -> H!Row \cup {None}]
    BY <1>1, <1>2, <2>1 DEF HolidayIInv
  <2>3. H!Stored' = H!Stored \cup {H!NextId}
    BY <1>1, <1>2, <2>1 DEF HolidayIInv, H!Stored
  <2>4. Cardinality(H!Stored') = Cardinality(H!Stored) + 1
    BY <2>3, StoredIsFinite, HolidayNextIdIsFree, FS_AddElement
  <2>5. ASSUME ~crossed, NEW i \in H!Stored'
        PROVE  H!Whole(holidays'[i])
    <3>1. CASE i = H!NextId
      BY <1>1, <1>2, <2>1, <3>1 DEF HolidayIInv
    <3>2. CASE i # H!NextId
      BY <2>1, <2>3, <2>5, <3>2 DEF HolidayIInv, H!CalendarIsAccountedFor, H!Stored
    <3> QED BY <3>1, <3>2
  <2>6. H!CalendarIsAccountedFor'
    BY <1>1, <1>2, <2>1, <2>4, <2>5, SameCount DEF HolidayIInv, H!CalendarIsAccountedFor, H!Whole
  <2> QED BY <1>1, <2>1, <2>2, <2>6, HolidayCommitKeeps DEF HolidayIInv
<1> QED BY <1>3, <1>4

LEMMA HolidayCommitEditKeeps ==
    ASSUME Calendars, HolidayIInv, NEW a \in Thread, H!CommitEdit(a)
    PROVE  HolidayIInv'
<1> DEFINE w       == holiday_work[a]
           written == {c \in DOMAIN w.body : w.body[c] # w.loaded[c]}
           row     == [c \in DOMAIN w.body |->
                         IF c \in written THEN w.body[c] ELSE holidays[w.id][c]]
           lands   == w.id \in H!Stored /\ ~H!_find_colliding_holiday(row, w.id)
<1>1. w.body \in H!Holiday /\ w.id \in H!Id /\ H!Goes(a, H!Idle) /\ accounted' = accounted
  BY DEF H!CommitEdit, HolidayIInv, HolidayReady
<1>2. w.body \in H!Row /\ H!Whole(w.body)
  BY <1>1, HolidaysAreWhole
<1>3. CASE ~(written # {} /\ lands)
  <2>1. UNCHANGED <<holidays, crossed>>
    BY <1>3 DEF H!CommitEdit
  <2>2. H!CalendarIsAccountedFor'
    BY <1>1, <2>1 DEF HolidayIInv, H!CalendarIsAccountedFor, H!Stored
  <2> QED BY <1>1, <2>1, <2>2, HolidayCommitKeeps DEF HolidayIInv
<1>4. CASE written # {} /\ lands
  <2>1. /\ holidays' = [holidays EXCEPT ![w.id] = row]
        /\ crossed' = (crossed \/ holidays[w.id] # w.loaded)
    BY <1>4 DEF H!CommitEdit
  <2>2. holidays[w.id] \in H!Row /\ w.id \in H!Stored
    BY <1>1, <1>4 DEF HolidayIInv, H!Stored
  <2>3. DOMAIN w.body = {"kind", "date", "day"}
    BY <1>2 DEF H!Row
  <2>4. row \in H!Row
    BY <1>2, <2>2, <2>3 DEF H!Row
  <2>5. holidays[w.id] = w.loaded => row = w.body
    BY <1>2, <2>3 DEF H!Row
  <2> HIDE DEF row
  <2>6. row # None
    BY <2>4 DEF Calendars
  <2>7. holidays' \in [H!Id -> H!Row \cup {None}]
    BY <1>1, <2>1, <2>4 DEF HolidayIInv
  <2>8. H!Stored' = H!Stored
    BY <1>1, <2>1, <2>2, <2>6 DEF HolidayIInv, H!Stored
  <2>9. ASSUME ~crossed', NEW i \in H!Stored'
        PROVE  H!Whole(holidays'[i])
    <3>1. ~crossed /\ row = w.body
      BY <2>1, <2>5, <2>9
    <3>2. CASE i = w.id
      BY <1>1, <1>2, <2>1, <3>1, <3>2 DEF HolidayIInv
    <3>3. CASE i # w.id
      BY <2>1, <2>8, <2>9, <3>1, <3>3 DEF HolidayIInv, H!CalendarIsAccountedFor, H!Stored
    <3> QED BY <3>2, <3>3
  <2>10. H!CalendarIsAccountedFor'
    BY <1>1, <2>1, <2>8, <2>9 DEF HolidayIInv, H!CalendarIsAccountedFor, H!Whole
  <2> QED BY <1>1, <2>7, <2>10, HolidayCommitKeeps DEF HolidayIInv
<1> QED BY <1>3, <1>4

LEMMA HolidayCommitDeleteKeeps ==
    ASSUME Calendars, HolidayIInv, NEW a \in Thread, H!CommitDelete(a)
    PROVE  HolidayIInv'
<1> DEFINE w == holiday_work[a]
<1>1. w.id \in H!Id /\ w.loaded # None /\ H!Goes(a, H!Idle)
  BY DEF H!CommitDelete, HolidayIInv, HolidayReady
<1>2. /\ holidays' = [holidays EXCEPT ![w.id] = None] /\ accounted' = accounted - 1
      /\ crossed' = (crossed \/ holidays[w.id] # w.loaded)
  BY DEF H!CommitDelete
<1>3. holidays' \in [H!Id -> H!Row \cup {None}]
  BY <1>2 DEF HolidayIInv
<1>4. H!Stored' = H!Stored \ {w.id}
  BY <1>1, <1>2 DEF HolidayIInv, H!Stored
<1>5. \A i \in H!Stored' : holidays'[i] = holidays[i]
  BY <1>2, <1>4 DEF HolidayIInv, H!Stored
<1>6. ASSUME ~crossed'
      PROVE  ~crossed /\ w.id \in H!Stored
  BY <1>1, <1>2, <1>6 DEF H!Stored
<1>7. w.id \in H!Stored => Cardinality(H!Stored') = Cardinality(H!Stored) - 1
  BY <1>4, StoredIsFinite, FS_RemoveElement
<1>8. H!CalendarIsAccountedFor'
  <2>1. ASSUME ~crossed'
        PROVE  accounted' = Cardinality(H!Stored')
    BY <1>2, <1>6, <1>7, <2>1, SameCount DEF HolidayIInv, H!CalendarIsAccountedFor
  <2>2. ASSUME ~crossed', NEW i \in H!Stored'
        PROVE  H!Whole(holidays'[i])
    BY <1>4, <1>5, <1>6, <2>2 DEF HolidayIInv, H!CalendarIsAccountedFor
  <2> QED BY <2>1, <2>2, SameCount DEF H!CalendarIsAccountedFor, H!Whole
<1> QED BY <1>1, <1>2, <1>3, <1>8, HolidayCommitKeeps DEF HolidayIInv

\* So many rows as the document has entries, however many it has: with more entries
\* than ids there is no such numbering.
LEMMA NumberedCounts ==
    ASSUME Calendars, NEW set \in SUBSET H!Holiday, NEW f \in H!Numbered(set)
    PROVE  /\ Cardinality(set) \in Nat
           /\ Cardinality({i \in H!Id : f[i] # None}) = Cardinality(set)
<1> DEFINE S == {i \in H!Id : f[i] # None}
           g == [i \in S |-> f[i]]
<1>1. /\ f \in [H!Id -> set \cup {None}]
      /\ \A h \in set : \E i \in H!Id : f[i] = h
      /\ \A i \in H!Id : f[i] # None <=> i <= Cardinality(set)
  BY SameCount DEF H!Numbered
<1>2. \A h \in set : h # None
  BY HolidaysAreWhole
<1>3. g \in Surjection(S, set)
  BY <1>1, <1>2 DEF Surjection
<1>4. IsFiniteSet(H!Id) /\ Cardinality(H!Id) = MaxHolidays
  BY CountTo DEF H!Id, Calendars
<1>5. IsFiniteSet(S) /\ Cardinality(S) <= MaxHolidays
  BY <1>4, FS_Subset
<1>6. IsFiniteSet(set) /\ Cardinality(set) <= Cardinality(S)
  BY <1>3, <1>5, FS_Surjection
<1>7. Cardinality(set) \in Nat /\ Cardinality(S) \in Nat
  BY <1>5, <1>6, FS_CardinalityType
<1> HIDE DEF g
<1>8. PICK n \in Nat : n = Cardinality(set) /\ n <= MaxHolidays
  BY <1>5, <1>6, <1>7 DEF Calendars
<1>9. S = 1 .. n
  <2>0. \A i \in H!Id : f[i] # None <=> i <= n
    BY <1>1, <1>8
  <2>1. \A i \in H!Id : i \in S <=> i <= n
    BY <2>0
  <2>2. \A i : i \in S <=> i \in 1 .. n
    BY <1>8, <2>1 DEF H!Id, Calendars
  <2> QED BY <2>2
<1>10. Cardinality(1 .. n) = n
  BY CountTo
<1> QED BY <1>7, <1>8, <1>9, <1>10

LEMMA HolidayCommitImportKeeps ==
    ASSUME Calendars, HolidayIInv, NEW a \in Thread, H!CommitImport(a)
    PROVE  HolidayIInv'
<1> DEFINE set == holiday_work[a].set
<1>1. set \in SUBSET H!Holiday /\ H!Goes(a, H!Idle) /\ holidays' \in H!Numbered(set)
      /\ accounted' = Cardinality(set)
  BY SameCount DEF H!CommitImport, HolidayIInv, HolidayReady
<1>2. Cardinality(set) \in Nat /\ Cardinality({i \in H!Id : holidays'[i] # None}) = Cardinality(set)
  BY <1>1, NumberedCounts
<1>3. holidays' \in [H!Id -> set \cup {None}]
  BY <1>1 DEF H!Numbered
<1>4. holidays' \in [H!Id -> H!Row \cup {None}]
  BY <1>1, <1>3, HolidaysAreWhole
<1>5. \A i \in H!Stored' : H!Whole(holidays'[i])
  BY <1>1, <1>3, HolidaysAreWhole DEF H!Stored
<1>6. H!CalendarIsAccountedFor'
  BY <1>1, <1>2, <1>5, SameCount DEF H!CalendarIsAccountedFor, H!Stored, H!Whole
<1> QED BY <1>1, <1>2, <1>4, <1>6, HolidayCommitKeeps

LEMMA HolidayStepIInv ==
    ASSUME Calendars, HolidayIInv, [H!Next]_H!vars
    PROVE  HolidayIInv'
<1>1. CASE UNCHANGED H!vars
  BY <1>1 DEF H!vars, HolidayIInv, HolidayReady, H!CalendarIsAccountedFor, H!Stored
<1>2. CASE H!Next
  BY <1>2, HolidayBeginKeeps, HolidayCommitAddKeeps, HolidayCommitEditKeeps,
     HolidayCommitDeleteKeeps, HolidayCommitImportKeeps DEF H!Next
<1> QED BY <1>1, <1>2

-----------------------------------------------------------------------------
(* The Energy Summary: the inductive invariant.                            *)

Summaries == MaxHalf \in Nat /\ RETENTION_DAYS \in Nat

ReadingsOf(d) == {h \in readings : E!DayOf(h) = d}

Figures ==
    /\ half \in E!Half /\ readings \in SUBSET E!Half
    /\ energy_job.pc \in {"rest", "compute", "commit", "export"} /\ energy_job.today \in Int
    /\ most \in [E!Day -> Nat]
    /\ \A d \in E!Day : E!Total(table[d]) \in Nat /\ E!Total(table[d]) <= most[d]

\* A day out of the window for good: no pass of today, nor one under way, writes it.
Gone(d) ==
    /\ table[d] = NoDay
    /\ d < E!local_today - (RETENTION_DAYS - 1)
    /\ energy_job.pc = "compute" => d < energy_job.today - (RETENTION_DAYS - 1)
    /\ energy_job.pc = "commit" => energy_job.computed[d] = NoDay

\* What a day once held is there to be counted, until the day is gone.
NothingLeaks == \A d \in E!Day \ revised : most[d] <= Cardinality(ReadingsOf(d)) \/ Gone(d)

\* What is about to be written is no less than what was, and no more than there is.
ComputedIsWhole ==
    energy_job.pc = "commit" =>
      \A d \in E!Day : energy_job.computed[d] # NoDay =>
        /\ E!Total(energy_job.computed[d]) \in Nat
        /\ d \notin revised => /\ most[d] <= E!Total(energy_job.computed[d])
                               /\ E!Total(energy_job.computed[d]) <= Cardinality(ReadingsOf(d))

EnergyIInv == Figures /\ NothingLeaks /\ ComputedIsWhole /\ E!StoredDayIsWhole

LEMMA ReadingsAreFinite ==
    ASSUME Summaries, NEW rs \in SUBSET E!Half, NEW d
    PROVE  /\ IsFiniteSet({h \in rs : E!DayOf(h) = d})
           /\ Cardinality({h \in rs : E!DayOf(h) = d}) \in Nat
<1>1. IsFiniteSet(0 .. MaxHalf)
  BY FS_Interval DEF Summaries
<1>2. {h \in rs : E!DayOf(h) = d} \in SUBSET (0 .. MaxHalf)
  BY DEF E!Half
<1>3. IsFiniteSet({h \in rs : E!DayOf(h) = d})
  BY <1>1, <1>2, FS_Subset
<1> QED BY <1>3, FS_CardinalityType

LEMMA LaterDay ==
    ASSUME NEW a \in Int, NEW b \in Int, a <= b
    PROVE  a \div 2 \in Int /\ b \div 2 \in Int /\ a \div 2 <= b \div 2
<1>1. 2 * (a \div 2) <= a /\ a < 2 * (a \div 2) + 2 /\ a \div 2 \in Int
  OBVIOUS
<1>2. 2 * (b \div 2) <= b /\ b < 2 * (b \div 2) + 2 /\ b \div 2 \in Int
  OBVIOUS
<1> QED BY <1>1, <1>2

LEMMA EnergyInitIInv ==
    ASSUME Summaries, E!Init
    PROVE  EnergyIInv
<1>1. \A d \in E!Day : table[d] = NoDay /\ most[d] = 0 /\ E!Total(table[d]) = 0
  BY DEF E!Init, E!Empty, E!Total
<1>2. Figures
  BY <1>1 DEF E!Init, Figures, E!Rest, E!Half, E!DayOf, Summaries
<1>3. \A d : Cardinality(ReadingsOf(d)) \in Nat
  BY ReadingsAreFinite DEF E!Init, ReadingsOf
<1>4. NothingLeaks
  BY <1>1, <1>3 DEF NothingLeaks
<1>5. ComputedIsWhole /\ E!StoredDayIsWhole
  BY <1>1 DEF E!Init, E!Rest, ComputedIsWhole, E!StoredDayIsWhole
<1> QED BY <1>2, <1>4, <1>5 DEF EnergyIInv

\* A step of another thread: rows and job are as they were, the clock does not go back,
\* and of a day nobody takes readings back from none is missing.
LEMMA EnergyOthersKeep ==
    ASSUME Summaries, EnergyIInv, UNCHANGED <<table, energy_job, most>>,
           half' \in E!Half, half <= half', readings' \in SUBSET E!Half,
           revised \in SUBSET revised',
           \A d \in E!Day \ revised' : ReadingsOf(d) \in SUBSET ReadingsOf(d)'
    PROVE  EnergyIInv'
<1>1. Figures'
  BY DEF EnergyIInv, Figures
<1>2. ASSUME NEW d \in E!Day \ revised'
      PROVE  /\ Cardinality(ReadingsOf(d)) <= Cardinality(ReadingsOf(d)')
             /\ Cardinality(ReadingsOf(d)) \in Nat /\ Cardinality(ReadingsOf(d)') \in Nat
  <2>1. IsFiniteSet(ReadingsOf(d)') /\ Cardinality(ReadingsOf(d)') \in Nat
    BY ReadingsAreFinite DEF ReadingsOf
  <2>2. IsFiniteSet(ReadingsOf(d)) /\ Cardinality(ReadingsOf(d)) \in Nat
    <3>1. readings \in SUBSET E!Half
      BY DEF EnergyIInv, Figures
    <3> QED BY <3>1, ReadingsAreFinite DEF ReadingsOf
  <2>3. Cardinality(ReadingsOf(d)) <= Cardinality(ReadingsOf(d)')
    BY <1>2, <2>1, FS_Subset
  <2> QED BY <2>1, <2>2, <2>3
<1>3. E!local_today \in Int /\ E!local_today' \in Int /\ E!local_today <= E!local_today'
  <2>1. half \in Int /\ half' \in Int
    BY DEF EnergyIInv, Figures, E!Half, Summaries
  <2>2. half \div 2 \in Int /\ half' \div 2 \in Int /\ half \div 2 <= half' \div 2
    BY <2>1, LaterDay
  <2> QED BY <2>2 DEF E!local_today, E!DayOf
<1>4. NothingLeaks'
  <2> SUFFICES ASSUME NEW d \in E!Day \ revised'
               PROVE  most[d] <= Cardinality(ReadingsOf(d)') \/ Gone(d)'
    BY DEF NothingLeaks
  <2>1. most[d] \in Nat /\ d \in Int /\ d \notin revised
    BY DEF EnergyIInv, Figures, E!Day, E!DayOf, E!Half, Summaries
  <2>2. CASE most[d] <= Cardinality(ReadingsOf(d))
    BY <1>2, <2>1, <2>2
  <2>3. CASE Gone(d)
    <3>1. d < E!local_today' - (RETENTION_DAYS - 1)
      <4>1. d < E!local_today - (RETENTION_DAYS - 1) /\ RETENTION_DAYS \in Int /\ d \in Int
        BY <2>1, <2>3 DEF Gone, Summaries
      <4> HIDE DEF E!local_today
      <4>2. \A x, y \in Int : x <= y /\ d < x - (RETENTION_DAYS - 1) => d < y - (RETENTION_DAYS - 1)
        BY <4>1
      <4> QED BY <1>3, <4>1, <4>2
    <3>2. Gone(d)'
      BY <2>3, <3>1 DEF Gone
    <3> QED BY <3>2
  <2> QED BY <2>1, <2>2, <2>3 DEF EnergyIInv, NothingLeaks
<1>5. ComputedIsWhole'
  <2> SUFFICES ASSUME energy_job.pc = "commit", NEW d \in E!Day, energy_job.computed[d] # NoDay
               PROVE  /\ E!Total(energy_job.computed[d]) \in Nat
                      /\ d \notin revised' =>
                           /\ most[d] <= E!Total(energy_job.computed[d])
                           /\ E!Total(energy_job.computed[d]) <= Cardinality(ReadingsOf(d)')
    BY DEF ComputedIsWhole, E!Total
  <2>1. /\ E!Total(energy_job.computed[d]) \in Nat
        /\ d \notin revised => /\ most[d] <= E!Total(energy_job.computed[d])
                               /\ E!Total(energy_job.computed[d]) <= Cardinality(ReadingsOf(d))
    BY DEF EnergyIInv, ComputedIsWhole
  <2> QED BY <1>2, <2>1
<1>6. E!StoredDayIsWhole'
  BY DEF EnergyIInv, E!StoredDayIsWhole, E!Total
<1> QED BY <1>1, <1>4, <1>5, <1>6 DEF EnergyIInv

-----------------------------------------------------------------------------
(* The Energy Summary: the jobs.                                           *)

\* A job moves on without a row computed or written.
LEMMA EnergyJobMovesOn ==
    ASSUME Summaries, EnergyIInv, UNCHANGED <<half, readings, table, most, revised>>,
           energy_job'.pc \in {"rest", "compute", "export"}, energy_job'.today \in Int,
           energy_job'.pc = "compute" => energy_job'.today = E!local_today
    PROVE  EnergyIInv'
<1>1. Figures'
  BY DEF EnergyIInv, Figures
<1>2. NothingLeaks'
  BY DEF EnergyIInv, NothingLeaks, Gone, ReadingsOf, E!local_today
<1>3. ComputedIsWhole' /\ E!StoredDayIsWhole'
  BY DEF EnergyIInv, ComputedIsWhole, E!StoredDayIsWhole
<1> QED BY <1>1, <1>2, <1>3 DEF EnergyIInv

\* Each day that has a row is in the window, and the row has all its readings.
LEMMA RowsCount ==
    ASSUME Summaries, readings \in SUBSET E!Half, NEW days, NEW d \in E!Day,
           E!energy_summary_rows(days)[d] # NoDay
    PROVE  /\ d \in days
           /\ E!Total(E!energy_summary_rows(days)[d]) = Cardinality(ReadingsOf(d))
           /\ Cardinality(ReadingsOf(d)) \in Nat
<1> DEFINE of == ReadingsOf(d)
           peak == {h \in of : h % 2 = 1}
           offpeak == {h \in of : h % 2 = 0}
           row == E!energy_summary_rows(days)[d]
<1>1. IsFiniteSet(of) /\ Cardinality(of) \in Nat
  BY ReadingsAreFinite DEF ReadingsOf
<1>2. d \in days
  BY DEF E!energy_summary_rows
<1>3. row = IF d \in calendar THEN [peak |-> 0, offpeak |-> 0, holiday |-> Cardinality(of)]
            ELSE [peak |-> Cardinality(peak), offpeak |-> Cardinality(offpeak), holiday |-> 0]
  BY SameCount DEF E!energy_summary_rows, ReadingsOf
<1>4. /\ IsFiniteSet(peak) /\ IsFiniteSet(offpeak)
      /\ Cardinality(peak) \in Nat /\ Cardinality(offpeak) \in Nat
  BY <1>1, FS_Subset, FS_CardinalityType
<1>5. Cardinality(peak) + Cardinality(offpeak) = Cardinality(of)
  <2>1. \A h \in of : h % 2 = 1 \/ h % 2 = 0
    BY DEF ReadingsOf, E!Half
  <2>2. peak \cup offpeak = of
    BY <2>1
  <2>3. peak \cap offpeak = {}
    OBVIOUS
  <2> HIDE DEF of, peak, offpeak
  <2>4. Cardinality(of) = Cardinality(peak) + Cardinality(offpeak) - Cardinality({})
    BY <1>4, <2>2, <2>3, FS_Union
  <2> QED BY <1>4, <2>4, FS_EmptySet
<1>6. E!Total(row) = row.peak + row.offpeak + row.holiday
  BY DEF E!Total
<1> HIDE DEF of, peak, offpeak, row
<1>7. ASSUME d \in calendar
      PROVE  E!Total(row) = Cardinality(of)
  <2>1. row = [peak |-> 0, offpeak |-> 0, holiday |-> Cardinality(of)]
    BY <1>3, <1>7
  <2>2. row.peak = 0 /\ row.offpeak = 0 /\ row.holiday = Cardinality(of)
    BY <2>1
  <2> QED BY <1>1, <1>6, <2>2
<1>8. ASSUME d \notin calendar
      PROVE  E!Total(row) = Cardinality(of)
  <2>1. row = [peak |-> Cardinality(peak), offpeak |-> Cardinality(offpeak), holiday |-> 0]
    BY <1>3, <1>8
  <2>2. row.peak = Cardinality(peak) /\ row.offpeak = Cardinality(offpeak) /\ row.holiday = 0
    BY <2>1
  <2> QED BY <1>4, <1>5, <1>6, <2>2
<1> QED BY <1>1, <1>2, <1>7, <1>8 DEF row, of

LEMMA EnergyComputeKeeps ==
    ASSUME Summaries, EnergyIInv, E!_recompute_device
    PROVE  EnergyIInv'
<1> DEFINE rowsNow == E!energy_summary_rows(E!Window(energy_job.today))
<1>1. /\ energy_job.pc = "compute" /\ UNCHANGED <<half, readings, table, most, revised>>
      /\ energy_job' = [energy_job EXCEPT !.pc = "commit", !.computed = rowsNow]
  BY DEF E!_recompute_device
<1>2. \A d \in E!Day : rowsNow[d] # NoDay =>
        /\ d \in E!Window(energy_job.today)
        /\ E!Total(rowsNow[d]) = Cardinality(ReadingsOf(d))
        /\ Cardinality(ReadingsOf(d)) \in Nat
  BY RowsCount DEF EnergyIInv, Figures
<1> HIDE DEF rowsNow
<1>3. Figures'
  BY <1>1 DEF EnergyIInv, Figures
<1>4. ASSUME NEW d \in E!Day, rowsNow[d] # NoDay, d \notin revised
      PROVE  most[d] <= Cardinality(ReadingsOf(d))
  <2>1. d >= energy_job.today - (RETENTION_DAYS - 1)
    BY <1>2, <1>4 DEF E!Window
  <2>2. ASSUME Gone(d)
        PROVE  FALSE
    BY <1>1, <2>1, <2>2 DEF Gone, EnergyIInv, Figures, E!Day, E!DayOf, Summaries
  <2> QED BY <1>4, <2>2 DEF EnergyIInv, NothingLeaks
<1>5. energy_job'.pc = "commit" /\ energy_job'.computed = rowsNow
  BY <1>1
<1>6. ComputedIsWhole'
  BY <1>1, <1>2, <1>4, <1>5 DEF ComputedIsWhole, E!Total, ReadingsOf, EnergyIInv, Figures
<1>7. ASSUME NEW d \in E!Day, Gone(d)
      PROVE  Gone(d)'
  <2>1. rowsNow[d] = NoDay
    BY <1>1, <1>2, <1>7 DEF Gone, E!Window, EnergyIInv, Figures, E!Day, E!DayOf, Summaries
  <2> QED BY <1>1, <1>5, <1>7, <2>1 DEF Gone, E!local_today
<1>8. NothingLeaks'
  BY <1>1, <1>7 DEF EnergyIInv, NothingLeaks, ReadingsOf
<1>9. E!StoredDayIsWhole'
  BY <1>1 DEF EnergyIInv, E!StoredDayIsWhole
<1> QED BY <1>3, <1>6, <1>8, <1>9 DEF EnergyIInv

LEMMA EnergyCommitKeeps ==
    ASSUME Summaries, EnergyIInv, E!CommitDevice
    PROVE  EnergyIInv'
<1> DEFINE days     == E!Window(energy_job.today)
           existing == E!Stored(table, days)
           to == [d \in E!Day |-> IF energy_job.computed[d] # NoDay THEN energy_job.computed[d]
                                ELSE IF d \in E!Stale(existing, energy_job.computed) THEN NoDay
                                ELSE table[d]]
<1>1. /\ energy_job.pc = "commit" /\ table' = to
      /\ most' = [d \in E!Day |-> IF E!Total(to[d]) > most[d] THEN E!Total(to[d]) ELSE most[d]]
      /\ energy_job' = [E!Rest EXCEPT !.pc = "export"]
      /\ UNCHANGED <<half, readings, revised>>
  BY DEF E!CommitDevice
<1>2. \A d \in E!Day : \/ to[d] = energy_job.computed[d] /\ energy_job.computed[d] # NoDay
                     \/ to[d] = NoDay
                     \/ to[d] = table[d]
  OBVIOUS
<1>3. \A d \in E!Day : table[d] = NoDay /\ energy_job.computed[d] = NoDay => to[d] = NoDay
  OBVIOUS
<1> HIDE DEF to
<1>4. \A d \in E!Day : E!Total(to[d]) \in Nat
  BY <1>1, <1>2 DEF EnergyIInv, Figures, ComputedIsWhole, E!Total
<1>5. energy_job'.pc = "export" /\ energy_job'.today \in Int
  BY <1>1 DEF E!Rest
<1>6. Figures'
  <2>1. \A d \in E!Day : most'[d] \in Nat /\ E!Total(to[d]) <= most'[d]
    BY <1>1, <1>4 DEF EnergyIInv, Figures
  <2>2. most' \in [E!Day -> Nat]
    BY <1>1, <2>1
  <2>3. \A d \in E!Day : E!Total(table'[d]) \in Nat /\ E!Total(table'[d]) <= most'[d]
    BY <1>1, <1>4, <2>1
  <2> QED BY <1>1, <1>5, <2>2, <2>3 DEF EnergyIInv, Figures, E!Total
<1>7. ASSUME NEW d \in E!Day \ revised, to[d] # NoDay
      PROVE  E!Total(to[d]) >= most'[d]
  <2>0. most[d] \in Nat /\ E!Total(to[d]) \in Nat
    BY <1>4 DEF EnergyIInv, Figures
  <2>1. E!Total(to[d]) >= most[d]
    BY <1>1, <1>2, <1>7, <2>0 DEF EnergyIInv, ComputedIsWhole, E!StoredDayIsWhole
  <2> QED BY <1>1, <2>0, <2>1
<1>8. E!StoredDayIsWhole'
  BY <1>1, <1>7 DEF E!StoredDayIsWhole, E!Total
<1>9. ASSUME NEW d \in E!Day \ revised
      PROVE  most'[d] <= Cardinality(ReadingsOf(d)) \/ Gone(d)'
  <2>0. /\ most[d] \in Nat /\ E!Total(to[d]) \in Nat /\ Cardinality(ReadingsOf(d)) \in Nat
        /\ E!Total(table[d]) \in Nat /\ E!Total(table[d]) <= most[d] /\ E!Total(NoDay) = 0
    BY <1>4, ReadingsAreFinite DEF EnergyIInv, Figures, ReadingsOf, E!Total
  <2>1. CASE Gone(d)
    <3>1. to[d] = NoDay
      BY <1>1, <1>3, <2>1 DEF Gone
    <3> QED BY <1>1, <1>5, <2>1, <3>1 DEF Gone, E!local_today
  <2>2. CASE most[d] <= Cardinality(ReadingsOf(d))
    <3>1. E!Total(to[d]) <= Cardinality(ReadingsOf(d))
      BY <1>1, <1>2, <2>0, <2>2 DEF EnergyIInv, ComputedIsWhole
    <3> QED BY <1>1, <2>0, <2>2, <3>1
  <2> QED BY <2>1, <2>2 DEF EnergyIInv, NothingLeaks
<1>10. NothingLeaks'
  BY <1>1, <1>9 DEF NothingLeaks, ReadingsOf
<1>11. ComputedIsWhole'
  BY <1>5 DEF ComputedIsWhole
<1> QED BY <1>6, <1>8, <1>10, <1>11 DEF EnergyIInv

\* The two cuts of Retention: a day that loses a reading loses its row.
LEMMA EnergyPurgeKeeps ==
    ASSUME Summaries, EnergyIInv, E!purge_expired
    PROVE  EnergyIInv'
<1> DEFINE old(d) == d < E!local_today - (RETENTION_DAYS - 1)
<1>1. /\ energy_job.pc = "rest" /\ UNCHANGED <<half, energy_job, revised, most>>
      /\ readings' = {h \in readings : h >= half - 2 * RETENTION_DAYS}
      /\ table' = [d \in E!Day |-> IF old(d) THEN NoDay ELSE table[d]]
  BY DEF E!purge_expired
<1>2. \A d \in E!Day : E!Total(table'[d]) \in Nat /\ E!Total(table'[d]) <= most[d]
  BY <1>1 DEF EnergyIInv, Figures, E!Total
<1>3. Figures'
  BY <1>1, <1>2 DEF EnergyIInv, Figures, E!Total
<1>4. ComputedIsWhole'
  BY <1>1 DEF ComputedIsWhole
<1>5. E!StoredDayIsWhole'
  BY <1>1 DEF EnergyIInv, E!StoredDayIsWhole, E!Total
<1>6. ASSUME NEW d \in E!Day \ revised
      PROVE  most[d] <= Cardinality(ReadingsOf(d)') \/ Gone(d)'
  <2>1. CASE old(d)
    BY <1>1, <2>1 DEF Gone, E!local_today
  <2>2. CASE ~old(d)
    <3>1. ASSUME NEW h \in readings, E!DayOf(h) = d
          PROVE  h >= half - 2 * RETENTION_DAYS
      BY <2>2, <3>1 DEF EnergyIInv, Figures, E!Half, E!DayOf, E!local_today, Summaries
    <3>2. ReadingsOf(d)' = ReadingsOf(d)
      BY <1>1, <3>1 DEF ReadingsOf
    <3>3. ~Gone(d)
      BY <2>2 DEF Gone
    <3> QED BY <3>2, <3>3 DEF EnergyIInv, NothingLeaks
  <2> QED BY <2>1, <2>2
<1>7. NothingLeaks'
  BY <1>1, <1>6 DEF NothingLeaks
<1> QED BY <1>3, <1>4, <1>5, <1>7 DEF EnergyIInv

LEMMA EnergyStepIInv ==
    ASSUME Summaries, EnergyIInv, [E!Next]_E!vars
    PROVE  EnergyIInv'
<1>0. half \in E!Half /\ half \in Int /\ readings \in SUBSET E!Half
  BY DEF EnergyIInv, Figures, E!Half, Summaries
<1>1. CASE E!energy_summary_recompute_cycle \/ E!export_device_energy \/ E!JobFails
  <2>1. E!local_today \in Int
    BY <1>0 DEF E!local_today, E!DayOf
  <2>2. UNCHANGED <<half, readings, table, most, revised>>
    BY <1>1 DEF E!energy_summary_recompute_cycle, E!export_device_energy, E!JobFails
  <2>3. CASE E!energy_summary_recompute_cycle
    <3>1. energy_job' = [E!Rest EXCEPT !.pc = "compute", !.today = E!local_today]
      BY <2>3 DEF E!energy_summary_recompute_cycle
    <3>2. energy_job'.pc = "compute" /\ energy_job'.today = E!local_today
      BY <3>1 DEF E!Rest
    <3> QED BY <2>1, <2>2, <3>2, EnergyJobMovesOn
  <2>4. CASE E!export_device_energy \/ E!JobFails
    <3>1. energy_job' = E!Rest \/ energy_job' = [E!Rest EXCEPT !.pc = "export"]
      BY <2>4 DEF E!export_device_energy, E!JobFails
    <3>2. energy_job'.pc \in {"rest", "export"} /\ energy_job'.today \in Int
      BY <3>1 DEF E!Rest
    <3> QED BY <2>2, <3>2, EnergyJobMovesOn
  <2> QED BY <1>1, <2>3, <2>4
<1>2. CASE E!Tick
  BY <1>0, <1>2, EnergyOthersKeep DEF E!Tick, E!Half, Summaries, ReadingsOf
<1>3. CASE E!ReadingIsStored
  <2>1. PICK h \in E!Half : readings' = readings \cup {h}
    BY <1>3 DEF E!ReadingIsStored
  <2> QED BY <1>0, <1>3, <2>1, EnergyOthersKeep DEF E!ReadingIsStored, ReadingsOf
<1>4. CASE E!ReadingsAreTakenBack
  <2>1. PICK gone \in {{h} : h \in readings} \cup {readings} :
          /\ readings' = readings \ gone
          /\ revised' = revised \cup {E!DayOf(h) : h \in gone}
    BY <1>4 DEF E!ReadingsAreTakenBack
  <2>2. \A d \in E!Day \ revised' : ReadingsOf(d) \in SUBSET ReadingsOf(d)'
    BY <2>1 DEF ReadingsOf
  <2>3. UNCHANGED <<half, table, energy_job, most>>
    BY <1>4 DEF E!ReadingsAreTakenBack
  <2>4. readings' \in SUBSET E!Half /\ revised \in SUBSET revised'
    BY <1>0, <2>1
  <2> QED BY <1>0, <2>2, <2>3, <2>4, EnergyOthersKeep
<1>5. CASE E!HolidayChanges \/ E!SettingsChange \/ UNCHANGED E!vars
  <2>1. UNCHANGED <<half, readings, table, energy_job, most, revised>>
    BY <1>5 DEF E!HolidayChanges, E!SettingsChange, E!vars
  <2>2. \A d \in E!Day \ revised' : ReadingsOf(d) \in SUBSET ReadingsOf(d)'
    BY <2>1 DEF ReadingsOf
  <2> QED BY <1>0, <2>1, <2>2, EnergyOthersKeep
<1> QED BY <1>1, <1>2, <1>3, <1>4, <1>5, EnergyComputeKeeps, EnergyCommitKeeps,
       EnergyPurgeKeeps DEF E!Next, E!Work

-----------------------------------------------------------------------------
(* The backups: the inductive invariant.                                   *)

\* One file at least survives, and there is a second to name it by.
Sane == keep \in Nat \ {0} /\ MaxClock \in Nat \ {0} /\ MaxMishaps \in Nat

\* Only what VACUUM INTO has finished is renamed, and only a rotation deletes.
PhasesAreApart ==
    /\ backup_job.pc = "replace" => temp = "whole"
    /\ backup_job.pc # "rest" => backup_job.stamp \in B!Stamp
    /\ backup_job.pc # "rotate" => backup_job.stale = {}

\* As long as the clock goes forward, a name is never older than what has one.
NamesGoForward ==
    /\ latest <= clock
    /\ \A s \in B!Stamps(files) : s <= latest
    /\ backup_job.pc \in {"vacuum", "replace"} =>
         latest <= backup_job.stamp /\ backup_job.stamp <= clock

\* The rotation leaves the backup last written alone.
LatestIsSafe == latest \notin backup_job.stale /\ (latest # 0 => latest \in B!Stamps(files))

BackupIInv ==
    /\ B!TypeOK /\ PhasesAreApart
    /\ \A f \in files : f.whole
    /\ ~turned => NamesGoForward /\ LatestIsSafe

LEMMA BackupInitIInv ==
    ASSUME Sane, B!Init
    PROVE  BackupIInv
<1>1. B!TypeOK
  <2>1. B!Rest \in [pc : {"rest", "vacuum", "replace", "rotate"}, stamp : B!Stamp \cup {0},
                  stale : SUBSET B!Stamp]
    BY DEF B!Rest
  <2>2. 1 \in B!Stamp /\ 0 \in 0 .. MaxMishaps
    BY DEF Sane, B!Stamp
  <2>3. turned \in BOOLEAN
    BY DEF B!Init
  <2>4. clock = 1 /\ files = {} /\ temp = "none" /\ backup_job = B!Rest /\ latest = 0 /\ mishaps = 0
    BY DEF B!Init
  <2> QED BY <2>1, <2>2, <2>3, <2>4 DEF B!TypeOK
<1>2. PhasesAreApart
  BY DEF B!Init, PhasesAreApart, B!Rest
<1>3. NamesGoForward /\ LatestIsSafe
  BY DEF B!Init, NamesGoForward, LatestIsSafe, B!Rest, B!Stamps
<1> QED BY <1>1, <1>2, <1>3 DEF BackupIInv, B!Init

\* The newest of the names is not one that goes.
LEMMA BackupNewestStays ==
    ASSUME Sane, NEW S \in SUBSET Nat, NEW n \in S, \A s \in S : s <= n
    PROVE  n \notin B!Stale(S)
<1>1. \A s \in S : ~(s > n)
  OBVIOUS
<1>2. B!Newer(n, S) = {}
  BY <1>1 DEF B!Newer
<1>3. Cardinality(B!Newer(n, S)) = 0
  BY <1>2, FS_EmptySet
<1> QED BY <1>3, SameCount DEF B!Stale, Sane

\* The job rests again, and the files are as they were.
LEMMA BackupRestingKeeps ==
    ASSUME BackupIInv, backup_job' = B!Rest, UNCHANGED <<clock, files, latest, turned>>,
           mishaps' \in 0 .. MaxMishaps, temp' \in {"none", "part", "whole"}
    PROVE  BackupIInv'
<1>1. B!TypeOK'
  BY DEF BackupIInv, B!TypeOK, B!Rest
<1>2. PhasesAreApart'
  BY DEF PhasesAreApart, B!Rest
<1>3. ASSUME ~turned'
      PROVE  NamesGoForward' /\ LatestIsSafe'
  BY <1>3 DEF BackupIInv, NamesGoForward, LatestIsSafe, B!Rest, B!Stamps
<1> QED BY <1>1, <1>2, <1>3 DEF BackupIInv

LEMMA BackupBeginsKeeps ==
    ASSUME Sane, BackupIInv, B!database_backup
    PROVE  BackupIInv'
<1>1. /\ backup_job' = [pc |-> "vacuum", stamp |-> clock, stale |-> {}] /\ temp' = "none"
      /\ UNCHANGED <<clock, files, latest, turned, mishaps>>
  BY DEF B!database_backup, B!Rest
<1>2. B!TypeOK'
  BY <1>1 DEF BackupIInv, B!TypeOK, B!Stamp
<1>3. PhasesAreApart'
  BY <1>1 DEF BackupIInv, B!TypeOK, PhasesAreApart
<1>4. ASSUME ~turned'
      PROVE  NamesGoForward' /\ LatestIsSafe'
  <2>1. NamesGoForward'
    BY <1>1, <1>4 DEF BackupIInv, NamesGoForward, B!Stamps, B!TypeOK, B!Stamp
  <2>2. LatestIsSafe'
    BY <1>1, <1>4 DEF BackupIInv, LatestIsSafe, B!Stamps
  <2> QED BY <2>1, <2>2
<1> QED BY <1>1, <1>2, <1>3, <1>4 DEF BackupIInv

LEMMA BackupVacuumKeeps ==
    ASSUME BackupIInv, B!_vacuum_into
    PROVE  BackupIInv'
<1>1. /\ UNCHANGED <<clock, files, latest, turned, mishaps>>
      /\ backup_job.pc = "vacuum" /\ backup_job'.stamp = backup_job.stamp
      /\ backup_job'.stale = backup_job.stale
      /\ backup_job'.pc \in {"vacuum", "replace"} /\ temp' \in {"part", "whole"}
      /\ backup_job'.pc = "replace" => temp' = "whole"
      /\ backup_job' \in [pc : {"rest", "vacuum", "replace", "rotate"}, stamp : B!Stamp \cup {0},
                   stale : SUBSET B!Stamp]
  BY DEF B!_vacuum_into, BackupIInv, B!TypeOK
<1>2. B!TypeOK'
  BY <1>1 DEF BackupIInv, B!TypeOK
<1>3. PhasesAreApart'
  BY <1>1 DEF BackupIInv, PhasesAreApart
<1>4. ASSUME ~turned'
      PROVE  NamesGoForward' /\ LatestIsSafe'
  BY <1>1, <1>4 DEF BackupIInv, NamesGoForward, LatestIsSafe, B!Stamps
<1> QED BY <1>1, <1>2, <1>3, <1>4 DEF BackupIInv

LEMMA BackupReplaceKeeps ==
    ASSUME Sane, BackupIInv, B!Replace
    PROVE  BackupIInv'
<1> DEFINE new == [stamp |-> backup_job.stamp, whole |-> TRUE]
           to  == {f \in files : f.stamp # backup_job.stamp} \cup {new}
<1>1. temp = "whole" /\ backup_job.pc = "replace" /\ backup_job.stamp \in B!Stamp
  BY DEF B!Replace, BackupIInv, PhasesAreApart
<1>0. (temp = "whole") = TRUE
  BY <1>1
<1>2. /\ files' = to /\ temp' = "none" /\ latest' = backup_job.stamp
      /\ backup_job' = [backup_job EXCEPT !.pc = "rotate", !.stale = B!Stale(B!Stamps(to))]
      /\ UNCHANGED <<clock, turned, mishaps>>
  BY <1>0 DEF B!Replace
<1>3. to \in SUBSET B!File /\ \A f \in to : f.whole
  <2>1. new \in B!File /\ new.whole
    BY <1>1 DEF B!File
  <2>2. files \in SUBSET B!File /\ \A f \in files : f.whole
    BY DEF BackupIInv, B!TypeOK
  <2> HIDE DEF new
  <2> QED BY <2>1, <2>2
<1>4. B!Stamps(to) \in SUBSET B!Stamp /\ backup_job.stamp \in B!Stamps(to)
  <2>1. \A f \in B!File : f.stamp \in B!Stamp
    BY DEF B!File
  <2>2. new \in to /\ new.stamp = backup_job.stamp
    OBVIOUS
  <2> HIDE DEF to, new
  <2> QED BY <1>3, <2>1, <2>2 DEF B!Stamps
<1> HIDE DEF to
<1>5. B!Stale(B!Stamps(to)) \in SUBSET B!Stamp
  BY <1>4 DEF B!Stale
<1>6. /\ backup_job' \in [pc : {"rest", "vacuum", "replace", "rotate"}, stamp : B!Stamp \cup {0},
                   stale : SUBSET B!Stamp]
      /\ backup_job'.pc = "rotate" /\ backup_job'.stamp = backup_job.stamp
      /\ backup_job'.stale = B!Stale(B!Stamps(to))
  BY <1>2, <1>5 DEF BackupIInv, B!TypeOK
<1>7. B!TypeOK'
  BY <1>1, <1>2, <1>3, <1>6 DEF BackupIInv, B!TypeOK
<1>8. PhasesAreApart'
  BY <1>1, <1>6 DEF PhasesAreApart
<1>9. ASSUME ~turned'
      PROVE  NamesGoForward' /\ LatestIsSafe'
  <2>1. NamesGoForward
    BY <1>2, <1>9 DEF BackupIInv
  <2>2. \A s \in B!Stamps(to) : s <= backup_job.stamp
    <3> TAKE s \in B!Stamps(to)
    <3>1. s \in B!Stamps(files) \/ s = backup_job.stamp
      BY DEF B!Stamps, to
    <3>2. CASE s \in B!Stamps(files)
      BY <1>1, <1>4, <2>1, <3>2 DEF NamesGoForward, B!Stamp, BackupIInv, B!TypeOK
    <3>3. CASE s = backup_job.stamp
      BY <1>1, <3>3 DEF B!Stamp
    <3> QED BY <3>1, <3>2, <3>3
  <2>3. B!Stamps(files') = B!Stamps(to)
    BY <1>2
  <2>4. NamesGoForward'
    BY <1>1, <1>2, <1>6, <2>1, <2>2, <2>3 DEF NamesGoForward, B!Stamps
  <2>5. backup_job.stamp \notin B!Stale(B!Stamps(to))
    BY <1>4, <2>2, BackupNewestStays DEF B!Stamp
  <2>6. LatestIsSafe'
    BY <1>2, <1>4, <1>6, <2>3, <2>5 DEF LatestIsSafe, B!Stamps
  <2> QED BY <2>4, <2>6
<1> QED BY <1>2, <1>3, <1>7, <1>8, <1>9 DEF BackupIInv

LEMMA BackupRotateKeeps ==
    ASSUME Sane, BackupIInv, B!_rotate
    PROVE  BackupIInv'
<1>1. CASE backup_job.stale = {}
  <2>1. backup_job' = B!Rest /\ UNCHANGED <<files, mishaps, clock, temp, latest, turned>>
    BY <1>1 DEF B!_rotate
  <2> QED BY <2>1, BackupRestingKeeps DEF BackupIInv, B!TypeOK
<1>2. ASSUME NEW s \in backup_job.stale, backup_job' = [backup_job EXCEPT !.stale = @ \ {s}],
             backup_job.pc = "rotate", UNCHANGED <<clock, temp, latest, turned>>,
             mishaps' \in 0 .. MaxMishaps,
             files' = {f \in files : f.stamp # s} \/ files' = files
      PROVE  BackupIInv'
  <2>1. /\ backup_job' \in [pc : {"rest", "vacuum", "replace", "rotate"}, stamp : B!Stamp \cup {0},
                     stale : SUBSET B!Stamp]
        /\ backup_job'.pc = "rotate" /\ backup_job'.stamp = backup_job.stamp
      /\ backup_job'.stale = backup_job.stale \ {s}
    BY <1>2 DEF BackupIInv, B!TypeOK
  <2>2. B!TypeOK'
    BY <1>2, <2>1 DEF BackupIInv, B!TypeOK
  <2>3. PhasesAreApart'
    BY <1>2, <2>1 DEF BackupIInv, PhasesAreApart
  <2>4. files' \in SUBSET files
    BY <1>2
  <2>5. ASSUME ~turned'
        PROVE  NamesGoForward' /\ LatestIsSafe'
    <3>1. NamesGoForward'
      BY <1>2, <2>1, <2>4, <2>5 DEF BackupIInv, NamesGoForward, B!Stamps
    <3>2. latest # s
      BY <1>2, <2>5 DEF BackupIInv, LatestIsSafe
    <3>3. LatestIsSafe'
      BY <1>2, <2>1, <2>5, <3>2 DEF BackupIInv, LatestIsSafe, B!Stamps
    <3> QED BY <3>1, <3>3
  <2> QED BY <2>2, <2>3, <2>4, <2>5 DEF BackupIInv
<1>3. CASE backup_job.stale # {}
  <2>1. PICK s \in backup_job.stale :
          /\ backup_job' = [backup_job EXCEPT !.stale = @ \ {s}]
          /\ \/ files' = {f \in files : f.stamp # s} /\ UNCHANGED mishaps
             \/ B!Happens /\ UNCHANGED files
    BY <1>3 DEF B!_rotate
  <2>2. backup_job.pc = "rotate" /\ UNCHANGED <<clock, temp, latest, turned>>
    BY DEF B!_rotate
  <2>3. mishaps' \in 0 .. MaxMishaps
    BY <2>1 DEF B!Happens, Sane, BackupIInv, B!TypeOK
  <2> QED BY <1>2, <2>1, <2>2, <2>3
<1> QED BY <1>1, <1>3

LEMMA BackupClockKeeps ==
    ASSUME Sane, BackupIInv, B!Tick \/ B!ClockIsSetBack
    PROVE  BackupIInv'
<1>1. UNCHANGED <<files, temp, backup_job, latest>> /\ clock' \in B!Stamp
      /\ mishaps' \in 0 .. MaxMishaps /\ turned' \in BOOLEAN
  <2>1. clock \in B!Stamp /\ mishaps \in 0 .. MaxMishaps /\ turned \in BOOLEAN
    BY DEF BackupIInv, B!TypeOK
  <2>2. CASE B!Tick
    BY <2>1, <2>2 DEF B!Tick, Sane, B!Stamp
  <2>3. CASE B!ClockIsSetBack
    <3>1. UNCHANGED <<files, temp, backup_job, latest>> /\ turned' \in BOOLEAN
      BY <2>3 DEF B!ClockIsSetBack
    <3>2. clock' \in B!Stamp
      BY <2>1, <2>3 DEF B!ClockIsSetBack, Sane, B!Stamp
    <3>3. mishaps' \in 0 .. MaxMishaps
      BY <2>1, <2>3 DEF B!ClockIsSetBack, B!Happens, Sane
    <3> QED BY <3>1, <3>2, <3>3
  <2> QED BY <2>2, <2>3
<1>2. B!TypeOK'
  BY <1>1 DEF BackupIInv, B!TypeOK
<1>3. PhasesAreApart'
  BY <1>1 DEF BackupIInv, PhasesAreApart
<1>4. ASSUME ~turned'
      PROVE  NamesGoForward' /\ LatestIsSafe'
  <2>1. B!Tick
    BY <1>4 DEF B!ClockIsSetBack
  <2>2. ~turned /\ clock' = clock + 1
    BY <1>4, <2>1 DEF B!Tick
  <2>3. NamesGoForward'
    BY <1>1, <2>2 DEF BackupIInv, B!TypeOK, B!Stamp, NamesGoForward, B!Stamps
  <2>4. LatestIsSafe'
    BY <1>1, <2>2 DEF BackupIInv, LatestIsSafe, B!Stamps
  <2> QED BY <2>3, <2>4
<1> QED BY <1>1, <1>2, <1>3, <1>4 DEF BackupIInv

LEMMA BackupStepIInv ==
    ASSUME Sane, BackupIInv, [B!Next]_B!vars
    PROVE  BackupIInv'
<1>1. CASE B!database_backup \/ B!_vacuum_into \/ B!Replace \/ B!_rotate
  BY <1>1, BackupBeginsKeeps, BackupVacuumKeeps, BackupReplaceKeeps, BackupRotateKeeps
<1>2. CASE B!WriteFails \/ B!Crash
  <2>1. /\ backup_job' = B!Rest /\ UNCHANGED <<clock, files, latest, turned>>
        /\ mishaps' \in 0 .. MaxMishaps /\ temp' \in {"none", "part", "whole"}
    BY <1>2 DEF B!WriteFails, B!Crash, B!Happens, Sane, BackupIInv, B!TypeOK
  <2> QED BY <2>1, BackupRestingKeeps
<1>3. CASE B!Tick \/ B!ClockIsSetBack
  BY <1>3, BackupClockKeeps
<1>4. CASE UNCHANGED B!vars
  BY <1>4 DEF B!vars, BackupIInv, B!TypeOK, PhasesAreApart, NamesGoForward,
              LatestIsSafe, B!Stamps
<1> QED BY <1>1, <1>2, <1>3, <1>4 DEF B!Next

-----------------------------------------------------------------------------
(* The machine.                                                            *)

LEMMA EveryPartIsFit == MaxUsers \in Nat /\ Furnished /\ Calendars /\ Summaries /\ Sane
BY SiteAssumption DEF Furnished, Calendars, Summaries, Sane

LEMMA StepOfTheParts ==
    ASSUME [Next]_vars
    PROVE  /\ [A!Next]_A!vars /\ [D!Next]_D!vars /\ [H!Next]_H!vars
           /\ [E!Next]_E!vars /\ [B!Next]_B!vars
BY DEF Next, Accounts, Devices, Calendar, Energy, Backups, vars, user_vars, device_vars,
       holiday_vars, energy_vars, backup_vars, A!vars, D!vars, H!vars, E!vars, B!vars

(* The accounts, and what every request is doing, keep their types, for   *)
(* any number of requests, names and ids.                                  *)
THEOREM UsersAreTyped == Spec => []A!TypeOK
<1>1. Init => UserIInv
  BY EveryPartIsFit, UserInitIInv DEF Init
<1>2. UserIInv /\ [Next]_vars => UserIInv'
  BY EveryPartIsFit, StepOfTheParts, UserStepIInv
<1>3. UserIInv => A!TypeOK
  BY DEF UserIInv
<1> QED BY <1>1, <1>2, <1>3, PTL DEF Spec

(* From Setup on there is an administrator, however many requests overlap, *)
(* until one is committed for somebody who no longer is one.               *)
THEOREM AdminRemains == Spec => []AnAdminRemains
<1>1. Init => UserIInv
  BY EveryPartIsFit, UserInitIInv DEF Init
<1>2. UserIInv /\ [Next]_vars => UserIInv'
  BY EveryPartIsFit, StepOfTheParts, UserStepIInv
<1>3. UserIInv => AnAdminRemains
  BY DEF UserIInv, AnAdminRemains
<1> QED BY <1>1, <1>2, <1>3, PTL DEF Spec

(* The line and password of an identified row were answered to by the very *)
(* meter it names, and its code is for that meter, however requests        *)
(* overlap and whatever is rewired while they talk to meters, until an     *)
(* edit lands on a row changed since it was loaded.                        *)
THEOREM RowIsProven == Spec => []RowIsProvenUntilMixed
<1>1. Init => DeviceIInv
  BY EveryPartIsFit, DeviceInitIInv DEF Init
<1>2. DeviceIInv /\ [Next]_vars => DeviceIInv'
  BY EveryPartIsFit, StepOfTheParts, DeviceStepIInv
<1>3. DeviceIInv => RowIsProvenUntilMixed
  BY DEF DeviceIInv, Proven, RowIsProvenUntilMixed, D!RowIsProvenUntilMixed
<1> QED BY <1>1, <1>2, <1>3, PTL DEF Spec

(* The lines of the record of changes add up to the Holidays there are,    *)
(* however many requests overlap, as long as no commit meets a row other   *)
(* than the one it had loaded.                                             *)
THEOREM CalendarAddsUp == Spec => []CalendarIsAccountedFor
<1>1. Init => HolidayIInv
  BY EveryPartIsFit, HolidayInitIInv DEF Init
<1>2. HolidayIInv /\ [Next]_vars => HolidayIInv'
  BY EveryPartIsFit, StepOfTheParts, HolidayStepIInv
<1>3. HolidayIInv => CalendarIsAccountedFor
  BY DEF HolidayIInv, CalendarIsAccountedFor
<1> QED BY <1>1, <1>2, <1>3, PTL DEF Spec

(* The cut by the instant and the cut by the local date never leave a day  *)
(* of the window with part of its readings, for any number of days kept,   *)
(* however long a pass takes and whatever arrives under it.                *)
THEOREM DayIsWhole == Spec => []StoredDayIsWhole
<1>1. Init => EnergyIInv
  BY EveryPartIsFit, EnergyInitIInv DEF Init
<1>2. EnergyIInv /\ [Next]_vars => EnergyIInv'
  BY EveryPartIsFit, StepOfTheParts, EnergyStepIInv
<1>3. EnergyIInv => StoredDayIsWhole
  BY DEF EnergyIInv, StoredDayIsWhole
<1> QED BY <1>1, <1>2, <1>3, PTL DEF Spec

(* Wherever the process dies, what has a backup's name is a whole one, and *)
(* the backup last reported as written is never rotated away while the     *)
(* clock goes forward.                                                     *)
THEOREM LatestBackupStays == Spec => []LastBackupIsKept
<1>1. Init => BackupIInv
  BY EveryPartIsFit, BackupInitIInv DEF Init
<1>2. BackupIInv /\ [Next]_vars => BackupIInv'
  BY EveryPartIsFit, StepOfTheParts, BackupStepIInv
<1>3. BackupIInv => LastBackupIsKept
  BY DEF BackupIInv, LatestIsSafe, LastBackupIsKept, B!LastBackupIsKept
<1> QED BY <1>1, <1>2, <1>3, PTL DEF Spec
=============================================================================
