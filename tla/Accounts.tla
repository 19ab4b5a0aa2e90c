-------------------------------- MODULE Accounts --------------------------------
(***************************************************************************)
(* The accounts of a machine (api/users.py, auth/service.py): Setup makes  *)
(* the first administrator while there is no account, administrators add,  *)
(* promote, demote and delete the others.  A request finds out who asks    *)
(* when it begins (api/deps.py) and commits later, after other requests.   *)
(* Passwords and tokens are left out.                                      *)
(***************************************************************************)
EXTENDS Naturals, FiniteSets, FiniteSetsExt

CONSTANTS
    Thread,         \* request threads
    MaxId,          \* bound: the largest id
    Name,           \* usernames, unique in the table
    None

Id   == 1 .. MaxId
Role == {"admin", "user"}
User == [name : Name, role : Role]

VARIABLES
    users,      \* by id
    work,       \* what each request is doing: its actor, its target, the row to be
    deposed     \* history: a request was committed for one no longer an administrator

vars == <<users, work, deposed>>

Idle == [pc |-> "idle", actor |-> 0, id |-> 0, row |-> None]

TypeOK ==
    /\ users \in [Id -> User \cup {None}]
    /\ work \in [Thread -> [pc : {"idle", "setup", "create", "role", "delete"},
                            actor : 0 .. MaxId, id : 0 .. MaxId, row : User \cup {None}]]
    /\ deposed \in BOOLEAN

Init ==
    /\ users = [i \in Id |-> None]
    /\ work = [t \in Thread |-> Idle]
    /\ deposed = FALSE

Used   == {i \in Id : users[i] # None}
NextId == IF Used = {} THEN 1 ELSE Max(Used) + 1
Admin  == {i \in Used : users[i].role = "admin"}
Taken(name) == \E i \in Used : users[i].name = name

Goes(t, w) == work' = [work EXCEPT ![t] = w]
Begins(t, w) == work[t].pc = "idle" /\ Goes(t, w) /\ UNCHANGED <<users, deposed>>

\* Open while no account exists; the commit has only the unique name to rely on.
create_initial_admin(t, name) ==
    /\ Used = {}
    /\ Begins(t, [pc |-> "setup", actor |-> 0, id |-> 0,
                  row |-> [name |-> name, role |-> "admin"]])

create_user(t, actor, name, role) ==
    /\ actor \in Admin /\ ~Taken(name)
    /\ Begins(t, [pc |-> "create", actor |-> actor, id |-> 0,
                  row |-> [name |-> name, role |-> role]])

\* Mutant: nobody looks who asks.
_refuse_selfNever(actor, id) == TRUE

\* Nobody does these to himself: "the whole lockout defence".
_refuse_self(actor, id) == actor # id

\* Asking for the role an account has writes nothing.
set_user_role(t, actor, id, role) ==
    /\ actor \in Admin /\ id \in Used /\ _refuse_self(actor, id)
    /\ role # users[id].role
    /\ Begins(t, [pc |-> "role", actor |-> actor, id |-> id,
                  row |-> [users[id] EXCEPT !.role = role]])

delete_user(t, actor, id) ==
    /\ actor \in Admin /\ id \in Used /\ _refuse_self(actor, id)
    /\ Begins(t, [pc |-> "delete", actor |-> actor, id |-> id, row |-> None])

Commits(t, to) ==
    /\ users' = to
    /\ deposed' = (deposed \/ (to # users /\ work[t].actor \notin Admin \cup {0}))
    /\ Goes(t, Idle)

\* A name taken meanwhile is refused by its constraint.
CommitNew(t) ==
    /\ work[t].pc \in {"setup", "create"} /\ NextId \in Id
    /\ Commits(t, IF Taken(work[t].row.name) THEN users
                    ELSE [users EXCEPT ![NextId] = work[t].row])

\* The UPDATE names the role alone; it raises when there is no such row any more.
CommitRole(t) ==
    /\ work[t].pc = "role"
    /\ Commits(t, IF work[t].id \in Used
                    THEN [users EXCEPT ![work[t].id].role = work[t].row.role]
                    ELSE users)

CommitDelete(t) ==
    /\ work[t].pc = "delete"
    /\ Commits(t, [users EXCEPT ![work[t].id] = None])

Next == \E t \in Thread :
          \/ \E n \in Name : create_initial_admin(t, n)
          \/ \E a \in Id, n \in Name, r \in Role : create_user(t, a, n, r)
          \/ \E a \in Id, i \in Id, r \in Role : set_user_role(t, a, i, r)
          \/ \E a \in Id, i \in Id : delete_user(t, a, i)
          \/ CommitNew(t) \/ CommitRole(t) \/ CommitDelete(t)

Spec == Init /\ [][Next]_vars

-----------------------------------------------------------------------------
(* "The number of admins cannot reach zero" once Setup is done, however    *)
(* requests overlap and ids are used again, as long as each is committed   *)
(* for one who still is an administrator: two who demote or delete each    *)
(* other at one moment leave nobody.                                       *)
AnAdminRemains == Used = {} \/ Admin # {} \/ deposed
=============================================================================
