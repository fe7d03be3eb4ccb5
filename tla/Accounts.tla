------------------------------ MODULE Accounts ------------------------------
(***************************************************************************)
(* Roles, users, their single sign-on subjects and API keys of a tenant    *)
(* (server/api/roles.go, users.go, apikeys.go and their stores).  Most     *)
(* handlers read a row or a count in one statement and write in another,   *)
(* and requests interleave between the two.  Whether the caller is allowed *)
(* to make a request is an input: a refused request changes nothing.       *)
(***************************************************************************)
EXTENDS Naturals, FiniteSets

CONSTANTS
    Custom, System,     \* identifiers of roles
    Names, Permissions, \* what a role holds: a name and a set of permissions, as values
    Users, Subjects, Keys,
    MaxAPIKeys,         \* the tenant's ceiling
    Requests

ASSUME AccountsAssumption ==
    /\ Names # {} /\ Permissions # {} /\ MaxAPIKeys \in Nat /\ IsFiniteSet(Keys)
    /\ Custom \cap System = {}
    /\ "none" \notin Custom \cup System \cup Names \cup Permissions \cup Subjects

VARIABLES
    role,               \* roles: identifier -> row, NoRole before creation and after deletion
    spent,              \* custom identifiers given out
    user,               \* users: invited, role_id, sso_subject
    accountKeys,               \* api_keys: key -> role_id, "none" when there is no such key
    req,
    raced               \* history: two creations of keys overlapped

accountVars == <<role, spent, user, accountKeys, req, raced>>

Roles == Custom \cup System
NoRole == [name |-> "none", permissions |-> "none"]
Seeded == [name |-> CHOOSE n \in Names : TRUE, permissions |-> CHOOSE p \in Permissions : TRUE]
NoUser == [invited |-> FALSE, role |-> "none", subject |-> "none"]
Idle == [pc |-> "idle", id |-> "none", user |-> "none", read |-> NoRole, patch |-> NoRole, stale |-> FALSE]
Patches == [name : Names \cup {"none"}, permissions : Permissions \cup {"none"}]
Live == {k \in Keys : accountKeys[k] # "none"}

\* Rows and requests have their types, and a system role is always there.
AccountTypeOK ==
    /\ role \in [Roles -> Patches] /\ spent \subseteq Custom
    /\ \A r \in System : role[r] # NoRole
    /\ \A r \in Custom : role[r] # NoRole => r \in spent
    /\ \A u \in Users : user[u].role \in Roles \cup {"none"} /\ user[u].subject \in Subjects \cup {"none"}
    /\ accountKeys \in [Keys -> Roles \cup {"none"}] /\ raced \in BOOLEAN
    /\ \A q \in Requests : req[q].pc \in {"idle", "update", "delete", "assign", "quota", "key"}

AccountInit ==
    /\ role = [r \in Roles |-> IF r \in System THEN Seeded ELSE NoRole]
    /\ spent = {} /\ user = [u \in Users |-> NoUser]
    /\ accountKeys = [k \in Keys |-> "none"] /\ req = [q \in Requests |-> Idle] /\ raced = FALSE

-----------------------------------------------------------------------------
(* Roles                                                                   *)

CreateRole(r, n, p) ==
    /\ r \in Custom \ spent /\ spent' = spent \cup {r}
    /\ role' = [role EXCEPT ![r] = [name |-> n, permissions |-> p]]
    /\ UNCHANGED <<user, accountKeys, req, raced>>

\* Update reads the role, refuses a system role and lays the patch over what it has read ...
ReadRole(q, r, patch) ==
    /\ req[q].pc = "idle" /\ role[r] # NoRole /\ r \in Custom
    /\ req' = [req EXCEPT ![q] = [Idle EXCEPT !.pc = "update", !.id = r, !.read = role[r], !.patch = patch]]
    /\ UNCHANGED <<role, spent, user, accountKeys, raced>>

Over(patch, row) ==
    [name |-> IF patch.name = "none" THEN row.name ELSE patch.name,
     permissions |-> IF patch.permissions = "none" THEN row.permissions ELSE patch.permissions]

\* ... and writes name and permissions, if the role is still there.
Stales(q, r) == [p \in Requests |-> IF p = q THEN Idle
                                    ELSE IF req[p].pc = "update" /\ req[p].id = r THEN [req[p] EXCEPT !.stale = TRUE]
                                    ELSE req[p]]
UpdateRole(q) ==
    /\ req[q].pc = "update" /\ req' = Stales(q, req[q].id)
    /\ role' = IF role[req[q].id] = NoRole THEN role
               ELSE [role EXCEPT ![req[q].id] = Over(req[q].patch, req[q].read)]
    /\ UNCHANGED <<spent, user, accountKeys, raced>>

Assigned(r) == (\E u \in Users : user[u].role = r) \/ (\E k \in Keys : accountKeys[k] = r)

\* DeleteRole counts users and keys with the role ...
CountAssigned(q, r) ==
    /\ req[q].pc = "idle" /\ role[r] # NoRole /\ ~Assigned(r)
    /\ req' = [req EXCEPT ![q] = [Idle EXCEPT !.pc = "delete", !.id = r]]
    /\ UNCHANGED <<role, spent, user, accountKeys, raced>>

\* ... and deletes a custom role, which the references of users and keys fail.
DeleteCounted(q) ==
    /\ req[q].pc = "delete" /\ req' = [req EXCEPT ![q] = Idle]
    /\ role' = IF req[q].id \in System THEN role ELSE [role EXCEPT ![req[q].id] = NoRole]
    /\ UNCHANGED <<spent, user, accountKeys, raced>>
DeleteRole(q) ==
    /\ req[q].pc = "delete" /\ req' = [req EXCEPT ![q] = Idle]
    /\ role' = IF req[q].id \in System \/ Assigned(req[q].id) THEN role
               ELSE [role EXCEPT ![req[q].id] = NoRole]
    /\ UNCHANGED <<spent, user, accountKeys, raced>>

-----------------------------------------------------------------------------
(* Users                                                                   *)

\* CreateUser: the reference to the role fails when it does not exist.
Invite(u, r) ==
    /\ ~user[u].invited /\ role[r] # NoRole
    /\ user' = [user EXCEPT ![u] = [NoUser EXCEPT !.invited = TRUE, !.role = r]]
    /\ UNCHANGED <<role, spent, accountKeys, req, raced>>

\* Update looks the role up ...
LookUpRole(q, u, r) ==
    /\ req[q].pc = "idle" /\ role[r] # NoRole
    /\ req' = [req EXCEPT ![q] = [Idle EXCEPT !.pc = "assign", !.id = r, !.user = u]]
    /\ UNCHANGED <<role, spent, user, accountKeys, raced>>

\* ... and assigns it.
UpdateUserRole(q) ==
    /\ req[q].pc = "assign" /\ req' = [req EXCEPT ![q] = Idle]
    /\ user' = IF user[req[q].user].invited /\ role[req[q].id] # NoRole
               THEN [user EXCEPT ![req[q].user].role = req[q].id] ELSE user
    /\ UNCHANGED <<role, spent, accountKeys, raced>>

\* SetUserSSOSubject, under the unique index on subjects.
SetUserSSOSubject(u, s) ==
    /\ user[u].invited /\ (s = "none" \/ \A v \in Users \ {u} : user[v].subject # s)
    /\ user' = [user EXCEPT ![u].subject = s]
    /\ UNCHANGED <<role, spent, accountKeys, req, raced>>

\* A user without a role is deactivated.
DeactivateUser(u) ==
    /\ user[u].invited /\ user' = [user EXCEPT ![u].role = "none"]
    /\ UNCHANGED <<role, spent, accountKeys, req, raced>>

-----------------------------------------------------------------------------
(* API keys                                                                *)

\* Create counts the keys of the tenant, then looks the role up, then inserts.
CheckAPIKeys(q) ==
    /\ req[q].pc = "idle" /\ Cardinality(Live) + 1 <= MaxAPIKeys
    /\ req' = [req EXCEPT ![q] = [Idle EXCEPT !.pc = "quota"]]
    /\ raced' = (raced \/ \E p \in Requests : req[p].pc \in {"quota", "key"})
    /\ UNCHANGED <<role, spent, user, accountKeys>>

GetRole(q, r) ==
    /\ req[q].pc = "quota"
    /\ req' = [req EXCEPT ![q] = IF role[r] = NoRole THEN Idle ELSE [Idle EXCEPT !.pc = "key", !.id = r]]
    /\ UNCHANGED <<role, spent, user, accountKeys, raced>>

CreateAPIKey(q, k) ==
    /\ req[q].pc = "key" /\ accountKeys[k] = "none" /\ req' = [req EXCEPT ![q] = Idle]
    /\ accountKeys' = IF role[req[q].id] = NoRole THEN accountKeys ELSE [accountKeys EXCEPT ![k] = req[q].id]
    /\ UNCHANGED <<role, spent, user, raced>>

DeleteAPIKey(k) ==
    /\ accountKeys[k] # "none" /\ accountKeys' = [accountKeys EXCEPT ![k] = "none"]
    /\ UNCHANGED <<role, spent, user, req, raced>>

-----------------------------------------------------------------------------
AccountNext ==
    \/ \E r \in Custom, n \in Names, p \in Permissions : CreateRole(r, n, p)
    \/ \E q \in Requests :
          \/ \E r \in Roles, patch \in Patches : ReadRole(q, r, patch)
          \/ \E r \in Roles : CountAssigned(q, r) \/ GetRole(q, r) \/ \E u \in Users : LookUpRole(q, u, r)
          \/ UpdateRole(q) \/ DeleteRole(q) \/ UpdateUserRole(q) \/ CheckAPIKeys(q)
          \/ \E k \in Keys : CreateAPIKey(q, k)
    \/ \E u \in Users : \/ \E r \in Roles : Invite(u, r)
                        \/ \E s \in Subjects \cup {"none"} : SetUserSSOSubject(u, s)
                        \/ DeactivateUser(u)
    \/ \E k \in Keys : DeleteAPIKey(k)

AccountSpec == AccountInit /\ [][AccountNext]_accountVars

-----------------------------------------------------------------------------
\* The role of a user and of a key exists, although DeleteRole counts before
\* it deletes and assignments look the role up before they write.
AssignedExists == \A r \in Roles : Assigned(r) => role[r] # NoRole

\* A login finds at most one user for its subject.
OneUserPerSubject == \A u, v \in Users : user[u].subject = user[v].subject /\ user[u].subject # "none" => u = v

\* A patch leaves what it does not name, unless another patch of the role was
\* written between its read and its write.
PatchKeepsTheRestUnlessOverlap ==
    [][\A q \in Requests, r \in Custom :
          (req[q].pc = "update" /\ req[q].id = r /\ ~req[q].stale /\ role'[r] # role[r] /\ role'[r] # NoRole
             /\ req'[q] = Idle)
          => role'[r] = Over(req[q].patch, role[r])]_accountVars

\* The tenant stays within its ceiling of keys, unless two creations overlap.
KeysWithinQuotaUnlessRaced == raced \/ Cardinality(Live) <= MaxAPIKeys

\* Accounts: roles in use exist, a subject is one user, the ceiling of keys holds
\* unless creations race, and a patch leaves what it does not name.
AccountsSound ==
    /\ [](AssignedExists /\ OneUserPerSubject /\ KeysWithinQuotaUnlessRaced)
    /\ PatchKeepsTheRestUnlessOverlap

=============================================================================
