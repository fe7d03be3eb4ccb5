--------------------------- MODULE UpdatePolicies ---------------------------
(***************************************************************************)
(* The update policies of a tenant: server/api/update_policies.go over     *)
(* server/store/update_policies.go, and the deletion of groups.  A policy  *)
(* belongs to a group or, with a NULL group_id, to the tenant.  Every      *)
(* write is one statement; the search for the policy that applies to a     *)
(* device is one SELECT per group and one for the default.                 *)
(***************************************************************************)

CONSTANTS
    PolicyGroups,
    Null,               \* group_id of the tenant's default
    Values,             \* what a policy says: enabled, channel, strategy, batches
    Ids                 \* identifiers of policies

ASSUME UpdatePoliciesAssumption == Null \notin PolicyGroups

VARIABLES
    policyGroups,             \* the groups that exist
    policies,           \* agent_update_policies: rows [id, group, value]
    search,             \* GetEffectiveUpdatePolicy: the groups of the device to ask for
    held                \* history: those of its groups with a policy all along the search

policyVars == <<policyGroups, policies, search, held>>

PolicyIdle == [on |-> FALSE, todo |-> {}]

Owners == PolicyGroups \cup {Null}
Policy == [id : Ids, group : Owners, value : Values]
Of(g) == {p \in policies : p.group = g}

\* A policy's group exists; rows have their types.
PolicyTypeOK ==
    /\ policyGroups \subseteq PolicyGroups /\ policies \subseteq Policy
    /\ \A p \in policies : p.group \in policyGroups \cup {Null}
    /\ search \in [on : BOOLEAN, todo : SUBSET PolicyGroups] /\ held \subseteq PolicyGroups

PolicyInit == policyGroups = PolicyGroups /\ policies = {} /\ search = PolicyIdle /\ held = {}

Put(ps) ==
    /\ policies' = ps
    /\ held' = held \cap {p.group : p \in ps}
    /\ UNCHANGED <<policyGroups, search>>

\* The index UNIQUE (tenant_id, group_id): two NULLs do not conflict.
Conflict(g) == IF g = Null THEN {} ELSE Of(g)

\* Upsert: a new row, or the update of the one it conflicts with.
UpsertUpdatePolicy(g, v) ==
    /\ g \in policyGroups \cup {Null}
    /\ \/ /\ Conflict(g) = {}
          /\ \E id \in Ids : /\ \A p \in policies : p.id # id
                             /\ Put(policies \cup {[id |-> id, group |-> g, value |-> v]})
       \/ \E p \in Conflict(g) : Put((policies \ {p}) \cup {[p EXCEPT !.value = v]})

\* Delete, by identifier.
DeleteUpdatePolicy(p) == p \in policies /\ Put(policies \ {p})

\* DELETE of a group; a policy that refers to it fails the statement.
PolicyDeleteGroup(g) ==
    /\ g \in policyGroups /\ Of(g) = {} /\ policyGroups' = policyGroups \ {g}
    /\ UNCHANGED <<policies, search, held>>

CreateGroup(g) ==
    /\ g \notin policyGroups /\ policyGroups' = policyGroups \cup {g}
    /\ UNCHANGED <<policies, search, held>>

-----------------------------------------------------------------------------
(* GetEffectiveUpdatePolicy.                                               *)

GetEffectiveUpdatePolicy(gs) ==
    /\ ~search.on /\ search' = [on |-> TRUE, todo |-> gs]
    /\ held' = {g \in gs : Of(g) # {}}
    /\ UNCHANGED <<policyGroups, policies>>

\* The default is asked for once no group is left.
DefaultAnyTime == {Null} \cup search.todo
Askable == IF search.todo = {} THEN {Null} ELSE search.todo

\* One SELECT, for the group g or the default: a policy ends the search, and
\* so does the answer for the default.
GetUpdatePolicy(g) ==
    /\ search.on /\ g \in Askable
    /\ IF Of(g) # {} \/ g = Null
       THEN search' = PolicyIdle /\ held' = {}
       ELSE search' = [search EXCEPT !.todo = @ \ {g}] /\ UNCHANGED held
    /\ UNCHANGED <<policyGroups, policies>>

PolicyNext ==
    \/ \E g \in Owners, v \in Values : UpsertUpdatePolicy(g, v)
    \/ \E p \in policies : DeleteUpdatePolicy(p)
    \/ \E g \in PolicyGroups : PolicyDeleteGroup(g) \/ CreateGroup(g)
    \/ \E gs \in SUBSET PolicyGroups : GetEffectiveUpdatePolicy(gs)
    \/ \E g \in Owners : GetUpdatePolicy(g)

PolicySpec == PolicyInit /\ [][PolicyNext]_policyVars

-----------------------------------------------------------------------------
\* A group has at most one policy, however often it is set.
OnePerGroup == \A g \in PolicyGroups : \A p, q \in Of(g) : p = q

\* A group's policy takes precedence: the search falls back to the default
\* only if none of the device's groups has had a policy all along.
GroupsTakePrecedence ==
    [][\A g \in Owners : GetUpdatePolicy(g) /\ g = Null => held = {}]_policyVars

\* Setting the tenant's default again updates it: there is one default.
OneDefault == \A p, q \in Of(Null) : p = q

\* Policies: a group has one, and it comes before the default of the tenant.
PoliciesSound == []OnePerGroup /\ GroupsTakePrecedence

=============================================================================
