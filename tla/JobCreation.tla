---------------------------- MODULE JobCreation -----------------------------
(***************************************************************************)
(* POST /v1/jobs: Create in server/api/jobs.go with resolveTargets, the    *)
(* scope of the caller (server/auth/scope.go) and the quota of queued jobs *)
(* (server/quota/quota.go).  Every query and every INSERT is a statement   *)
(* of its own; requests, changes of group membership and the life of other *)
(* jobs run between them.  Groups stand for groups, tags and sites, whose  *)
(* tables and queries are alike.                                           *)
(***************************************************************************)
EXTENDS Integers, FiniteSets

CONSTANTS
    JcDevices,          \* rows of devices: ids named directly may be any of them, and only groups
                        \* and scopes are looked up within the tenant
    Groups, JcRequests,
    JcUnknown,            \* a device identifier without a device
    MaxQueuedJobs,      \* the default limit
    Overrides,          \* values a tenant's configuration may have for it
    MaxMoves,           \* changes of membership
    MaxOthers           \* jobs queued by somebody else

ASSUME JobCreationAssumption ==
    /\ JcUnknown \notin JcDevices /\ IsFiniteSet(JcDevices)
    /\ {MaxQueuedJobs, MaxMoves, MaxOthers} \subseteq Nat /\ Overrides \subseteq Nat

VARIABLES
    groups,             \* the groups that exist
    member,             \* device_groups
    override,           \* quotas.max_queued_jobs, -1 for unlimited
    jcReq,                \* the requests
    queued,             \* jobs in state queued or dispatched: <<request, device>>
    others,             \* and those nobody here has created
    moves, jcSpent,
    landed,             \* the devices a request has inserted a job for
    jcRaced               \* another job was queued between its quota check and its end

jcVars == <<groups, member, override, jcReq, queued, others, moves, jcSpent, landed, jcRaced>>

Ids == JcDevices \cup {JcUnknown}
NoScope == [all |-> TRUE, groups |-> {}, devices |-> {}]
\* reach is history: the devices its scope covered at some moment of the request
JcIdle == [pc |-> "idle", todo |-> {}, scope |-> NoScope, ids |-> {}, allowed |-> {},
           want |-> {}, reach |-> {}]
Busy == {"target", "scope", "quota", "insert"}
Ended == {"created", "rejected", "error"}

\* Requests, memberships and jobs have their types.
JcTypeOK ==
    /\ groups \subseteq Groups /\ member \subseteq groups \X JcDevices
    /\ override \in Overrides \cup {-1}
    /\ jcReq \in [JcRequests -> [pc : {"idle"} \cup Busy \cup Ended, todo : SUBSET Groups,
                                 scope : [all : BOOLEAN, groups : SUBSET Groups, devices : SUBSET JcDevices],
                                 ids : SUBSET Ids, allowed : SUBSET JcDevices,
                                 want : SUBSET Ids, reach : SUBSET JcDevices]]
    /\ queued \subseteq JcRequests \X JcDevices /\ others \in 0..MaxOthers
    /\ moves \in 0..MaxMoves /\ jcSpent \in 0..MaxOthers
    /\ landed \in [JcRequests -> SUBSET JcDevices]
    /\ jcRaced \in [JcRequests -> BOOLEAN]

JcInit ==
    /\ groups = Groups /\ member \in SUBSET (Groups \X JcDevices)
    /\ override \in Overrides \cup {-1}
    /\ jcReq = [r \in JcRequests |-> JcIdle]
    /\ queued = {} /\ others = 0 /\ moves = 0 /\ jcSpent = 0
    /\ landed = [r \in JcRequests |-> {}]
    /\ jcRaced = [r \in JcRequests |-> FALSE]

-----------------------------------------------------------------------------
(* Scopes and limits *)

In(rows, g) == {d \in JcDevices : <<g, d>> \in rows}

\* ResolveScope: the union of what the fields expand to; no scope is no restriction
Covers(s, rows) == IF s.all THEN JcDevices ELSE s.devices \cup UNION {In(rows, g) : g \in s.groups}

\* ApplyOverride: 0 inherits the default
Effective == IF override # 0 THEN override ELSE MaxQueuedJobs

JcActive == Cardinality(queued) + others

\* An empty set of allowed devices is not the nil of an unscoped key
FilterDeviceIDs(allowed, scope, ids) == IF scope.all THEN ids ELSE ids \cap allowed

-----------------------------------------------------------------------------
(* Create *)

End(r, status) == jcReq' = [jcReq EXCEPT ![r] = [JcIdle EXCEPT !.pc = status]]

Receive(r) ==
    /\ jcReq[r].pc = "idle"
    /\ \E targets \in SUBSET Groups, ids \in SUBSET Ids,
          scope \in {NoScope} \cup [all : {FALSE}, groups : SUBSET Groups, devices : SUBSET JcDevices] :
         /\ jcReq' = [jcReq EXCEPT ![r] = [JcIdle EXCEPT !.pc = "target", !.todo = targets, !.ids = ids,
                                                         !.scope = scope,
                                                         !.reach = Covers(scope, member)]]
    /\ UNCHANGED <<groups, member, override, queued, others, moves, jcSpent, landed, jcRaced>>

\* One query per group of the target
ExpandTarget(r) ==
    /\ jcReq[r].pc = "target"
    /\ \E g \in jcReq[r].todo :
         jcReq' = [jcReq EXCEPT ![r].todo = @ \ {g}, ![r].ids = @ \cup In(member, g)]
    /\ UNCHANGED <<groups, member, override, queued, others, moves, jcSpent, landed, jcRaced>>

TargetResolved(r) ==
    /\ jcReq[r].pc = "target" /\ jcReq[r].todo = {}
    /\ IF jcReq[r].ids = {}
       THEN End(r, "rejected")
       ELSE jcReq' = [jcReq EXCEPT ![r].pc = "scope", ![r].todo = jcReq[r].scope.groups,
                                   ![r].allowed = jcReq[r].scope.devices]
    /\ UNCHANGED <<groups, member, override, queued, others, moves, jcSpent, landed, jcRaced>>

\* One query per group of the scope
ExpandScope(r) ==
    /\ jcReq[r].pc = "scope"
    /\ \E g \in jcReq[r].todo :
         jcReq' = [jcReq EXCEPT ![r].todo = @ \ {g}, ![r].allowed = @ \cup In(member, g)]
    /\ UNCHANGED <<groups, member, override, queued, others, moves, jcSpent, landed, jcRaced>>

ScopeResolved(r) ==
    /\ jcReq[r].pc = "scope" /\ jcReq[r].todo = {}
    /\ LET ids == FilterDeviceIDs(jcReq[r].allowed, jcReq[r].scope, jcReq[r].ids) IN
         IF ids = {} THEN End(r, "rejected")
         ELSE jcReq' = [jcReq EXCEPT ![r].pc = "quota", ![r].ids = ids, ![r].want = ids,
                                    ![r].allowed = {}, ![r].scope = NoScope]
    /\ UNCHANGED <<groups, member, override, queued, others, moves, jcSpent, landed, jcRaced>>

\* A negative limit switches the check off
CheckQueuedJobs(r) ==
    /\ jcReq[r].pc = "quota"
    /\ IF Effective >= 0 /\ JcActive + Cardinality(jcReq[r].ids) > Effective
       THEN End(r, "rejected") ELSE jcReq' = [jcReq EXCEPT ![r].pc = "insert"]
    /\ jcRaced' = [jcRaced EXCEPT ![r] = FALSE]
    /\ UNCHANGED <<groups, member, override, queued, others, moves, jcSpent, landed>>

RaceAll(except) == jcRaced' = [q \in JcRequests |-> jcRaced[q] \/ (q # except /\ jcReq[q].pc = "insert")]

\* One INSERT per device
InsertJob(r) ==
    /\ jcReq[r].pc = "insert"
    /\ \E d \in jcReq[r].ids \ {JcUnknown} :
         /\ queued' = queued \cup {<<r, d>>}
         /\ landed' = [landed EXCEPT ![r] = @ \cup {d}]
         /\ jcReq' = [jcReq EXCEPT ![r].ids = @ \ {d}]
    /\ RaceAll(r)
    /\ UNCHANGED <<groups, member, override, others, moves, jcSpent>>

SkipFailed(r) ==
    /\ jcReq[r].pc = "insert" /\ JcUnknown \in jcReq[r].ids
    /\ jcReq' = [jcReq EXCEPT ![r].ids = @ \ {JcUnknown}]
    /\ UNCHANGED <<groups, member, override, queued, others, moves, jcSpent, landed, jcRaced>>

\* An INSERT for no device breaks the foreign key: 500, and what has landed stays
InsertFails(r) ==
    /\ jcReq[r].pc = "insert" /\ JcUnknown \in jcReq[r].ids
    /\ End(r, "error")
    /\ UNCHANGED <<groups, member, override, queued, others, moves, jcSpent, landed, jcRaced>>

Respond(r) ==
    /\ jcReq[r].pc = "insert" /\ jcReq[r].ids = {} /\ End(r, "created")
    /\ UNCHANGED <<groups, member, override, queued, others, moves, jcSpent, landed, jcRaced>>

-----------------------------------------------------------------------------
(* Around the requests *)

\* The devices a request may touch grow with what its scope covers until the
\* target has been filtered
Widen == jcReq' = [r \in JcRequests |->
             IF jcReq[r].pc \in {"target", "scope"}
             THEN [jcReq[r] EXCEPT !.reach = @ \cup Covers(jcReq[r].scope, member')]
             ELSE jcReq[r]]
Move == moves < MaxMoves /\ moves' = moves + 1

AddDevicesToGroup(g, d) == member' = member \cup {<<g, d>>}
RemoveDeviceFromGroup(g, d) == member' = member \ {<<g, d>>}
DeleteRowOnly(g) == g \in groups /\ groups' = groups \ {g} /\ UNCHANGED member
\* Its rows in device_groups go with it
DropGroup(g) == g \in groups /\ groups' = groups \ {g} /\ member' = {m \in member : m[1] # g}

\* The handlers for groups, for a caller whose scope has the group; one statement per device
AddDevices ==
    /\ Move /\ \E g \in groups, d \in JcDevices : AddDevicesToGroup(g, d)
    /\ Widen /\ UNCHANGED <<groups, override, queued, others, jcSpent, landed, jcRaced>>

RemoveDevice ==
    /\ Move /\ \E g \in groups, d \in JcDevices : RemoveDeviceFromGroup(g, d)
    /\ Widen /\ UNCHANGED <<groups, override, queued, others, jcSpent, landed, jcRaced>>

DeleteGroup ==
    /\ Move /\ \E g \in groups : DropGroup(g)
    /\ Widen /\ UNCHANGED <<override, queued, others, jcSpent, landed, jcRaced>>

\* A job starts to run, is held, cancelled or ends
Leave ==
    /\ \/ \E j \in queued : queued' = queued \ {j} /\ UNCHANGED others
       \/ others > 0 /\ others' = others - 1 /\ UNCHANGED queued
    /\ UNCHANGED <<groups, member, override, jcReq, moves, jcSpent, landed, jcRaced>>

\* Another caller's request, the scheduler, an automatic retry or the end of a hold
\* queues a job
Other ==
    /\ jcSpent < MaxOthers /\ jcSpent' = jcSpent + 1 /\ others' = others + 1
    /\ jcRaced' = [q \in JcRequests |-> jcRaced[q] \/ jcReq[q].pc = "insert"]
    /\ UNCHANGED <<groups, member, override, jcReq, queued, moves, landed>>

JcNext ==
    \/ \E r \in JcRequests :
         \/ Receive(r) \/ ExpandTarget(r) \/ TargetResolved(r) \/ ExpandScope(r) \/ ScopeResolved(r)
         \/ CheckQueuedJobs(r) \/ InsertJob(r) \/ InsertFails(r) \/ Respond(r)
    \/ AddDevices \/ RemoveDevice \/ DeleteGroup \/ Leave \/ Other

JcSpec == JcInit /\ [][JcNext]_jcVars

-----------------------------------------------------------------------------
\* CheckQueuedJobs before the batch: a request that nothing raced never takes the tenant's
\* queued jobs over the limit its configuration gives.
QuotaUnlessRaced ==
    [][\A r \in JcRequests :
         landed'[r] # landed[r] /\ ~jcRaced[r] /\ Effective >= 0
           => Cardinality(queued') + others' <= Effective]_jcVars

\* The order of checks in Create: a request refused for its target, its scope or the quota has
\* inserted no job (jobs.go:106-108, "a partial batch never lands").
RejectedLandsNothing == \A r \in JcRequests : jcReq[r].pc = "rejected" => landed[r] = {}

\* ResolveScope and FilterDeviceIDs: a job lands only on a device the caller's scope covered at
\* some moment of the request, whatever moves between groups meanwhile.
LandsInScope ==
    [][\A r \in JcRequests : landed'[r] \subseteq landed[r] \cup jcReq[r].reach]_jcVars

\* A 201 stands for the whole batch: a job has been inserted for every device of the target
\* that the scope allows.
CreatedIsWhole ==
    [][\A r \in JcRequests : jcReq'[r].pc = "created" /\ jcReq[r].pc # "created"
         => landed[r] = jcReq[r].want]_jcVars

\* SEC_VALIDATION.md:410 lists "max jobs in queue" as a limit: the queued jobs that requests
\* create never exceed it.
QueueIsLimited == Effective >= 0 => JcActive <= Effective

\* Creation: a refusal lands nothing, jobs stay in the caller's scope, the quota holds
\* unless raced, and a 201 stands for the whole batch.
CreationSound == []RejectedLandsNothing /\ LandsInScope /\ QuotaUnlessRaced /\ CreatedIsWhole

=============================================================================
