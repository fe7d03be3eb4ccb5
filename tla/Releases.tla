------------------------------ MODULE Releases ------------------------------
(***************************************************************************)
(* The registry of agent versions and the rollouts of a tenant:            *)
(* server/api/agent_versions.go and rollouts.go over server/store.  A      *)
(* version and its binaries are inserted in one transaction; a rollout is  *)
(* read, judged and written by separate statements, so requests interleave *)
(* between them.  Rollouts are inserted by CreateRollout, whose caller,    *)
(* the rollout controller, is not in the source.                           *)
(***************************************************************************)
EXTENDS FiniteSets

CONSTANTS Versions, Binaries, Requests

VARIABLES
    versions,           \* agent_versions: version -> "none", "offered" or "yanked"
    binaries,           \* agent_version_binaries: <<version, binary>>
    files,              \* binaries whose file and signing key exist
    rollout,            \* agent_rollouts: version -> status or "none"
    relReq,                \* the requests
    named               \* history: the binaries of the request that published a version

relVars == <<versions, binaries, files, rollout, relReq, named>>

Statuses == {"in_progress", "paused", "aborted"}
Targets == [pause |-> "paused", resume |-> "in_progress", abort |-> "aborted"]
RelIdle == [pc |-> "idle", op |-> "none", v |-> "none", want |-> {}, todo |-> {}, rows |-> {}, stale |-> FALSE]

\* Rows and requests have their types.
RelTypeOK ==
    /\ versions \in [Versions -> {"none", "offered", "yanked"}]
    /\ binaries \subseteq Versions \X Binaries /\ files \subseteq Binaries
    /\ rollout \in [Versions -> Statuses \cup {"none"}]
    /\ \A v \in Versions : rollout[v] # "none" => versions[v] # "none"
    /\ named \in [Versions -> SUBSET Binaries]
    /\ relReq \in [Requests -> [pc : {"idle", "check", "insert", "binaries", "commit", "write"},
                                op : {"none", "publish"} \cup DOMAIN Targets,
                                v : Versions \cup {"none"}, want : SUBSET Binaries,
                                todo : SUBSET Binaries,
                                rows : SUBSET Binaries, stale : BOOLEAN]]

RelInit ==
    /\ versions = [v \in Versions |-> "none"] /\ binaries = {} /\ files \in SUBSET Binaries
    /\ rollout = [v \in Versions |-> "none"]
    /\ relReq = [r \in Requests |-> RelIdle]
    /\ named = [v \in Versions |-> {}]

Set(r, rec) == relReq' = [relReq EXCEPT ![r] = rec]
Rows == <<versions, binaries, rollout>>

\* A statement fails: the handler answers an error and its transaction, if
\* any, is rolled back.
RelFail(r) ==
    /\ relReq[r].pc # "idle" /\ Set(r, RelIdle)
    /\ UNCHANGED <<Rows, files, named>>

-----------------------------------------------------------------------------
(* POST /v1/agent-versions and .../yank.                                   *)

\* Create, a valid request: it names at least one binary.
RelCreate(r, v, bs) ==
    /\ relReq[r].pc = "idle" /\ bs # {}
    /\ Set(r, [RelIdle EXCEPT !.pc = "check", !.op = "publish", !.v = v, !.want = bs, !.todo = bs])
    /\ UNCHANGED <<Rows, files, named>>

\* GetAgentVersion can read the row: yank_reason is NULL until the version is yanked, and NULL does
\* not scan into a string.
GetAgentVersion(v) == versions[v] = "yanked"

\* GetAgentVersion finds no row, or one it reads (version_exists) or cannot read (an error).
CheckExisting(r) ==
    /\ relReq[r].pc = "check"
    /\ Set(r, IF versions[relReq[r].v] = "none" THEN [relReq[r] EXCEPT !.pc = "insert"] ELSE RelIdle)
    /\ UNCHANGED <<Rows, files, named>>

\* An open transaction that has inserted the version.
Holds(q, v) == relReq[q].pc \in {"binaries", "commit"} /\ relReq[q].v = v

\* The version's INSERT: behind an open transaction with the same version it
\* waits; a committed one fails it on the UNIQUE index.
InsertVersion(r) ==
    LET v == relReq[r].v
    IN  /\ relReq[r].pc = "insert"
        /\ ~\E q \in Requests \ {r} : Holds(q, v)
        /\ Set(r, IF versions[v] = "none" THEN [relReq[r] EXCEPT !.pc = "binaries"] ELSE RelIdle)
        /\ UNCHANGED <<Rows, files, named>>

\* The INSERT of one binary; its references to a file and a signing key fail
\* it if either is missing.
InsertBinary(r) ==
    /\ relReq[r].pc = "binaries"
    /\ \E b \in relReq[r].todo :
           Set(r, IF b \in files
                  THEN [relReq[r] EXCEPT !.todo = @ \ {b}, !.rows = @ \cup {b},
                                         !.pc = IF relReq[r].todo = {b} THEN "commit" ELSE @]
                  ELSE RelIdle)
    /\ UNCHANGED <<Rows, files, named>>

\* COMMIT makes all rows visible; the answer may get lost, which the rows
\* do not tell.
RelCommit(r) ==
    LET v == relReq[r].v
    IN  /\ relReq[r].pc = "commit"
        /\ versions' = [versions EXCEPT ![v] = "offered"]
        /\ binaries' = binaries \cup ({v} \X relReq[r].rows)
        /\ named' = [named EXCEPT ![v] = relReq[r].want]
        /\ Set(r, RelIdle)
        /\ UNCHANGED <<rollout, files>>

\* Yank: one UPDATE.
Yank(v) ==
    /\ versions[v] # "none" /\ versions' = [versions EXCEPT ![v] = "yanked"]
    /\ UNCHANGED <<binaries, rollout, files, relReq, named>>

-----------------------------------------------------------------------------
(* Rollouts.                                                               *)

\* CreateRollout; UNIQUE (agent_version_id, tenant_id).
CreateRollout(v) ==
    /\ versions[v] # "none" /\ rollout[v] = "none"
    /\ rollout' = [rollout EXCEPT ![v] = "in_progress"]
    /\ UNCHANGED <<versions, binaries, files, relReq, named>>

\* From which statuses an operation may start.
AnyActive(op) == CASE op = "pause"  -> {"in_progress"}
                   [] op = "resume" -> {"paused", "aborted"}
                   [] op = "abort"  -> {"in_progress", "paused"}
From(op) == CASE op = "pause"  -> {"in_progress"}
              [] op = "resume" -> {"paused"}
              [] op = "abort"  -> {"in_progress", "paused"}

\* updateRolloutStatus up to the check of the status it has read.
ReadRollout(r, v, op) ==
    /\ relReq[r].pc = "idle" /\ GetAgentVersion(v) /\ rollout[v] \in From(op)
    /\ Set(r, [RelIdle EXCEPT !.pc = "write", !.op = op, !.v = v])
    /\ UNCHANGED <<Rows, files, named>>

\* UpdateRolloutStatus: unconditional.
UpdateRolloutStatus(r) ==
    LET v == relReq[r].v
    IN  /\ relReq[r].pc = "write"
        /\ rollout' = [rollout EXCEPT ![v] = Targets[relReq[r].op]]
        /\ relReq' = [q \in Requests |-> IF q = r THEN RelIdle
                                         ELSE IF relReq[q].pc = "write" /\ relReq[q].v = v
                                              THEN [relReq[q] EXCEPT !.stale = TRUE] ELSE relReq[q]]
        /\ UNCHANGED <<versions, binaries, files, named>>

RelNext ==
    \/ \E r \in Requests :
        \/ \E v \in Versions :
               \/ \E bs \in SUBSET Binaries : RelCreate(r, v, bs)
               \/ \E op \in DOMAIN Targets : ReadRollout(r, v, op)
        \/ CheckExisting(r) \/ InsertVersion(r) \/ InsertBinary(r) \/ RelCommit(r)
        \/ UpdateRolloutStatus(r) \/ RelFail(r)
    \/ \E v \in Versions : Yank(v) \/ CreateRollout(v)

RelSpec == RelInit /\ [][RelNext]_relVars

-----------------------------------------------------------------------------
\* A version is listed with all the binaries its publisher has named, or not
\* at all: CreateAgentVersion leaves nothing half inserted, whatever fails.
PublishedIsWhole ==
    \A v \in Versions :
        {b \in Binaries : <<v, b>> \in binaries} = IF versions[v] = "none" THEN {} ELSE named[v]

\* What is published stays as it is: two requests that both find the version
\* free do not both publish it, and a yanked version does not come back.
PublishedOnce ==
    [][\A v \in Versions : versions[v] # "none" =>
           /\ versions'[v] = versions[v] \/ versions'[v] = "yanked"
           /\ \A b \in Binaries : <<v, b>> \in binaries' <=> <<v, b>> \in binaries]_relVars

\* updateRolloutStatus takes only the steps its checks describe, unless the
\* rollout changed after it was read.
LegalUnlessRaced ==
    [][\A v \in Versions : rollout[v] \notin {"none", rollout'[v]} =>
           \E act \in {"pause", "resume", "abort"} :
               /\ rollout'[v] = Targets[act]
               /\ \/ rollout[v] \in [pause |-> {"in_progress"}, resume |-> {"paused"},
                                     abort |-> {"in_progress", "paused"}][act]
                  \/ \E r \in Requests : relReq[r].v = v /\ relReq[r].stale]_relVars

\* An aborted rollout has no further batches: it does not become active again.
AbortIsFinal == [][\A v \in Versions : rollout[v] = "aborted" => rollout'[v] = "aborted"]_relVars

\* docs/AGENT_UPDATE_SPEC.md:315: "pause gradual rollout".  The rollout of a version that is offered is one
\* that the handlers can look up.
RolloutIsReachable == \A v \in Versions : rollout[v] = "in_progress" => GetAgentVersion(v)

\* Releases: a version is published once, with all its binaries, and a rollout moves
\* as its handlers allow unless requests raced.
ReleasesSound == []PublishedIsWhole /\ PublishedOnce /\ LegalUnlessRaced

=============================================================================
