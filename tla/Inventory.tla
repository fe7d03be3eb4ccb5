----------------------------- MODULE Inventory ------------------------------
(***************************************************************************)
(* The package inventory of one device: the collector on the agent         *)
(* (agent/inventory/collector.go), its callers - the poller's check-in,    *)
(* package jobs (agent/executor/package.go) and full inventory jobs - and  *)
(* the rows the server keeps (processPackageDelta in server/api/           *)
(* checkin.go, processFullInventory in server/api/agent_jobs.go).  The     *)
(* callers are goroutines of their own, and full inventories may be stored *)
(* side by side; the server's statements commit one by one.                *)
(***************************************************************************)
EXTENDS Integers, Sequences

CONSTANTS
    Packages, Versions,
    Fulls,          \* full inventory jobs under way at a time
    MaxChanges,     \* changes of the host's packages
    InvMaxFaults       \* lost check-ins, failed statements and collections, restarts

ASSUME InventoryAssumption == Versions \subseteq Nat \ {0} /\ {MaxChanges, InvMaxFaults} \subseteq Nat

VARIABLES
    host,           \* the installed version of each package, Absent if none
    invLast,           \* c.lastPkgs
    rows,           \* inventory_packages: the versions in the rows of each package
    poller,         \* the check-in: [pc, seen]
    delta,          \* the statements its delta has still to run on the server
    pkgjob,         \* a package job: [pc, seen]
    full,           \* the full inventory jobs: [pc, seen], and what each has still to insert
    changes, invFaults,
    owed,           \* packages changed by a job, in no check-in since
    acked,          \* the snapshot the server has answered for
    drift           \* the rows may differ from the snapshot: see SyncedUnlessDrift

invVars == <<host, invLast, rows, poller, delta, pkgjob, full, changes, invFaults, owed, acked, drift>>

InvAbsent == 0
Empty == [p \in Packages |-> InvAbsent]
NoSnapshot == [p \in Packages |-> -1]
Snapshots == [Packages -> Versions \cup {InvAbsent}]
Idle == [pc |-> "idle", seen |-> Empty]

\* between the DELETE and the last INSERT of a full inventory
Replacing == {f \in Fulls : full[f].pc = "replacing"}

Statements == [op : {"added", "updated", "removed"}, p : Packages, v : Versions \cup {InvAbsent}]

InvFault == invFaults < InvMaxFaults /\ invFaults' = invFaults + 1

\* Snapshots, rows and the requests under way have their types.
InvTypeOK ==
    /\ host \in Snapshots /\ {invLast, acked} \subseteq Snapshots \cup {NoSnapshot}
    /\ rows \in [Packages -> Seq(Versions)]
    /\ poller \in [pc : {"idle", "collected", "posted"}, seen : Snapshots]
    /\ delta \subseteq Statements /\ (delta # {} => poller.pc = "posted")
    /\ \A s \in delta : s.op # "removed" => s.v # InvAbsent
    /\ pkgjob \in [pc : {"idle", "done", "collected"}, seen : Snapshots]
    /\ full \in [Fulls -> [pc : {"idle", "collected", "replacing"}, seen : Snapshots]]
    /\ changes \in 0..MaxChanges /\ invFaults \in 0..InvMaxFaults
    /\ owed \subseteq Packages /\ drift \in BOOLEAN

\* A device without inventory: its first full inventory is a job like any other
InvInit ==
    /\ host \in {h \in Snapshots : h # Empty} /\ invLast = NoSnapshot
    /\ rows = [p \in Packages |-> <<>>]
    /\ poller = Idle /\ delta = {} /\ pkgjob = Idle /\ full = [f \in Fulls |-> Idle]
    /\ changes = 0 /\ invFaults = 0 /\ owed = {} /\ acked = NoSnapshot /\ drift = TRUE

-----------------------------------------------------------------------------
(* The host, and ComputeDelta *)

\* Somebody installs, updates or removes a package
Change(p, v) ==
    /\ changes < MaxChanges /\ changes' = changes + 1
    /\ v # host[p] /\ host' = [host EXCEPT ![p] = v]

Local ==
    /\ \E p \in Packages, v \in Versions \cup {InvAbsent} : Change(p, v)
    /\ UNCHANGED <<invLast, rows, poller, delta, pkgjob, full, invFaults, owed, acked, drift>>

DeltaAddsOnly(seen) ==
    IF invLast = NoSnapshot THEN {} ELSE
    {[op |-> IF invLast[p] = InvAbsent THEN "added" ELSE "updated", p |-> p, v |-> seen[p]] :
       p \in {q \in Packages : invLast[q] # seen[q] /\ seen[q] # InvAbsent}}

\* What ComputeDelta finds between the snapshot and what was collected
Delta(seen) ==
    IF invLast = NoSnapshot THEN {} ELSE
    {[op |-> CASE invLast[p] = InvAbsent -> "added" [] seen[p] = InvAbsent -> "removed" [] OTHER -> "updated",
      p |-> p, v |-> seen[p]] : p \in {q \in Packages : invLast[q] # seen[q]}}

-----------------------------------------------------------------------------
(* The check-in of the poller *)

\* CollectPackages comes before the lock; an empty list is nil, as after an error
CheckinCollect ==
    /\ poller.pc = "idle" /\ host # Empty
    /\ poller' = [pc |-> "collected", seen |-> host]
    /\ UNCHANGED <<host, invLast, rows, delta, pkgjob, full, changes, invFaults, owed, acked, drift>>

Sent(seen) == {s.p : s \in Delta(seen)}

\* The snapshot is replaced and the delta, if there is one, is on its way
CheckinPost ==
    /\ poller.pc = "collected"
    /\ delta' = Delta(poller.seen) /\ poller' = [poller EXCEPT !.pc = "posted"]
    /\ owed' = owed \ Sent(poller.seen)
    /\ invLast' = poller.seen
    /\ UNCHANGED <<host, rows, pkgjob, full, changes, invFaults, acked, drift>>

\* The request is lost before the handler, or refused by it
CheckinLost ==
    /\ poller.pc = "posted" /\ InvFault
    /\ poller' = Idle /\ delta' = {}
    /\ drift' = (drift \/ delta # {})
    /\ UNCHANGED <<host, invLast, rows, pkgjob, full, changes, owed, acked>>

-----------------------------------------------------------------------------
(* processPackageDelta: inserts, then updates, then deletes *)

Rank(op) == CASE op = "added" -> 1 [] op = "updated" -> 2 [] op = "removed" -> 3
First(s) == \A t \in delta : Rank(s.op) <= Rank(t.op)

\* A new row has a new identifier: ON CONFLICT never applies
Run(s) ==
    rows' = [rows EXCEPT ![s.p] =
        CASE s.op = "added" -> Append(@, s.v)
          [] s.op = "updated" -> [i \in DOMAIN @ |-> s.v]
          [] s.op = "removed" -> <<>>]

InvApply ==
    /\ poller.pc = "posted"
    /\ \E s \in delta :
         /\ First(s) /\ Run(s)
         /\ delta' = delta \ {s}
    /\ drift' = (drift \/ Replacing # {})
    /\ UNCHANGED <<host, invLast, poller, pkgjob, full, changes, invFaults, owed, acked>>

\* A statement fails: the rest is given up, and the check-in goes on
ApplyFails ==
    /\ poller.pc = "posted" /\ delta # {} /\ InvFault
    /\ delta' = {} /\ drift' = TRUE
    /\ UNCHANGED <<host, invLast, rows, poller, pkgjob, full, changes, owed, acked>>

CheckinAnswered ==
    /\ poller.pc = "posted" /\ delta = {}
    /\ acked' = poller.seen /\ poller' = Idle
    /\ UNCHANGED <<host, invLast, rows, delta, pkgjob, full, changes, invFaults, owed, drift>>

-----------------------------------------------------------------------------
(* A package job: the helper changes the host, then packageResultToJob calls ComputeDelta *)

PackageJob ==
    /\ pkgjob.pc = "idle"
    /\ \E p \in Packages, v \in Versions \cup {InvAbsent} :
         /\ Change(p, v)
         /\ owed' = IF invLast = NoSnapshot THEN owed ELSE owed \cup {p}
    /\ pkgjob' = [pkgjob EXCEPT !.pc = "done"]
    /\ UNCHANGED <<invLast, rows, poller, delta, full, invFaults, acked, drift>>

RefreshCollect ==
    /\ pkgjob.pc = "done"
    /\ pkgjob' = IF host = Empty THEN Idle ELSE [pc |-> "collected", seen |-> host]
    /\ UNCHANGED <<host, invLast, rows, poller, delta, full, changes, invFaults, owed, acked, drift>>

\* The delta is returned to nobody
Refresh ==
    /\ pkgjob.pc = "collected" /\ pkgjob' = Idle
    /\ invLast' = pkgjob.seen
    /\ drift' = (drift \/ invLast # pkgjob.seen)
    /\ UNCHANGED <<host, rows, poller, delta, full, changes, invFaults, owed, acked>>

-----------------------------------------------------------------------------
(* A full inventory job: CollectFull, and processFullInventory on the server *)

FullCollect(f) ==
    /\ full[f].pc = "idle"
    /\ full' = [full EXCEPT ![f] = [pc |-> "collected", seen |-> host]]
    /\ UNCHANGED <<host, invLast, rows, poller, delta, pkgjob, changes, invFaults, owed, acked, drift>>

\* DELETE of all rows, unless no package came; its error is ignored, and the INSERTs follow
FullDelete(f) ==
    /\ full[f].pc = "collected"
    /\ \/ /\ full[f].seen = Empty
          /\ full' = [full EXCEPT ![f] = Idle] /\ UNCHANGED <<rows, invFaults, drift>>
       \/ /\ full[f].seen # Empty
          /\ full' = [full EXCEPT ![f].pc = "replacing"]
          /\ \/ /\ rows' = [p \in Packages |-> <<>>] /\ UNCHANGED invFaults
                /\ drift' = ~(delta = {} /\ invLast = full[f].seen /\ Replacing = {})
             \/ InvFault /\ drift' = TRUE /\ UNCHANGED rows
    /\ UNCHANGED <<host, invLast, poller, delta, pkgjob, changes, owed, acked>>

\* One INSERT after the other
FullInsert(f) ==
    /\ full[f].pc = "replacing"
    /\ \E p \in Packages :
         /\ full[f].seen[p] # InvAbsent
         /\ rows' = [rows EXCEPT ![p] = Append(@, full[f].seen[p])]
         /\ LET rest == [full[f].seen EXCEPT ![p] = InvAbsent] IN
              full' = [full EXCEPT ![f] = IF rest = Empty THEN Idle ELSE [@ EXCEPT !.seen = rest]]
    /\ UNCHANGED <<host, invLast, poller, delta, pkgjob, changes, invFaults, owed, acked, drift>>

\* The job ends before its result is stored, or at an INSERT
FullFails(f) ==
    /\ full[f].pc \in {"collected", "replacing"} /\ InvFault
    /\ full' = [full EXCEPT ![f] = Idle]
    /\ drift' = (drift \/ f \in Replacing)
    /\ UNCHANGED <<host, invLast, rows, poller, delta, pkgjob, changes, owed, acked>>

-----------------------------------------------------------------------------
\* The agent restarts; what has reached the server stays there
InvRestart ==
    /\ InvFault /\ invLast' = NoSnapshot /\ pkgjob' = Idle
    /\ poller' = Idle /\ delta' = {}
    /\ full' = [f \in Fulls |-> IF f \in Replacing THEN full[f] ELSE Idle]
    /\ drift' = TRUE
    /\ UNCHANGED <<host, rows, changes, owed, acked>>

InvCheckin == CheckinCollect \/ CheckinPost \/ InvApply \/ CheckinAnswered
FullJob(f) == FullCollect(f) \/ FullDelete(f) \/ FullInsert(f) \/ FullFails(f)

InvNext ==
    \/ Local \/ InvCheckin \/ CheckinLost \/ ApplyFails
    \/ PackageJob \/ RefreshCollect \/ Refresh
    \/ (\E f \in Fulls : FullJob(f)) \/ InvRestart

InvSpec == InvInit /\ [][InvNext]_invVars

-----------------------------------------------------------------------------
Matches(s) == \A p \in Packages : rows[p] = IF s[p] = InvAbsent THEN <<>> ELSE <<s[p]>>

\* ComputeDelta with processPackageDelta: once a full inventory has been stored that equals the
\* collector's snapshot, the rows are the snapshot whenever no request is under way - whatever the
\* rows were before it, and unless a delta was lost, discarded or half applied since, the agent
\* restarted, or another full inventory was stored that differs from the snapshot, whose DELETE
\* or INSERT failed or that ran side by side with a delta or with a full inventory.
SyncedUnlessDrift ==
    ~drift /\ delta = {} /\ Replacing = {} => Matches(invLast)

\* Upsert/insert/delete of packages (IMPLEMENTATION_PLAN.md:401): a package has one row.
OneRowEach == \A p \in Packages : Len(rows[p]) <= 1

\* packageResultToJob (package.go:105-106): the check-in after the refresh includes the delta,
\* if it has seen the packages as the job left them.
RefreshIsReported ==
    [][CheckinPost /\ invLast # NoSnapshot /\ pkgjob.pc = "idle" /\ poller.seen = host
         => owed' = {}]_invVars

\* IMPLEMENTATION_PLAN.md:388: the snapshot compared against is the one sent last; a check-in
\* that fails leaves it so.
SnapshotWasSent == [][CheckinLost /\ acked # NoSnapshot => invLast' = acked]_invVars
=============================================================================
