----------------------------- MODULE Memberships -----------------------------
(***************************************************************************)
(* Groups, sites and tags: the handlers that create, rename and delete     *)
(* them and that put devices into them (server/api/groups.go, sites.go and *)
(* tags.go, with their store files), and the audit entry each of them      *)
(* writes (server/audit/audit.go).                                         *)
(*                                                                         *)
(* The three kinds are one here, a container: a request adds several       *)
(* devices to a group or site, or several tags to a device, and either way *)
(* inserts pairs one by one, each committed by itself.  Requests interleave*)
(* statement by statement; every statement may fail, and the answer of one *)
(* that was committed may be lost.                                         *)
(***************************************************************************)
EXTENDS FiniteSets

CONSTANTS Containers, \* ids of groups, sites and tags
          Devices,    \* devices that are enrolled
          Unknown,    \* other ids a request may name
          MemRequests    \* requests, each made once

VARIABLES
  present, \* the containers that have a row
  members, \* the rows of device_groups, device_sites and device_tags
  log,     \* the requests that have an entry in audit_log
  counted, \* the requests audit_write_failures_total has counted
  memReq,     \* each request
  undone   \* history, per request: the pairs taken away since it began

memVars == <<present, members, log, counted, memReq, undone>>

Pairs == Containers \X (Devices \cup Unknown)

NoRequest == [pc |-> "new", op |-> "none", on |-> {}, todo |-> {}, wrote |-> FALSE, reply |-> "none"]

\* The lists a request may carry: devices for one container, or containers
\* for one device.
Lists == {l \in SUBSET Pairs : /\ l # {}
                               /\ \/ \E c \in Containers : l \subseteq {c} \X (Devices \cup Unknown)
                                  \/ \E d \in Devices \cup Unknown : l \subseteq Containers \X {d}}

MemInit ==
  /\ present \in SUBSET Containers
  /\ members = {} /\ log = {} /\ counted = {}
  /\ memReq = [q \in MemRequests |-> NoRequest]
  /\ undone = [q \in MemRequests |-> {}]

\* Pairs that go are remembered by every request under way or answered.
Take(pairs) == undone' = [q \in MemRequests |-> IF memReq[q].pc = "new" THEN {} ELSE undone[q] \cup pairs]

Answer(q, reply) == memReq' = [memReq EXCEPT ![q].pc = "done", ![q].reply = reply]

\* A single statement that changed something: the audit entry comes next, or, if the statement was
\* committed and its answer lost, the error the request is answered with.
Wrote(q, op, on) ==
  \E lost \in BOOLEAN :
    memReq' = [memReq EXCEPT ![q] = [NoRequest EXCEPT !.pc = IF lost THEN "done" ELSE "audit", !.op = op, !.on = on,
                                                      !.wrote = TRUE, !.reply = IF lost THEN "error" ELSE "none"]]

\* A statement that failed, or that had no row to change.
Refused(q, op, on) ==
  memReq' = [memReq EXCEPT ![q] = [NoRequest EXCEPT !.pc = "done", !.op = op, !.on = on, !.reply = "error"]]

-----------------------------------------------------------------------------
\* CreateGroup, CreateSite, CreateTag under a new id.
Create(q) ==
  /\ memReq[q].pc = "new"
  /\ \E c \in Containers \ present :
       /\ \A p \in MemRequests : \A x \in memReq[p].on : x[1] # c
       /\ \/ present' = present \cup {c} /\ Wrote(q, "create", {<<c, c>>})
          \/ Refused(q, "create", {<<c, c>>}) /\ UNCHANGED present
  /\ UNCHANGED <<members, log, counted, undone>>

\* UpdateGroup, UpdateSite: no row, no update.
Update(q) ==
  /\ memReq[q].pc = "new"
  /\ \E c \in Containers : \/ c \in present /\ Wrote(q, "update", {<<c, c>>})
                           \/ Refused(q, "update", {<<c, c>>})
  /\ UNCHANGED <<present, members, log, counted, undone>>

\* DeleteGroup, DeleteSite, DeleteTag; the memberships go with the row.
Delete(q) ==
  /\ memReq[q].pc = "new"
  /\ \/ \E c \in present :
          LET gone == {p \in members : p[1] = c} IN
          /\ present' = present \ {c} /\ members' = members \ gone
          /\ Take(gone \cup {<<c, c>>}) /\ Wrote(q, "delete", {<<c, c>>})
     \/ \E c \in Containers : Refused(q, "delete", {<<c, c>>}) /\ UNCHANGED <<present, members, undone>>
  /\ UNCHANGED <<log, counted>>

\* RemoveDevice, RemoveFromDevice: answers the same whether the row was there.
Remove(q) ==
  /\ memReq[q].pc = "new"
  /\ \E p \in Pairs : \/ members' = members \ {p} /\ Take({p}) /\ Wrote(q, "remove", {p})
                      \/ Refused(q, "remove", {p}) /\ UNCHANGED <<members, undone>>
  /\ UNCHANGED <<present, log, counted>>

\* AddDevices, AddToDevice: the list must not be empty.
Add(q) ==
  /\ memReq[q].pc = "new"
  /\ \E l \in Lists : memReq' = [memReq EXCEPT ![q] = [NoRequest EXCEPT !.pc = "add", !.op = "add",
                                                                        !.on = l, !.todo = l]]
  /\ UNCHANGED <<present, members, log, counted, undone>>

\* One turn of the loop.  A pair with no container or no device is refused by the foreign keys; an
\* INSERT that fails, or whose answer is lost, ends the request, and what is inserted stays.
Insert(q) ==
  /\ memReq[q].pc = "add" /\ memReq[q].todo # {}
  /\ \/ \E p \in memReq[q].todo :
          /\ p[1] \in present /\ p[2] \in Devices
          /\ members' = members \cup {p}
          /\ \E lost \in BOOLEAN :
               memReq' = [memReq EXCEPT ![q].todo = @ \ {p}, ![q].wrote = @ \/ p \notin members,
                                        ![q].pc = IF lost THEN "done" ELSE @, ![q].reply = IF lost THEN "error" ELSE @]
     \/ Answer(q, "error") /\ UNCHANGED members
  /\ UNCHANGED <<present, log, counted, undone>>

Inserted(q) ==
  /\ memReq[q].pc = "add" /\ memReq[q].todo = {}
  /\ memReq' = [memReq EXCEPT ![q].pc = "audit"]
  /\ UNCHANGED <<present, members, log, counted, undone>>

\* The slip the comment on LogAction tells of: a failed write is dropped.
LogActionQuietly(q) ==
  /\ memReq[q].pc = "audit"
  /\ log' = log \cup {q} \/ UNCHANGED log
  /\ IF memReq[q].op = "update" THEN memReq' = [memReq EXCEPT ![q].pc = "reread"] ELSE Answer(q, "ok")
  /\ UNCHANGED <<present, members, counted, undone>>

\* LogAction: the entry is written, or the failure is counted, or both, if the answer of the INSERT
\* is lost; the request goes on either way.
LogAction(q) ==
  /\ memReq[q].pc = "audit"
  /\ \/ log' = log \cup {q} /\ UNCHANGED counted
     \/ counted' = counted \cup {q} /\ log' \in {log, log \cup {q}}
  /\ IF memReq[q].op = "update" THEN memReq' = [memReq EXCEPT ![q].pc = "reread"] ELSE Answer(q, "ok")
  /\ UNCHANGED <<present, members, undone>>

\* Update reads the row again for its answer and ignores the error: with the row gone, or if the
\* statement fails, it answers 200 and null.
Reread(q) ==
  /\ memReq[q].pc = "reread"
  /\ \/ (\E x \in memReq[q].on : x[1] \in present) /\ Answer(q, "ok")
     \/ Answer(q, "null")
  /\ UNCHANGED <<present, members, log, counted, undone>>

MemNext == \E q \in MemRequests : \/ Create(q) \/ Update(q) \/ Delete(q) \/ Remove(q) \/ Add(q)
                                  \/ Insert(q) \/ Inserted(q) \/ LogAction(q) \/ Reread(q)

MemSpec == MemInit /\ [][MemNext]_memVars

-----------------------------------------------------------------------------
\* Types, and the rows of the membership tables refer to rows.
MemTypeOK ==
  /\ present \subseteq Containers
  /\ members \subseteq present \X Devices
  /\ log \subseteq MemRequests /\ counted \subseteq MemRequests
  /\ \A q \in MemRequests :
       /\ memReq[q].pc \in {"new", "add", "audit", "reread", "done"}
       /\ memReq[q].op \in {"none", "create", "update", "delete", "remove", "add"}
       /\ memReq[q].todo \subseteq memReq[q].on
       /\ memReq[q].wrote \in BOOLEAN
       /\ memReq[q].reply \in {"none", "ok", "null", "error"}

Answered(q) == memReq[q].reply \in {"ok", "null"}

\* What a request was answered for with success has happened, apart from what other requests undid
\* since it began: every pair of a list is in place, a row that was created or renamed is there,
\* and one that was deleted is gone for good (groups.go, sites.go, tags.go).
DoneUnlessUndone ==
  \A q \in MemRequests : Answered(q) =>
    /\ memReq[q].op = "add" => memReq[q].on \ undone[q] \subseteq members
    /\ memReq[q].op \in {"create", "update"} => \A x \in memReq[q].on \ undone[q] : x[1] \in present
    /\ memReq[q].op = "delete" => \A x \in memReq[q].on : x[1] \notin present

\* A change that was answered with success is in the audit log, or counted as a failure to write it
\* there (LogAction).  A request that was answered with an error may have made its change, or a
\* part of it, without either.
RecordedOrCountedIfAnswered ==
  \A q \in MemRequests : Answered(q) /\ memReq[q].wrote => q \in log \cup counted

\* The same of every request: "All administrative actions are recorded", and
\* the ones that are not are counted.
RecordedOrCounted ==
  \A q \in MemRequests : memReq[q].pc = "done" /\ memReq[q].wrote => q \in log \cup counted

\* Memberships: what a request was answered for is done unless undone, and is recorded or counted
\* (AddDevices, Update, Delete and LogAction).
MembershipsSafe == DoneUnlessUndone /\ RecordedOrCountedIfAnswered

=============================================================================
