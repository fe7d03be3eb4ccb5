---------------------------- MODULE AgentUpdate -----------------------------
(***************************************************************************)
(* Agent updates and rollbacks on one host:                                *)
(*                                                                         *)
(*   agent/executor/update.go, rollback.go and runJob in executor.go       *)
(*   agent/update/pending.go, verify.go and their use in runDaemon         *)
(*   the statuses server/api/agent_jobs.go takes in a result               *)
(*                                                                         *)
(* Every job runs in a goroutine of its own on the same four paths: the    *)
(* binary, its staging and previous copies, and pending_update.json.  Each *)
(* file operation is a step, which may fail, and the agent may stop        *)
(* between any two.                                                        *)
(***************************************************************************)
EXTENDS Integers, FiniteSets

CONSTANTS
    Jobs,           \* update and rollback jobs
    Installed,      \* the version at first: the N of a version 1.N.0, or Dev
    Targets,        \* the versions updates ask for
    Grace,          \* 3 * pollInterval
    UpdMaxTime,
    MaxStops        \* times the agent stops

ASSUME AgentUpdateAssumption ==
    /\ Targets \subseteq 3..99 /\ Installed \in 3..100
    /\ {Grace, UpdMaxTime, MaxStops} \subseteq Nat
    /\ "none" \notin Jobs

VARIABLES
    updNow, stops,
    bin, staging, prev,     \* the files, by what is in them
    pending,                \* pending_update.json
    running,                \* the version of the process, Absent when it is down
    boot,                   \* "remove": runDaemon is about to remove the pending file
    updJob,                    \* the jobs on the agent
    srv,                    \* and on the server
    settled,                \* the update job the last start has settled, if any
    updOverlap,                \* two update or rollback jobs were in progress at once
    stacked,                \* a backup was made while an update was unsettled
    cutRestored,            \* a rollback put a backup in place that was cut off
    fresh,                  \* the binary is one that an update installed since the last start
    unrecorded              \* a stop or a failed write left such a binary without its record

updVars == <<updNow, stops, bin, staging, prev, pending, running, boot, updJob, srv, settled,
             updOverlap, stacked, cutRestored, fresh, unrecorded>>
files == <<bin, staging, prev, pending>>
updHistory == <<updOverlap, stacked, cutRestored, fresh, unrecorded>>

UpdAbsent == 0
UpdTorn == 1       \* empty, cut off or not executable
Bad == 2        \* complete, and not the released binary
Dev == 100      \* a build without a version
Released == Targets \cup {Installed}
Contents == {UpdAbsent, UpdTorn, Bad} \cup Released

NoJob == "none"
NoPending == [job |-> NoJob, expected |-> 0, previous |-> 0, deadline |-> 0]
TornPending == [job |-> NoJob, expected |-> 1, previous |-> 0, deadline |-> 0]

NewJob == [pc |-> "none", kind |-> "update", v |-> Installed, force |-> FALSE, result |-> "none"]
Active == {"start", "download", "verify", "backup", "copied", "rename", "pending", "remove", "submit"}

\* Files, jobs and histories have their types; a staged result is one runJob can submit.
UpdTypeOK ==
    /\ updNow \in 0..UpdMaxTime /\ stops \in 0..MaxStops
    /\ {bin, staging, prev, running} \subseteq Contents
    /\ pending \in [job : Jobs \cup {NoJob}, expected : {0, 1} \cup Released,
                    previous : {0} \cup Released, deadline : 0..(UpdMaxTime + Grace)]
    /\ updJob \in [Jobs -> [pc : Active \cup {"none", "ended"}, kind : {"update", "rollback"},
                            v : Released, force : BOOLEAN,
                            result : {"none", "failed", "restarting"}]]
    /\ \A j \in Jobs : updJob[j].pc = "submit" => updJob[j].result # "none"
    /\ srv \in [Jobs -> {"none", "running", "completed", "failed", "timed_out"}]
    /\ settled \in Jobs \cup {NoJob} /\ boot \in {"up", "remove"}
    /\ {updOverlap, stacked, cutRestored, fresh, unrecorded} \subseteq BOOLEAN

UpdInit ==
    /\ updNow = 0 /\ stops = 0
    /\ bin = Installed /\ staging = UpdAbsent /\ prev = UpdAbsent /\ pending = NoPending
    /\ running = Installed /\ boot = "up"
    /\ updJob = [j \in Jobs |-> NewJob] /\ srv = [j \in Jobs |-> "none"]
    /\ settled = NoJob
    /\ updOverlap = FALSE /\ stacked = FALSE /\ cutRestored = FALSE /\ fresh = FALSE /\ unrecorded = FALSE

-----------------------------------------------------------------------------
(* executeAgentUpdate and executeAgentRollback *)

\* The characters of N and the dot after it; the dot sorts before the digits
Chars(n) == IF n < 10 THEN <<n, -1>> ELSE <<n \div 10, n % 10, -1>>

\* p.Version <= version.Version compares the strings
NotNewer(v, w) ==
    \/ v = w
    \/ \E i \in DOMAIN Chars(v) \cap DOMAIN Chars(w) :
         /\ Chars(v)[i] < Chars(w)[i]
         /\ \A k \in 1..(i - 1) : Chars(v)[k] = Chars(w)[k]

End(j, result) == updJob' = [updJob EXCEPT ![j].pc = "submit", ![j].result = result]
Goto(j, p) == updJob' = [updJob EXCEPT ![j].pc = p]

\* A job arrives and is acknowledged
Receive(j) ==
    /\ running # UpdAbsent /\ boot = "up" /\ updJob[j].pc = "none"
    /\ \/ \E v \in Targets, f \in BOOLEAN :
            updJob' = [updJob EXCEPT ![j] = [NewJob EXCEPT !.pc = "start", !.v = v, !.force = f]]
       \/ updJob' = [updJob EXCEPT ![j] = [NewJob EXCEPT !.pc = "start", !.kind = "rollback"]]
    /\ srv' = [srv EXCEPT ![j] = "running"]
    /\ updOverlap' = (updOverlap \/ \E k \in Jobs \ {j} : updJob[k].pc \in Active \ {"submit"})
    /\ UNCHANGED <<updNow, stops, files, running, boot, settled, stacked, cutRestored, fresh, unrecorded>>

\* The job fails and removes its staging file, if it can
GiveUp(j) == End(j, "failed") /\ staging' \in {staging, UpdAbsent}

\* The checks before the download, and its beginning, which truncates the staging file
Preflight(j) ==
    /\ updJob[j].pc = "start" /\ updJob[j].kind = "update"
    /\ \/ End(j, "failed") /\ UNCHANGED staging
       \/ /\ updJob[j].force \/ running = Dev \/ ~NotNewer(updJob[j].v, running)
          /\ Goto(j, "download") /\ staging' = UpdTorn
    /\ UNCHANGED <<updNow, stops, bin, prev, pending, running, boot, srv, settled, updHistory>>

Download(j) ==
    /\ updJob[j].pc = "download"
    /\ \/ staging' \in {updJob[j].v, Bad} /\ Goto(j, "verify")
       \/ GiveUp(j)
    /\ UNCHANGED <<updNow, stops, bin, prev, pending, running, boot, srv, settled, updHistory>>

\* Checksum and signature of the staging file, and its mode
Verify(j) ==
    /\ updJob[j].pc = "verify"
    /\ \/ staging = updJob[j].v /\ Goto(j, "backup") /\ UNCHANGED staging
       \/ GiveUp(j)
    /\ UNCHANGED <<updNow, stops, bin, prev, pending, running, boot, srv, settled, updHistory>>

\* copyFile truncates the previous binary, and then copies the current one
Backup(j) ==
    /\ updJob[j].pc = "backup"
    /\ \/ prev' = UpdTorn /\ Goto(j, "copied") /\ UNCHANGED staging
       \/ GiveUp(j) /\ UNCHANGED prev
    /\ UNCHANGED <<updNow, stops, bin, pending, running, boot, srv, settled, updHistory>>

BackupStaged(j) ==
    /\ updJob[j].pc = "copied"
    /\ \/ prev' = staging /\ Goto(j, "rename") /\ UNCHANGED staging
       \/ GiveUp(j) /\ UNCHANGED prev
    /\ UNCHANGED <<updNow, stops, bin, pending, running, boot, srv, settled, updHistory>>

\* a copy that fails stays cut off
CopyFile(j) ==
    /\ updJob[j].pc = "copied"
    /\ \/ /\ prev' = bin /\ Goto(j, "rename") /\ UNCHANGED staging
          /\ stacked' = (stacked \/ bin # running \/ pending.job # NoJob)
       \/ GiveUp(j) /\ UNCHANGED <<prev, stacked>>
    /\ UNCHANGED <<updNow, stops, bin, pending, running, boot, srv, settled, updOverlap, cutRestored, fresh, unrecorded>>

Rename(j) ==
    /\ updJob[j].pc = "rename"
    /\ \/ /\ staging # UpdAbsent
          /\ bin' = staging /\ staging' = UpdAbsent /\ Goto(j, "pending") /\ fresh' = TRUE
       \/ GiveUp(j) /\ UNCHANGED <<bin, fresh>>
    /\ UNCHANGED <<updNow, stops, prev, pending, running, boot, srv, settled, updOverlap, stacked, cutRestored, unrecorded>>

\* An error is logged, and leaves the file as it was or cut off
WritePending(j) ==
    /\ updJob[j].pc = "pending"
    /\ \/ /\ pending' = [job |-> j, expected |-> updJob[j].v, previous |-> running,
                         deadline |-> updNow + Grace]
          /\ UNCHANGED unrecorded
       \/ pending' \in {pending, TornPending} /\ unrecorded' = TRUE
    /\ End(j, "restarting")
    /\ UNCHANGED <<updNow, stops, bin, staging, prev, running, boot, srv, settled, updOverlap, stacked, cutRestored, fresh>>

\* previous becomes current again
RestorePrevious ==
    /\ prev # UpdAbsent
    /\ bin' = prev /\ prev' = UpdAbsent
    /\ cutRestored' = (cutRestored \/ prev = UpdTorn) /\ fresh' = FALSE

\* executeAgentRollback with update.Rollback
ExecuteRollback(j) ==
    /\ updJob[j].pc = "start" /\ updJob[j].kind = "rollback"
    /\ \/ RestorePrevious /\ Goto(j, "remove")
       \/ End(j, "failed") /\ UNCHANGED <<bin, prev, cutRestored, fresh>>
    /\ UNCHANGED <<updNow, stops, staging, pending, running, boot, srv, settled, updOverlap, stacked, unrecorded>>

\* RemovePending, whose error is ignored
RollbackRemove(j) ==
    /\ updJob[j].pc = "remove"
    /\ pending' \in {pending, NoPending} /\ End(j, "restarting")
    /\ UNCHANGED <<updNow, stops, bin, staging, prev, running, boot, srv, settled, updHistory>>

\* The statuses the server's SubmitResult takes; any other gets a 400
Accepted(result) == result \in {"completed", "failed", "timed_out"}

\* runJob submits the result, once, and restarts the service after a "restarting"
\* that the server took
Submit(j) ==
    /\ updJob[j].pc = "submit"
    /\ \/ /\ Accepted(updJob[j].result)
          /\ srv' = [srv EXCEPT ![j] = updJob[j].result]
          /\ running' = IF updJob[j].result = "restarting" THEN UpdAbsent ELSE running
       \/ UNCHANGED <<srv, running>>
    /\ Goto(j, "ended")
    /\ UNCHANGED <<updNow, stops, files, boot, settled, updHistory>>

JobStep(j) ==
    \/ Preflight(j) \/ Download(j) \/ Verify(j) \/ Backup(j) \/ CopyFile(j) \/ Rename(j)
    \/ WritePending(j) \/ ExecuteRollback(j) \/ RollbackRemove(j) \/ Submit(j)

-----------------------------------------------------------------------------
(* Stop and start *)

Installing == \E j \in Jobs : updJob[j].pc = "pending"

\* The agent is stopped, whatever its jobs are doing; pending_update.json may be
\* left cut off
UpdStop ==
    /\ running # UpdAbsent /\ stops < MaxStops
    /\ stops' = stops + 1 /\ running' = UpdAbsent /\ boot' = "up"
    /\ pending' \in {pending} \cup (IF Installing THEN {TornPending} ELSE {})
    /\ unrecorded' = (unrecorded \/ Installing)
    /\ updJob' = [j \in Jobs |-> IF updJob[j].pc \in Active THEN [updJob[j] EXCEPT !.pc = "ended"] ELSE updJob[j]]
    /\ UNCHANGED <<updNow, bin, staging, prev, srv, settled, updOverlap, stacked, cutRestored, fresh>>

\* CheckPostRestart
NeedRoll == updNow > pending.deadline \/ bin # pending.expected

\* update.Rollback at the start; an error of its rename, or no previous binary,
\* leaves everything as it is
Rollback ==
    \/ RestorePrevious /\ boot' = "remove"
    \/ boot' = "up" /\ fresh' = FALSE /\ UNCHANGED <<bin, prev, cutRestored>>

\* The service manager starts the binary; runDaemon settles a pending update, and
\* goes on with the version that was started.  The check-ins that follow report
\* that version, and nothing of the update.
UpdStart ==
    /\ running = UpdAbsent /\ bin \in Released
    /\ running' = bin
    /\ settled' = pending.job
    /\ \/ /\ pending.job = NoJob \/ ~NeedRoll
          /\ boot' = (IF pending.job = NoJob THEN "up" ELSE "remove")
          /\ fresh' = FALSE /\ UNCHANGED <<bin, prev, cutRestored>>
       \/ pending.job # NoJob /\ NeedRoll /\ Rollback
    /\ UNCHANGED <<updNow, stops, staging, pending, updJob, srv, updOverlap, stacked, unrecorded>>

\* RemovePending after a verified start, and after a rollback; its error is ignored
StartRemove ==
    /\ running # UpdAbsent /\ boot = "remove" /\ boot' = "up"
    /\ pending' \in {pending, NoPending}
    /\ UNCHANGED <<updNow, stops, bin, staging, prev, running, updJob, srv, settled, updHistory>>

UpdTick ==
    /\ updNow < UpdMaxTime /\ updNow' = updNow + 1
    /\ UNCHANGED <<stops, files, running, boot, updJob, srv, settled, updHistory>>

-----------------------------------------------------------------------------
UpdNext ==
    \/ \E j \in Jobs : Receive(j) \/ JobStep(j)
    \/ UpdStop \/ UpdStart \/ StartRemove \/ UpdTick

UpdSpec == UpdInit /\ [][UpdNext]_updVars

\* Goroutines run, and the service manager starts an agent that is down
FairSpec == UpdSpec /\ WF_updVars(UpdStart) /\ \A j \in Jobs : WF_updVars(JobStep(j))

-----------------------------------------------------------------------------
(* Properties *)

\* The binary on disk is always a released one, wherever the agent stops and whatever
\* fails: what is renamed into place was verified before.  Two exceptions: jobs that
\* overlap share the staging path, and a backup that was cut off, by a stop or by an
\* error of copyFile, stays for a later rollback to put in place.
BootableUnlessCut == ~updOverlap /\ ~cutRestored => bin \in Released

\* A binary that an update has installed is verified by the next start: until then
\* pending_update.json names it.  The exceptions are overlapping jobs, and a stop or a
\* failed WritePending between the rename and the record (executeAgentUpdate).
RecordedUnlessCut ==
    fresh /\ ~Installing /\ ~updOverlap /\ ~unrecorded => pending.job # NoJob /\ pending.expected = bin

\* What a start puts in place of the binary is the version that ran before the update,
\* as pending_update.json names it, unless updates overlapped, a backup was made while
\* an update was unsettled, or the backup is cut off.
RollbackRestores ==
    [][(UpdStart /\ prev' # prev /\ ~updOverlap /\ ~stacked /\ prev # UpdTorn) => bin' = pending.previous]_updVars

\* A start takes a version away only when the restart came after the deadline
\* (CheckPostRestart), also when a record outlives its update because it could not be
\* removed; with the exceptions above.
OnlyLateIsUndone ==
    [][(UpdStart /\ bin' # bin /\ ~updOverlap /\ ~unrecorded /\ prev # UpdTorn) => updNow > pending.deadline]_updVars

\* Every job that starts ends, with a result the server got or with the agent.
JobsEnd == \A j \in Jobs : (updJob[j].pc = "start") ~> (updJob[j].pc = "ended")

\* Both checks must pass (docs/AGENT_UPDATE_SPEC.md:188): what is installed is
\* always a released binary.
InstalledIsVerified == bin \in Released

\* A "restarting" result makes runJob restart the service
\* (agent/executor/executor.go:115), or the agent stops for another reason.
RestartFollows ==
    \A j \in Jobs : (updJob[j].pc = "submit" /\ updJob[j].result = "restarting") ~> (running = UpdAbsent)

\* Job completion will be reported on next check-in (agent/cmd/agent/main.go:275):
\* a settled update does not stay running on the server.
SettledIsReported ==
    \A j \in Jobs : (settled = j) ~> (srv[j] # "running" \/ settled # j)

\* Only downgrades are refused (docs/AGENT_UPDATE_SPEC.md:168): an update to a
\* newer version is not refused as not newer.
NewerIsAccepted == running \notin {UpdAbsent, Dev} => \A v \in Targets : v > running => ~NotNewer(v, running)

\* Updates: the host can start its agent, the next start verifies what an update has
\* installed, and it undoes only what came too late and restores the version before.
UpdatesSound == [](BootableUnlessCut /\ RecordedUnlessCut) /\ RollbackRestores /\ OnlyLateIsUndone

=============================================================================
