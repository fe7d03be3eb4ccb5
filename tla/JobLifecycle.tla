---------------------------- MODULE JobLifecycle ----------------------------
(***************************************************************************)
(* The life of the jobs of one device: the agent's poller and executor     *)
(* goroutines, the API handlers they call, the operator's cancel, retry    *)
(* and revoke requests, and the scheduler's reaper.  Every handler runs    *)
(* its SQL statements one by one, outside a transaction: each statement is *)
(* a step here, and what a SELECT returned (seen) is used by a later       *)
(* UPDATE that has no status condition.  A call is synchronous, so the     *)
(* handler's progress is kept with the caller; a caller that is gone       *)
(* cancels the request context and the handler runs no further statement.  *)
(***************************************************************************)
EXTENDS JobState, FiniteSets

CONSTANTS
    Task,           \* slots for executor goroutines
    Operator,       \* slots for operator requests
    MaxJobs,        \* rows the jobs table may hold
    MaxCreated,     \* rows that are not retries of others
    MaxRetries,     \* largest max_retries given to a job
    Limit,          \* jobs handed out by one check-in (LIMIT 10)
    MaxFaults,      \* lost replies, database errors and agent restarts
    UpdateReports,  \* jobs an agent may report as a failed update
    Outcomes,       \* statuses that executions submit
    Modes           \* CDM modes the local user switches between

Job == 1..MaxJobs
NoJob == 0
CdmModes == {"off", "hold", "session"}

ASSUME ConstantsAssumption ==
    /\ MaxJobs \in Nat \ {0} /\ MaxCreated \in Nat /\ MaxRetries \in Nat
    /\ Limit \in Nat \ {0} /\ MaxFaults \in Nat
    /\ UpdateReports \subseteq Job /\ Modes \subseteq CdmModes
    /\ Outcomes \subseteq {"completed", "failed", "timed_out", "restarting"}
    /\ Task \cap Operator = {}
    /\ IsFiniteSet(Task) /\ IsFiniteSet(Operator)

VARIABLES
    \* table jobs: an unused id has status "absent"; of the two timestamps it
    \* matters where they are set, and where the one that belongs to the status
    \* is older than the cutoff it is compared with (expired)
    status, dispatchedAt, acknowledgedAt, expired, retryCount, maxRetries, parent,
    results,        \* jobs with a row in job_results
    device,         \* devices.status
    cert,           \* agent_certificates: revoked once revoked_at is set
    \* the poller's check-in: where its handler is, the CDM mode and the failed
    \* update it carries, the jobs fetched and not yet marked, the jobs replied
    checkin, told, report, todo, out,
    pc, on, seen,   \* executor goroutines and operator requests
    outcome,        \* status an executor goroutine submits
    cdm, reported,  \* CDM mode of the agent, and the poller's copy of it
    faults,
    \* history: executions per job (2 for two or more), jobs created by an
    \* operator's retry, jobs whose status some UPDATE overwrote after it had
    \* changed since the SELECT
    runs, manual, lostUpdate

stamps  == <<dispatchedAt, acknowledgedAt>>
fixed   == <<retryCount, maxRetries, parent, manual>>
server  == <<device, cert>>
poll    == <<checkin, told, report, todo, out>>
request == <<pc, on, seen, outcome>>
agent   == <<cdm, reported>>
vars == <<status, stamps, expired, fixed, results, server, poll, request, agent, faults,
          runs, lostUpdate>>

Proc == Task \cup Operator
AckPCs == {"gate", "ackRead", "ackWrite"}
RunPCs == {"acked", "resRead", "resInsert", "resUpdate", "resRetry"}
TaskPCs == {"idle"} \cup AckPCs \cup RunPCs
OperatorPCs == {"idle", "cancelWrite", "retryInsert"}
PollPCs == {"idle", "device", "report", "requeue", "fetch", "select", "mark", "deliver"}

RowsOK ==
    /\ status \in [Job -> Statuses \cup {"absent"}]
    /\ dispatchedAt \subseteq Job /\ acknowledgedAt \subseteq Job /\ expired \subseteq Job
    /\ retryCount \in [Job -> Nat]
    /\ maxRetries \in [Job -> 0..MaxRetries]
    /\ parent \in [Job -> Job \cup {NoJob}]
    /\ results \subseteq Job
    /\ device \in {"online", "revoked"} /\ cert \in {"valid", "revoked"}

PollOK ==
    /\ checkin \in PollPCs /\ told \in CdmModes /\ report \in Job \cup {NoJob}
    /\ checkin = "report" => report # NoJob
    /\ todo \subseteq Job /\ out \subseteq Job

RequestsOK ==
    /\ pc \in [Proc -> TaskPCs \cup OperatorPCs]
    /\ \A t \in Task : pc[t] \in TaskPCs
    /\ \A p \in Operator : pc[p] \in OperatorPCs
    /\ on \in [Proc -> Job \cup {NoJob}]
    /\ \A p \in Proc : pc[p] # "idle" => on[p] \in Job
    /\ seen \in [Proc -> Statuses \cup {"absent"}]
    /\ outcome \in [Task -> Outcomes \cup {"failed"}]

AgentOK ==
    /\ cdm \in CdmModes /\ reported \in CdmModes
    /\ faults \in 0..MaxFaults
    /\ runs \in [Job -> 0..2] /\ manual \subseteq Job /\ lostUpdate \subseteq Job

\* The tables, the check-in, the requests and the agent have their types; a
\* request is about a job.
TypeOK == RowsOK /\ PollOK /\ RequestsOK /\ AgentOK

Init ==
    /\ status = [j \in Job |-> "absent"]
    /\ dispatchedAt = {} /\ acknowledgedAt = {} /\ expired = {}
    /\ retryCount = [j \in Job |-> 0]
    /\ maxRetries = [j \in Job |-> 0]
    /\ parent = [j \in Job |-> NoJob]
    /\ results = {}
    /\ device = "online" /\ cert = "valid"
    /\ checkin = "idle" /\ told = "off" /\ report = NoJob /\ todo = {} /\ out = {}
    /\ pc = [p \in Proc |-> "idle"]
    /\ on = [p \in Proc |-> NoJob]
    /\ seen = [p \in Proc |-> "absent"]
    /\ outcome = [t \in Task |-> "failed"]
    /\ cdm = "off" /\ reported = "off"
    /\ faults = 0
    /\ runs = [j \in Job |-> 0] /\ manual = {} /\ lostUpdate = {}

-----------------------------------------------------------------------------
(* Inserting and updating rows *)

\* ids are handed out in order, so the order of ids is that of created_at
NextID(j) == status[j] = "absent" /\ \A i \in Job : i < j => status[i] # "absent"

Insert(j, count, max, from) ==
    /\ NextID(j)
    /\ status' = [status EXCEPT ![j] = "queued"]
    /\ retryCount' = [retryCount EXCEPT ![j] = count]
    /\ maxRetries' = [maxRetries EXCEPT ![j] = max]
    /\ parent' = [parent EXCEPT ![j] = from]

\* UPDATE jobs SET status = s WHERE id = j, after a SELECT that returned read
Overwrite(j, s, read) ==
    /\ status' = [status EXCEPT ![j] = s]
    /\ expired' = expired \ {j}
    /\ lostUpdate' = IF status[j] = read THEN lostUpdate ELSE lostUpdate \cup {j}

\* one guarded statement over all rows: UPDATE ... SET status = s WHERE j \in S
UpdateWhere(S, s) ==
    /\ status' = [j \in Job |-> IF j \in S THEN s ELSE status[j]]
    /\ expired' = expired \ S

WithStatus(s) == {j \in Job : status[j] = s}

\* the middleware that runs before every agent handler
Authenticated == cert = "valid" /\ device # "revoked"

Fault == faults < MaxFaults /\ faults' = faults + 1
NoFault == UNCHANGED faults

-----------------------------------------------------------------------------
(* Check-in: Poller.checkin and CheckinHandler.ServeHTTP *)

CheckinStart ==
    /\ checkin = "idle" /\ Authenticated
    /\ checkin' = "device" /\ told' = reported
    /\ report' \in UpdateReports \cup {NoJob}
    /\ UNCHANGED <<status, stamps, expired, fixed, results, server, todo, out, request,
                   agent, faults, runs, lostUpdate>>

\* UPDATE devices: the row becomes online whatever it was
CheckinDevice ==
    /\ checkin = "device"
    /\ device' = "online"
    /\ checkin' = IF report = NoJob THEN "requeue" ELSE "report"
    /\ UNCHANGED <<status, stamps, expired, fixed, results, cert, told, report, todo,
                   out, request, agent, faults, runs, lostUpdate>>

\* a reported update failure fails the job, unless the statement itself fails
CheckinReport ==
    /\ checkin = "report"
    /\ \/ /\ NoFault
          /\ status[report] # "absent"
          /\ UpdateWhere({report}, "failed")
       \/ /\ NoFault
          /\ status[report] = "absent"
          /\ UNCHANGED <<status, expired>>
       \/ Fault /\ UNCHANGED <<status, expired>>
    /\ checkin' = "requeue"
    /\ UNCHANGED <<stamps, fixed, results, server, told, report, todo, out, request, agent,
                   runs, lostUpdate>>

StaleDispatched == WithStatus("dispatched") \cap dispatchedAt \cap expired

RequeueStale ==
    /\ UpdateWhere(StaleDispatched, "queued")
    /\ dispatchedAt' = dispatchedAt \ StaleDispatched
    /\ UNCHANGED acknowledgedAt

\* the handler only logs an error of this statement
CheckinRequeue ==
    /\ checkin = "requeue"
    /\ \/ NoFault /\ RequeueStale
       \/ Fault /\ UNCHANGED <<status, stamps, expired>>
    /\ checkin' = "fetch"
    /\ UNCHANGED <<fixed, results, server, told, report, todo, out, request, agent, runs,
                   lostUpdate>>

\* fetchDispatchableJobs without a session: hold the queue, hand out nothing
CheckinHold ==
    /\ checkin = "fetch" /\ told = "hold"
    /\ UpdateWhere(WithStatus("queued"), "cdm_hold")
    /\ checkin' = "mark"
    /\ UNCHANGED <<stamps, fixed, results, server, told, report, todo, out, request, agent,
                   faults, runs, lostUpdate>>

\* fetchDispatchableJobs with a session releases held jobs (its error is ignored)
CheckinRelease ==
    /\ checkin = "fetch" /\ told # "hold"
    /\ \/ NoFault /\ told = "session" /\ UpdateWhere(WithStatus("cdm_hold"), "queued")
       \/ NoFault /\ told = "off" /\ UNCHANGED <<status, expired>>
       \/ Fault /\ told = "session" /\ UNCHANGED <<status, expired>>
    /\ checkin' = "select"
    /\ UNCHANGED <<stamps, fixed, results, server, told, report, todo, out, request, agent,
                   runs, lostUpdate>>

\* ORDER BY created_at LIMIT: the oldest Limit jobs of S
Oldest(S) == {j \in S : Cardinality({i \in S : i < j}) < Limit}

CheckinSelect ==
    /\ checkin = "select"
    /\ checkin' = "mark" /\ todo' = Oldest(WithStatus("queued"))
    /\ UNCHANGED <<status, stamps, expired, fixed, results, server, told, report, out,
                   request, agent, faults, runs, lostUpdate>>

\* MUTANT of CheckinMark: the dispatch time is not written.
CheckinMarkNoTime(j) ==
    /\ checkin = "mark" /\ j \in todo /\ \A i \in todo : j <= i
    /\ NoFault /\ Overwrite(j, "dispatched", "queued")
    /\ todo' = todo \ {j} /\ out' = out \cup {j}
    /\ UNCHANGED <<stamps, fixed, results, server, checkin, told, report, request, agent,
                   runs>>

\* one UPDATE per fetched job, oldest first; on error the job is left out
CheckinMark(j) ==
    /\ checkin = "mark" /\ j \in todo /\ \A i \in todo : j <= i
    /\ todo' = todo \ {j}
    /\ \/ /\ NoFault
          /\ Overwrite(j, "dispatched", "queued")
          /\ dispatchedAt' = dispatchedAt \cup {j}
          /\ out' = out \cup {j}
       \/ /\ Fault
          /\ UNCHANGED <<status, dispatchedAt, expired, out, lostUpdate>>
    /\ UNCHANGED <<acknowledgedAt, fixed, results, server, checkin, told, report, request,
                   agent, runs>>

\* the reply has reached the agent
Replied == checkin \in {"mark", "deliver"} /\ todo = {}

\* Poller.checkin hands a job of the reply to Executor.HandleJob: a goroutine
HandleJob(t, j) ==
    /\ Replied /\ j \in out /\ \A i \in out : j <= i
    /\ pc[t] = "idle"
    /\ pc' = [pc EXCEPT ![t] = "gate"]
    /\ on' = [on EXCEPT ![t] = j]
    /\ checkin' = "deliver" /\ out' = out \ {j}
    /\ UNCHANGED <<status, stamps, expired, fixed, results, server, told, report, todo, seen,
                   outcome, agent, faults, runs, lostUpdate>>

PollEnds == checkin' = "idle" /\ told' = "off" /\ report' = NoJob /\ todo' = {} /\ out' = {}

CheckinDone ==
    /\ Replied /\ out = {}
    /\ PollEnds
    /\ UNCHANGED <<status, stamps, expired, fixed, results, server, request, agent, faults,
                   runs, lostUpdate>>

\* an error return of the handler, or its reply lost
CheckinFail ==
    /\ checkin \notin {"idle", "deliver"} /\ Fault
    /\ PollEnds
    /\ UNCHANGED <<status, stamps, expired, fixed, results, server, request, agent, runs,
                   lostUpdate>>

-----------------------------------------------------------------------------
(* Executor.runJob with AgentJobsHandler.Acknowledge and SubmitResult *)

Goto(p, l) == pc' = [pc EXCEPT ![p] = l]

\* the request or goroutine ends
End(p) ==
    /\ Goto(p, "idle")
    /\ on' = [on EXCEPT ![p] = NoJob]
    /\ seen' = [seen EXCEPT ![p] = "absent"]
    /\ outcome' = [t \in Task |-> IF t = p THEN "failed" ELSE outcome[t]]

\* ... without touching a row: an early return or a refusal
Refuse(p) ==
    /\ End(p)
    /\ UNCHANGED <<status, stamps, expired, fixed, results, server, poll, agent, faults, runs,
                   lostUpdate>>

\* CDM gate; a held job stays dispatched
Gate(t) ==
    /\ pc[t] = "gate"
    /\ \/ cdm = "hold" /\ Refuse(t)
       \/ /\ cdm # "hold"
          /\ Goto(t, "ackRead")
          /\ UNCHANGED <<status, stamps, expired, fixed, results, server, poll, on, seen,
                         outcome, agent, faults, runs, lostUpdate>>

\* SELECT status and a check of it; a refused request ends
Select(p, from, ok, to) ==
    /\ pc[p] = from
    /\ \/ ~ok /\ Refuse(p)
       \/ /\ ok
          /\ Goto(p, to)
          /\ seen' = [seen EXCEPT ![p] = status[on[p]]]
          /\ UNCHANGED <<status, stamps, expired, fixed, results, server, poll, on, outcome,
                         agent, faults, runs, lostUpdate>>

\* MUTANT of AckRead: an acknowledged job is acknowledged again.
AckReadTwice(t) ==
    Select(t, "ackRead",
           Authenticated /\ status[on[t]] \in {"dispatched", "acknowledged"}, "ackWrite")

AckRead(t) ==
    Select(t, "ackRead",
           Authenticated /\ ValidateTransition(status[on[t]], "acknowledged"), "ackWrite")

AckWrite(t) ==
    /\ pc[t] = "ackWrite"
    /\ Overwrite(on[t], "acknowledged", seen[t])
    /\ acknowledgedAt' = acknowledgedAt \cup {on[t]}
    /\ Goto(t, "acked")
    /\ UNCHANGED <<dispatchedAt, fixed, results, server, poll, on, seen, outcome,
                   agent, faults, runs>>

\* MUTANT of Execute: the goroutine goes on although the acknowledgement failed.
ExecuteAnyway(t) ==
    /\ pc[t] \in {"ackRead", "acked"}
    /\ runs' = [runs EXCEPT ![on[t]] = IF @ < 2 THEN @ + 1 ELSE @]
    /\ \E o \in Outcomes : outcome' = [outcome EXCEPT ![t] = o]
    /\ Goto(t, "resRead")
    /\ UNCHANGED <<status, stamps, expired, fixed, results, server, poll, on, seen, agent,
                   faults, lostUpdate>>

Execute(t) ==
    /\ pc[t] = "acked"
    /\ runs' = [runs EXCEPT ![on[t]] = IF @ < 2 THEN @ + 1 ELSE @]
    /\ \E o \in Outcomes : outcome' = [outcome EXCEPT ![t] = o]
    /\ Goto(t, "resRead")
    /\ UNCHANGED <<status, stamps, expired, fixed, results, server, poll, on, seen, agent,
                   faults, lostUpdate>>

\* a result is taken from acknowledged as from running
ResultState(s) == IF s = "acknowledged" THEN "running" ELSE s

\* MUTANT of ResultRead: the submitted status is neither mapped nor validated.
ResultReadUnchecked(t) == Select(t, "resRead", Authenticated, "resInsert")

ResultRead(t) ==
    Select(t, "resRead",
           /\ Authenticated /\ outcome[t] # "restarting"
           /\ ValidateTransition(ResultState(status[on[t]]), outcome[t]), "resInsert")

\* MUTANT of ResultInsert: the job row is updated and the result row forgotten.
ResultInsertSkipped(t) ==
    /\ pc[t] = "resInsert"
    /\ Goto(t, "resUpdate")
    /\ UNCHANGED <<status, stamps, expired, fixed, results, server, poll, on, seen, outcome,
                   agent, faults, runs, lostUpdate>>

ResultInsert(t) ==
    /\ pc[t] = "resInsert"
    /\ results' = results \cup {on[t]}
    /\ Goto(t, "resUpdate")
    /\ UNCHANGED <<status, stamps, expired, fixed, server, poll, on, seen, outcome, agent,
                   faults, runs, lostUpdate>>

ResultUpdate(t) ==
    /\ pc[t] = "resUpdate"
    /\ Overwrite(on[t], outcome[t], seen[t])
    /\ IF ShouldRetry(outcome[t], retryCount[on[t]], maxRetries[on[t]])
          THEN Goto(t, "resRetry") /\ UNCHANGED <<on, seen, outcome>>
          ELSE End(t)
    /\ UNCHANGED <<stamps, fixed, results, server, poll, agent, faults, runs>>

\* MUTANT of ResultRetry: the INSERT is issued again when its reply is lost.
ResultRetryAgain(t) ==
    /\ pc[t] = "resRetry"
    /\ \/ /\ \E j \in Job :
                Insert(j, retryCount[on[t]] + 1, maxRetries[on[t]], on[t])
          /\ End(t) \/ UNCHANGED request
          /\ UNCHANGED <<stamps, expired, manual, results, server, poll, agent, faults, runs,
                         lostUpdate>>
       \/ (\A j \in Job : ~NextID(j)) /\ Refuse(t)

\* createRetryJob; its errors (here also a full table) are only logged
ResultRetry(t) ==
    /\ pc[t] = "resRetry"
    /\ \/ /\ \E j \in Job :
                Insert(j, retryCount[on[t]] + 1, maxRetries[on[t]], on[t])
          /\ End(t)
          /\ UNCHANGED <<stamps, expired, manual, results, server, poll, agent, faults, runs,
                         lostUpdate>>
       \/ (\A j \in Job : ~NextID(j)) /\ Refuse(t)

\* a failed statement, a lost request or reply: the caller only logs it
RequestFail(p) ==
    /\ pc[p] \notin {"idle", "gate"} /\ Fault
    /\ End(p)
    /\ UNCHANGED <<status, stamps, expired, fixed, results, server, poll, agent, runs, lostUpdate>>

-----------------------------------------------------------------------------
(* Operators: JobsHandler.Create, Cancel and Retry, DevicesHandler.Revoke *)

Originals == {j \in Job : status[j] # "absent" /\ parent[j] = NoJob}

Create(j, max) ==
    /\ Cardinality(Originals) < MaxCreated
    /\ Insert(j, 0, max, NoJob)
    /\ UNCHANGED <<stamps, expired, manual, results, server, poll, request, agent, faults,
                   runs, lostUpdate>>

\* a request about a job whose SELECT shows a suitable status; any other is
\* refused with 409 and changes nothing
OperatorRead(p, j, ok, to) ==
    /\ pc[p] = "idle" /\ ok
    /\ Goto(p, to)
    /\ on' = [on EXCEPT ![p] = j]
    /\ seen' = [seen EXCEPT ![p] = status[j]]
    /\ UNCHANGED <<status, stamps, expired, fixed, results, server, poll, outcome, agent,
                   faults, runs, lostUpdate>>

CancelRead(p, j) == OperatorRead(p, j, IsCancellable(status[j]), "cancelWrite")

CancelWrite(p) ==
    /\ pc[p] = "cancelWrite"
    /\ Overwrite(on[p], "cancelled", seen[p])
    /\ End(p)
    /\ UNCHANGED <<stamps, fixed, results, server, poll, agent, faults, runs>>

RetryRead(p, j) == OperatorRead(p, j, IsRetryable(status[j]), "retryInsert")

\* the tenant's quota may refuse the new job; max_retries is not consulted
RetryInsert(p) ==
    /\ pc[p] = "retryInsert"
    /\ \/ /\ \E j \in Job :
                /\ Insert(j, retryCount[on[p]] + 1, maxRetries[on[p]], on[p])
                /\ manual' = manual \cup {j}
          /\ End(p)
          /\ UNCHANGED <<stamps, expired, results, server, poll, agent, faults, runs,
                         lostUpdate>>
       \/ Refuse(p)

\* Store.RevokeDevice, one transaction; held jobs are not among the cancelled
Revoke(p) ==
    /\ pc[p] = "idle"
    /\ device' = "revoked" /\ cert' = "revoked"
    /\ UpdateWhere({j \in Job : status[j] \in {"pending", "queued", "dispatched"}},
                   "cancelled")
    /\ UNCHANGED <<stamps, fixed, results, poll, request, agent, faults, runs,
                   lostUpdate>>

-----------------------------------------------------------------------------
(* Scheduler: the statements of a tick commit one by one, and a failed one  *)
(* does not keep the tick from the next, so they are separate actions.      *)

reapStuckDispatchedJobs ==
    /\ StaleDispatched # {} /\ RequeueStale
    /\ UNCHANGED <<fixed, results, server, poll, request, agent, faults, runs,
                   lostUpdate>>

\* MUTANT of StuckInflight: unacknowledged jobs are timed out as well.
StuckInflightWide == {j \in Job : \/ j \in StaleDispatched
                                  \/ /\ status[j] \in {"acknowledged", "running"}
                                     /\ j \in acknowledgedAt \cap expired}

StuckInflight == {j \in Job : /\ status[j] \in {"acknowledged", "running"}
                              /\ j \in acknowledgedAt \cap expired}

reapStuckInflightJobs ==
    /\ StuckInflight # {} /\ UpdateWhere(StuckInflight, "timed_out")
    /\ UNCHANGED <<stamps, fixed, results, server, poll, request, agent, faults,
                   runs, lostUpdate>>

\* time passes the cutoff that some statement compares a timestamp with
Expires(j) ==
    /\ status[j] \in {"dispatched", "acknowledged"} /\ j \notin expired
    /\ expired' = expired \cup {j}
    /\ UNCHANGED <<status, dispatchedAt, acknowledgedAt, fixed, results, server,
                   poll, request, agent, faults, runs, lostUpdate>>

-----------------------------------------------------------------------------
(* The agent process *)

\* the local user enables or disables CDM, grants or revokes a session, or the
\* session expires
CdmChange(m) ==
    /\ m \in Modes
    /\ <<cdm, m>> \in {<<"off", "hold">>, <<"hold", "session">>, <<"session", "hold">>,
                       <<"hold", "off">>, <<"session", "off">>}
    /\ cdm' = m
    /\ UNCHANGED <<status, stamps, expired, fixed, results, server, poll, request, reported,
                   faults, runs, lostUpdate>>

\* the goroutine that copies the CDM state to the poller every second
FeedCdmState ==
    /\ reported # cdm /\ reported' = cdm
    /\ UNCHANGED <<status, stamps, expired, fixed, results, server, poll, request, cdm, faults,
                   runs, lostUpdate>>

\* the process dies: goroutines and the poller's copy are lost, CDM is on disk
AgentRestart ==
    /\ Fault
    /\ PollEnds /\ reported' = "off"
    /\ pc' = [p \in Proc |-> IF p \in Task THEN "idle" ELSE pc[p]]
    /\ on' = [p \in Proc |-> IF p \in Task THEN NoJob ELSE on[p]]
    /\ seen' = [p \in Proc |-> IF p \in Task THEN "absent" ELSE seen[p]]
    /\ outcome' = [t \in Task |-> "failed"]
    /\ UNCHANGED <<status, stamps, expired, fixed, results, server, cdm, runs, lostUpdate>>

-----------------------------------------------------------------------------
Checkin ==
    \/ CheckinStart \/ CheckinDevice \/ CheckinReport \/ CheckinRequeue
    \/ CheckinHold \/ CheckinRelease \/ CheckinSelect
    \/ \E j \in Job : CheckinMark(j)
    \/ \E t \in Task, j \in Job : HandleJob(t, j)
    \/ CheckinDone

RunJob(t) ==
    \/ Gate(t) \/ AckRead(t) \/ AckWrite(t) \/ Execute(t)
    \/ ResultRead(t) \/ ResultInsert(t) \/ ResultUpdate(t) \/ ResultRetry(t)

Operate(p) ==
    \/ \E j \in Job : CancelRead(p, j) \/ RetryRead(p, j)
    \/ CancelWrite(p) \/ RetryInsert(p) \/ Revoke(p)

Reap == reapStuckDispatchedJobs \/ reapStuckInflightJobs

Next ==
    \/ Checkin
    \/ \E t \in Task : RunJob(t)
    \/ \E j \in Job, max \in 0..MaxRetries : Create(j, max)
    \/ \E p \in Operator : Operate(p)
    \/ Reap
    \/ \E j \in Job : Expires(j)
    \/ \E m \in CdmModes : CdmChange(m)
    \/ FeedCdmState
    \/ CheckinFail
    \/ \E p \in Proc : RequestFail(p)
    \/ AgentRestart

Spec == Init /\ [][Next]_vars

\* The poller loops, goroutines run, the scheduler ticks and time passes.
\* Nothing makes operators act, CDM change or faults happen.
Fairness ==
    /\ WF_vars(Checkin) /\ WF_vars(FeedCdmState)
    /\ WF_vars(reapStuckDispatchedJobs) /\ WF_vars(reapStuckInflightJobs)
    /\ \A j \in Job : WF_vars(Expires(j))
    /\ \A t \in Task : WF_vars(RunJob(t))

FairSpec == Spec /\ Fairness

-----------------------------------------------------------------------------
(* Safety *)

\* The reaper and the check-in compare dispatched_at and acknowledged_at with a
\* cutoff, and NULL is below no cutoff: whatever path a job took into dispatched
\* or acknowledged, its timestamp is set, so it can always be reaped.
Reapable ==
    \A j \in Job :
        /\ status[j] = "dispatched" => j \in dispatchedAt
        /\ status[j] = "acknowledged" => j \in acknowledgedAt

\* The executor runs a job only after the server recorded its acknowledgement:
\* a refused or failed acknowledge call ends runJob.
RunsAreAcknowledged ==
    \A j \in Job : runs[j] > 0 => j \in acknowledgedAt

\* SubmitResult stores the result row before it completes the job, so a handler
\* that stops between its statements never leaves a completed job without one.
CompletedHasResult ==
    \A j \in Job : status[j] = "completed" => j \in results

\* Automatic retries stay within max_retries along every chain of retries, also
\* when operators retry by hand in between; only a manual retry goes beyond.
RetryWithinBudget ==
    \A j \in Job : retryCount[j] <= maxRetries[j] \/ j \in manual

\* The acknowledgement decides who runs a job that was dispatched again while an
\* earlier goroutine still held it: no job runs twice, unless some handler's
\* UPDATE overwrote a status that had changed since its SELECT.
AtMostOnceUnlessOverwritten ==
    \A j \in Job : runs[j] > 1 => j \in lostUpdate

\* SubmitResult creates one retry job for a job at most, under the same proviso.
AutoRetries(j) == {i \in Job : parent[i] = j /\ i \notin manual}

OneAutoRetryUnlessOverwritten ==
    \A j \in Job : \A i1, i2 \in AutoRetries(j) : i1 = i2 \/ j \in lostUpdate

\* A status moves along the table of state.go (acknowledged counting as running),
\* from cdm_hold back to queued, or to failed by an update report, as long as no
\* stale UPDATE overwrote it: lost updates are the only source of other moves.
Moves(s, u) ==
    \/ ValidateTransition(s, u) \/ ValidateTransition(ResultState(s), u)
    \/ <<s, u>> \in {<<"absent", "queued">>, <<"cdm_hold", "queued">>}

FollowsStateMachine ==
    [][\A j \in Job : \/ status'[j] = status[j]
                      \/ Moves(status[j], status'[j])
                      \/ j = report /\ status'[j] = "failed"
                      \/ j \in lostUpdate']_vars

\* "terminal states are final": no job leaves a terminal status.
TerminalStatesAreFinal ==
    [][\A j \in Job : IsTerminalStatus(status[j]) => status'[j] = status[j]]_vars

\* "Any remaining DISPATCHED jobs requeue to CDM_HOLD" when a check-in reports
\* that the session is over.
HoldLeavesNothingDispatched ==
    [][CheckinHold => \A j \in Job : status'[j] # "dispatched"]_vars

\* "Device record is marked revoked": a revoked device is not marked online again.
RevokedStaysRevoked == [][device = "revoked" => device' = "revoked"]_vars

-----------------------------------------------------------------------------
(* What makes the invariants inductive *)

\* Requests and replies are about rows that exist; an unused id has no history.
RowsExist ==
    /\ \A p \in Proc : pc[p] # "idle" => status[on[p]] # "absent"
    /\ \A j \in todo \cup out : status[j] # "absent"
    /\ \A j \in Job : status[j] = "absent" => parent[j] = NoJob /\ j \notin manual

\* A handler about to write saw a status from which its write is a legal move.
ReadsAllowWrites ==
    /\ \A t \in Task :
          /\ pc[t] = "ackWrite" => seen[t] = "dispatched"
          /\ pc[t] \in {"resInsert", "resUpdate"} =>
                /\ seen[t] \in {"acknowledged", "running"}
                /\ outcome[t] \in {"completed", "failed", "timed_out"}
    /\ \A p \in Operator : pc[p] = "cancelWrite" => IsCancellable(seen[p])

\* A goroutine past the acknowledgement left it in the row, one past the result
\* row left that, and one about to retry has a retry left.
Progress ==
    \A t \in Task :
        /\ pc[t] \in RunPCs => on[t] \in acknowledgedAt
        /\ pc[t] = "resUpdate" => on[t] \in results
        /\ pc[t] = "resRetry" => retryCount[on[t]] < maxRetries[on[t]]

\* The job is not yet acknowledged, or not yet over.
Unacked == {"absent", "pending", "queued", "cdm_hold", "dispatched"}
Open == Unacked \cup {"acknowledged", "running"}

\* Unless j's status was overwritten, one goroutine at most is past j's
\* acknowledgement, and none is while j can still be acknowledged.
OneRunner(j) ==
    /\ \A t \in Task : on[t] = j /\ pc[t] \in RunPCs => status[j] \notin Unacked
    /\ \A t1, t2 \in Task : on[t1] = j /\ on[t2] = j /\ pc[t1] \in RunPCs /\ pc[t2] \in RunPCs
                                => t1 = t2
    /\ \A t \in Task : on[t] = j /\ pc[t] = "acked" => runs[j] = 0
    /\ status[j] \in Unacked => runs[j] = 0
    /\ runs[j] <= 1

\* Likewise one goroutine at most gets to retry j, after which j is over.
OneRetrier(j) ==
    /\ \A t \in Task : on[t] = j /\ pc[t] = "resRetry" =>
          status[j] \notin Open /\ AutoRetries(j) = {}
    /\ status[j] \in Open => AutoRetries(j) = {}
    /\ \A i1, i2 \in AutoRetries(j) : i1 = i2

Ownership == \A j \in Job : j \notin lostUpdate => OneRunner(j) /\ OneRetrier(j)

-----------------------------------------------------------------------------
(* Liveness *)

Finished(j) == IsTerminalStatus(status[j])

\* The cutoff for an acknowledgement is 60 s or more: from some point on it does
\* not pass between the mark of a job and the agent's acknowledge call for it.
AckPending(j) == j \in out \/ \E t \in Task : on[t] = j /\ pc[t] \in AckPCs

Timely == <>[][\A j \in Job : AckPending(j) /\ j \in expired' => j \in expired]_vars

\* While a session stays open and the device is not revoked, every job ends: lost
\* dispatches are requeued, lost acknowledgements and results are timed out.
SessionDrains ==
    Timely /\ <>[](cdm = "session") /\ [](cert = "valid")
        => \A j \in Job : status[j] # "absent" ~> Finished(j)

\* "CDM disabled: Jobs dispatched normally": likewise once CDM stays disabled.
DisabledDrains ==
    Timely /\ <>[](cdm = "off") /\ [](cert = "valid")
        => \A j \in Job : status[j] # "absent" ~> Finished(j)

\* "TIMED_OUT -> (retry policy) -> QUEUED": a timed-out job with retries left
\* gets a retry job.
TimedOutIsRetried ==
    \A j \in Job :
        status[j] = "timed_out" /\ retryCount[j] < maxRetries[j]
            ~> AutoRetries(j) # {} \/ status[j] # "timed_out"

=============================================================================
