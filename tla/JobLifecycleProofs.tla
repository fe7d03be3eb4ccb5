--------------------------- MODULE JobLifecycleProofs ---------------------------
(***************************************************************************)
(* Proofs about JobLifecycle, for any number of jobs, goroutines, operator *)
(* requests, retries and faults.  The invariants of JobLifecycle become    *)
(* inductive together with four facts.  Requests refer to rows that exist  *)
(* (RowsExist) and what a handler read allows what it is about to write    *)
(* (ReadsAllowWrites), which is what keeps the outcome "restarting" of an  *)
(* agent update out of table jobs; a handler that is this far has got      *)
(* there through the steps before (Progress); and who may still run or     *)
(* retry a job whose status nobody overwrote (Ownership).                  *)
(***************************************************************************)
EXTENDS JobLifecycle, TLAPS

-----------------------------------------------------------------------------
(* The statements the actions are made of *)

\* The statuses, modes and labels that the actions write belong to their sets.
LEMMA Names ==
  /\ {"queued", "cdm_hold", "dispatched", "acknowledged", "completed", "failed",
      "timed_out", "cancelled"} \subseteq Statuses
  /\ {"gate", "ackRead", "ackWrite", "acked", "resRead", "resInsert", "resUpdate",
      "resRetry"} \subseteq TaskPCs \ {"idle"}
  /\ "idle" \in TaskPCs \cap OperatorPCs
  /\ {"cancelWrite", "retryInsert"} \subseteq OperatorPCs
  /\ {"idle", "device", "report", "requeue", "fetch", "select", "mark",
      "deliver"} \subseteq PollPCs
  /\ "off" \in CdmModes
BY Zenon DEF Statuses, TaskPCs, AckPCs, RunPCs, OperatorPCs, PollPCs, CdmModes

\* The bound on faults.
LEMMA FaultOK == AgentOK /\ Fault => faults' \in 0..MaxFaults
BY ConstantsAssumption DEF AgentOK, Fault

\* A goroutine that proceeds with its job keeps its request well-typed.
LEMMA GotoOK ==
  ASSUME RequestsOK, NEW t \in Task, NEW to \in TaskPCs, pc[t] # "idle",
         Goto(t, to), UNCHANGED <<on, seen, outcome>>
  PROVE  RequestsOK'
BY ConstantsAssumption, Zenon DEF RequestsOK, Goto, Proc

\* The end of a request leaves well-typed requests.
LEMMA EndOK ==
  ASSUME RequestsOK, NEW p \in Proc, End(p)
  PROVE  RequestsOK'
BY Names, Zenon DEF RequestsOK, End, Goto, Proc

\* A refused request changes nothing else.
LEMMA RefuseOK ==
  ASSUME TypeOK, NEW p \in Proc, Refuse(p)
  PROVE  TypeOK'
<1>1. RequestsOK'
  BY EndOK, Zenon DEF Refuse, TypeOK
<1>2. RowsOK' /\ PollOK'
  BY Zenon DEF Refuse, TypeOK, RowsOK, PollOK, stamps, fixed, server, poll
<1>3. AgentOK'
  BY Zenon DEF Refuse, TypeOK, AgentOK, fixed, agent
<1> QED BY <1>1, <1>2, <1>3, Zenon DEF TypeOK

\* A SELECT keeps the types, whatever condition it checks.
LEMMA SelectOK ==
  ASSUME TypeOK, NEW t \in Task, NEW from \in TaskPCs \ {"idle"}, NEW ok,
         NEW to \in TaskPCs, Select(t, from, ok, to)
  PROVE  TypeOK'
<1>1. CASE Refuse(t)
  BY <1>1, RefuseOK, Zenon DEF Proc
<1>2. CASE ~Refuse(t)
  <2>1. /\ pc' = [pc EXCEPT ![t] = to] /\ seen' = [seen EXCEPT ![t] = status[on[t]]]
        /\ pc[t] # "idle"
        /\ UNCHANGED <<status, stamps, expired, fixed, results, server, poll, on, outcome,
                       agent, faults, runs, lostUpdate>>
    BY <1>2, Zenon DEF Select, Goto
  <2>2. RowsOK' /\ PollOK'
    BY <2>1, Zenon DEF TypeOK, RowsOK, PollOK, stamps, fixed, server, poll
  <2>3. RequestsOK'
    BY <2>1, ConstantsAssumption, Zenon
    DEF TypeOK, RowsOK, RequestsOK, Proc
  <2>4. AgentOK'
    BY <2>1, Zenon DEF TypeOK, AgentOK, fixed, agent
  <2> QED BY <2>2, <2>3, <2>4, Zenon DEF TypeOK
<1> QED BY <1>1, <1>2, Zenon

\* An UPDATE by id keeps the types.
LEMMA OverwriteOK ==
  ASSUME TypeOK, NEW j \in Job, NEW s \in Statuses, NEW read, Overwrite(j, s, read)
  PROVE  /\ status' \in [Job -> Statuses \cup {"absent"}]
         /\ expired' \subseteq Job /\ lostUpdate' \subseteq Job
BY Zenon DEF TypeOK, RowsOK, AgentOK, Overwrite

\* An INSERT keeps the types.
LEMMA InsertOK ==
  ASSUME RowsOK, NEW j \in Job, NEW count \in Nat, NEW max \in 0..MaxRetries,
         NEW from \in Job \cup {NoJob}, Insert(j, count, max, from),
         UNCHANGED <<stamps, expired, results, server>>
  PROVE  RowsOK'
BY Names, Zenon DEF RowsOK, Insert, stamps, server

-----------------------------------------------------------------------------
\* Every step keeps the types.
LEMMA TypeStep == TypeOK /\ ReadsAllowWrites /\ [Next]_vars => TypeOK'
<1> SUFFICES ASSUME TypeOK, ReadsAllowWrites, [Next]_vars PROVE TypeOK'
  BY Zenon
<1> USE DEF TypeOK, stamps, fixed, server, poll, request, agent
<1>1. CASE CheckinStart
  <2>1. PollOK'
    BY <1>1, ConstantsAssumption, Names, Zenon DEF CheckinStart, PollOK, AgentOK
  <2>2. RowsOK' /\ RequestsOK' /\ AgentOK'
    BY <1>1, Zenon DEF CheckinStart, RowsOK, RequestsOK, AgentOK
  <2> QED BY <2>1, <2>2, Zenon
<1>2. CASE CheckinDevice
  <2>1. RowsOK'
    BY <1>2, Zenon DEF CheckinDevice, RowsOK
  <2>2. PollOK'
    BY <1>2, Names, Zenon DEF CheckinDevice, PollOK
  <2>3. RequestsOK' /\ AgentOK'
    BY <1>2, Zenon DEF CheckinDevice, RequestsOK, AgentOK
  <2> QED BY <2>1, <2>2, <2>3, Zenon
<1>3. CASE CheckinReport
  <2>1. RowsOK'
    BY <1>3, Names DEF CheckinReport, UpdateWhere, RowsOK
  <2>2. PollOK'
    BY <1>3, Names, Zenon DEF CheckinReport, PollOK
  <2>3. AgentOK'
    BY <1>3, FaultOK, Zenon DEF CheckinReport, NoFault, AgentOK
  <2>4. RequestsOK'
    BY <1>3, Zenon DEF CheckinReport, RequestsOK
  <2> QED BY <2>1, <2>2, <2>3, <2>4, Zenon
<1>4. CASE CheckinRequeue
  <2>1. RowsOK'
    BY <1>4, Names DEF CheckinRequeue, RequeueStale, UpdateWhere, RowsOK
  <2>2. PollOK'
    BY <1>4, Names, Zenon DEF CheckinRequeue, PollOK
  <2>3. AgentOK'
    BY <1>4, FaultOK, Zenon DEF CheckinRequeue, NoFault, AgentOK
  <2>4. RequestsOK'
    BY <1>4, Zenon DEF CheckinRequeue, RequestsOK
  <2> QED BY <2>1, <2>2, <2>3, <2>4, Zenon
<1>5. CASE CheckinHold
  <2>1. RowsOK'
    BY <1>5, Names, Zenon DEF CheckinHold, UpdateWhere, RowsOK
  <2>2. PollOK'
    BY <1>5, Names, Zenon DEF CheckinHold, PollOK
  <2>3. RequestsOK' /\ AgentOK'
    BY <1>5, Zenon DEF CheckinHold, RequestsOK, AgentOK
  <2> QED BY <2>1, <2>2, <2>3, Zenon
<1>6. CASE CheckinRelease
  <2>1. RowsOK'
    BY <1>6, Names DEF CheckinRelease, UpdateWhere, RowsOK
  <2>2. PollOK'
    BY <1>6, Names, Zenon DEF CheckinRelease, PollOK
  <2>3. AgentOK'
    BY <1>6, FaultOK, Zenon DEF CheckinRelease, NoFault, AgentOK
  <2>4. RequestsOK'
    BY <1>6, Zenon DEF CheckinRelease, RequestsOK
  <2> QED BY <2>1, <2>2, <2>3, <2>4, Zenon
<1>7. CASE CheckinSelect
  <2>1. PollOK'
    BY <1>7, Names, Zenon DEF CheckinSelect, Oldest, WithStatus, PollOK
  <2>2. RowsOK' /\ RequestsOK' /\ AgentOK'
    BY <1>7, Zenon DEF CheckinSelect, RowsOK, RequestsOK, AgentOK
  <2> QED BY <2>1, <2>2, Zenon
<1>8. ASSUME NEW j \in Job, CheckinMark(j) PROVE TypeOK'
  <2>1. CASE NoFault /\ Overwrite(j, "dispatched", "queued")
    BY <1>8, <2>1, Names, OverwriteOK, Zenon DEF CheckinMark, NoFault, RowsOK, PollOK,
       RequestsOK, AgentOK
  <2>2. CASE Fault /\ UNCHANGED <<status, dispatchedAt, expired, out, lostUpdate>>
    BY <1>8, <2>2, FaultOK, Zenon DEF CheckinMark, RowsOK, PollOK, RequestsOK, AgentOK
  <2> QED BY <1>8, <2>1, <2>2, Zenon DEF CheckinMark
<1>9. ASSUME NEW t \in Task, NEW j \in Job, HandleJob(t, j) PROVE TypeOK'
  <2>1. PollOK'
    BY <1>9, Names, Zenon DEF HandleJob, PollOK
  <2>2. RequestsOK'
    BY <1>9, Names, ConstantsAssumption, Zenon DEF HandleJob, RequestsOK, Proc
  <2>3. RowsOK' /\ AgentOK'
    BY <1>9, Zenon DEF HandleJob, RowsOK, AgentOK
  <2> QED BY <2>1, <2>2, <2>3, Zenon
<1>10. CASE CheckinDone
  <2>1. PollOK'
    BY <1>10, Names, Zenon DEF CheckinDone, PollEnds, PollOK, NoJob
  <2>2. RowsOK' /\ RequestsOK' /\ AgentOK'
    BY <1>10, Zenon DEF CheckinDone, RowsOK, RequestsOK, AgentOK
  <2> QED BY <2>1, <2>2, Zenon
<1>11. ASSUME NEW t \in Task, Gate(t) PROVE TypeOK'
  <2>1. CASE Refuse(t)
    BY <2>1, RefuseOK, Zenon DEF Proc
  <2>2. CASE ~Refuse(t)
    <3>1. RequestsOK'
      BY <1>11, <2>2, GotoOK, Names, Zenon DEF Gate
    <3>2. RowsOK' /\ PollOK' /\ AgentOK'
      BY <1>11, <2>2, Zenon DEF Gate, RowsOK, PollOK, AgentOK
    <3> QED BY <3>1, <3>2, Zenon
  <2> QED BY <2>1, <2>2, Zenon
<1>12. ASSUME NEW t \in Task, AckRead(t) PROVE TypeOK'
  BY <1>12, SelectOK, Names, Zenon DEF AckRead
<1>13. ASSUME NEW t \in Task, AckWrite(t) PROVE TypeOK'
  <2>1. on[t] \in Job /\ t \in Proc
    BY <1>13, Names, Zenon DEF AckWrite, RequestsOK, Proc
  <2>2. Overwrite(on[t], "acknowledged", seen[t])
    BY <1>13, Zenon DEF AckWrite
  <2>3. RowsOK' /\ AgentOK'
    BY <1>13, <2>1, <2>2, OverwriteOK, Names, Zenon DEF AckWrite, RowsOK, AgentOK
  <2>4. RequestsOK'
    BY <1>13, GotoOK, Names, Zenon DEF AckWrite
  <2>5. PollOK'
    BY <1>13, Zenon DEF AckWrite, PollOK
  <2> QED BY <2>3, <2>4, <2>5, Zenon
<1>14. ASSUME NEW t \in Task, Execute(t) PROVE TypeOK'
  <2>1. on[t] \in Job
    BY <1>14, Zenon DEF Execute, RequestsOK, Proc
  <2>2. AgentOK'
    <3>1. \A n \in 0..2 : (IF n < 2 THEN n + 1 ELSE n) \in 0..2
      OBVIOUS
    <3> QED BY <1>14, <2>1, <3>1, Zenon DEF Execute, AgentOK
  <2>3. PICK o \in Outcomes : outcome' = [outcome EXCEPT ![t] = o]
    BY <1>14, Zenon DEF Execute
  <2>4. RequestsOK'
    BY <1>14, <2>3, Names, ConstantsAssumption DEF Execute, Goto, RequestsOK, Proc
  <2>5. RowsOK' /\ PollOK'
    BY <1>14, Zenon DEF Execute, RowsOK, PollOK
  <2> QED BY <2>2, <2>4, <2>5, Zenon
<1>15. ASSUME NEW t \in Task, ResultRead(t) PROVE TypeOK'
  BY <1>15, SelectOK, Names, Zenon DEF ResultRead
<1>16. ASSUME NEW t \in Task, ResultInsert(t) PROVE TypeOK'
  <2>1. RowsOK'
    BY <1>16, Zenon DEF ResultInsert, RowsOK, RequestsOK, Proc
  <2>2. RequestsOK'
    BY <1>16, GotoOK, Names, Zenon DEF ResultInsert
  <2>3. PollOK' /\ AgentOK'
    BY <1>16, Zenon DEF ResultInsert, PollOK, AgentOK
  <2> QED BY <2>1, <2>2, <2>3, Zenon
<1>17. ASSUME NEW t \in Task, ResultUpdate(t) PROVE TypeOK'
  <2>1. on[t] \in Job /\ outcome[t] \in Statuses
    BY <1>17, Names, Zenon DEF ResultUpdate, RequestsOK, ReadsAllowWrites, Proc
  <2>2. Overwrite(on[t], outcome[t], seen[t])
    BY <1>17, Zenon DEF ResultUpdate
  <2>3. RowsOK' /\ AgentOK'
    BY <1>17, <2>1, <2>2, OverwriteOK, Zenon DEF ResultUpdate, RowsOK, AgentOK
  <2>4. RequestsOK'
    <3>1. CASE End(t)
      BY <3>1, EndOK, Zenon DEF Proc
    <3>2. CASE Goto(t, "resRetry") /\ UNCHANGED <<on, seen, outcome>>
      BY <1>17, <3>2, GotoOK, Names, Zenon DEF ResultUpdate
    <3> QED BY <1>17, <3>1, <3>2, Zenon DEF ResultUpdate
  <2>5. PollOK'
    BY <1>17, Zenon DEF ResultUpdate, PollOK
  <2> QED BY <2>3, <2>4, <2>5, Zenon
<1>18. ASSUME NEW t \in Task, ResultRetry(t) PROVE TypeOK'
  <2>1. CASE Refuse(t)
    BY <2>1, RefuseOK, Zenon DEF Proc
  <2>2. CASE ~Refuse(t)
    <3>1. PICK j \in Job : Insert(j, retryCount[on[t]] + 1, maxRetries[on[t]], on[t])
      BY <1>18, <2>2, Zenon DEF ResultRetry
    <3>2. /\ End(t) /\ on[t] \in Job
          /\ UNCHANGED <<stamps, expired, manual, results, server, poll, agent, faults,
                         runs,
                         lostUpdate>>
      BY <1>18, <2>2, Zenon DEF ResultRetry, RequestsOK, Proc
    <3>3. retryCount[on[t]] + 1 \in Nat /\ maxRetries[on[t]] \in 0..MaxRetries
      BY <3>2 DEF RowsOK
    <3>4. RowsOK'
      BY <3>1, <3>2, <3>3, InsertOK, Zenon
    <3>5. RequestsOK'
      BY <3>2, EndOK, Zenon DEF Proc
    <3>6. PollOK' /\ AgentOK'
      BY <3>2, Zenon DEF PollOK, AgentOK
    <3> QED BY <3>4, <3>5, <3>6, Zenon
  <2> QED BY <2>1, <2>2, Zenon
<1>19. ASSUME NEW j \in Job, NEW max \in 0..MaxRetries, Create(j, max) PROVE TypeOK'
  <2>1. RowsOK'
    BY <1>19, InsertOK, Zenon DEF Create, NoJob
  <2>2. PollOK' /\ AgentOK'
    BY <1>19, Zenon DEF Create, PollOK, AgentOK
  <2>3. RequestsOK'
    BY <1>19, Zenon DEF Create, RequestsOK
  <2> QED BY <2>1, <2>2, <2>3, Zenon
<1>20. ASSUME NEW p \in Operator, NEW j \in Job, CancelRead(p, j) PROVE TypeOK'
  <2>1. RequestsOK'
    BY <1>20, Names, ConstantsAssumption DEF CancelRead, OperatorRead, Goto, RequestsOK,
       RowsOK, Proc
  <2>2. RowsOK' /\ PollOK' /\ AgentOK'
    BY <1>20, Zenon DEF CancelRead, OperatorRead, RowsOK, PollOK, AgentOK
  <2> QED BY <2>1, <2>2, Zenon
<1>21. ASSUME NEW p \in Operator, NEW j \in Job, RetryRead(p, j) PROVE TypeOK'
  <2>1. RequestsOK'
    BY <1>21, Names, ConstantsAssumption DEF RetryRead, OperatorRead, Goto, RequestsOK,
       RowsOK, Proc
  <2>2. RowsOK' /\ PollOK' /\ AgentOK'
    BY <1>21, Zenon DEF RetryRead, OperatorRead, RowsOK, PollOK, AgentOK
  <2> QED BY <2>1, <2>2, Zenon
<1>22. ASSUME NEW p \in Operator, CancelWrite(p) PROVE TypeOK'
  <2>1. on[p] \in Job
    BY <1>22, Zenon DEF CancelWrite, RequestsOK, Proc
  <2>2. Overwrite(on[p], "cancelled", seen[p])
    BY <1>22, Zenon DEF CancelWrite
  <2>3. RowsOK' /\ AgentOK'
    BY <1>22, <2>1, <2>2, OverwriteOK, Names, Zenon DEF CancelWrite, RowsOK, AgentOK
  <2>4. RequestsOK'
    BY <1>22, EndOK, Zenon DEF CancelWrite, Proc
  <2>5. PollOK'
    BY <1>22, Zenon DEF CancelWrite, PollOK
  <2> QED BY <2>3, <2>4, <2>5, Zenon
<1>23. ASSUME NEW p \in Operator, RetryInsert(p) PROVE TypeOK'
  <2>1. CASE Refuse(p)
    BY <2>1, RefuseOK, Zenon DEF Proc
  <2>2. CASE ~Refuse(p)
    <3>1. PICK j \in Job : /\ Insert(j, retryCount[on[p]] + 1, maxRetries[on[p]], on[p])
                           /\ manual' = manual \cup {j}
      BY <1>23, <2>2, Zenon DEF RetryInsert
    <3>2. /\ End(p) /\ on[p] \in Job
          /\ UNCHANGED <<stamps, expired, results, server, poll, agent, faults, runs,
                         lostUpdate>>
      BY <1>23, <2>2, Zenon DEF RetryInsert, RequestsOK, Proc
    <3>3. retryCount[on[p]] + 1 \in Nat /\ maxRetries[on[p]] \in 0..MaxRetries
      BY <3>2 DEF RowsOK
    <3>4. RowsOK'
      BY <3>1, <3>2, <3>3, InsertOK, Zenon
    <3>5. RequestsOK'
      BY <3>2, EndOK, Zenon DEF Proc
    <3>6. PollOK' /\ AgentOK'
      BY <3>1, <3>2, Zenon DEF PollOK, AgentOK
    <3> QED BY <3>4, <3>5, <3>6, Zenon
  <2> QED BY <2>1, <2>2, Zenon
<1>24. ASSUME NEW p \in Operator, Revoke(p) PROVE TypeOK'
  <2>1. RowsOK'
    BY <1>24, Names, Zenon DEF Revoke, UpdateWhere, RowsOK
  <2>2. PollOK' /\ RequestsOK' /\ AgentOK'
    BY <1>24, Zenon DEF Revoke, PollOK, RequestsOK, AgentOK
  <2> QED BY <2>1, <2>2, Zenon
<1>25. CASE reapStuckDispatchedJobs
  <2>1. RowsOK'
    BY <1>25, Names, Zenon DEF reapStuckDispatchedJobs, RequeueStale, UpdateWhere, RowsOK
  <2>2. PollOK' /\ RequestsOK' /\ AgentOK'
    BY <1>25, Zenon DEF reapStuckDispatchedJobs, PollOK, RequestsOK, AgentOK
  <2> QED BY <2>1, <2>2, Zenon
<1>26. CASE reapStuckInflightJobs
  <2>1. RowsOK'
    BY <1>26, Names, Zenon DEF reapStuckInflightJobs, UpdateWhere, RowsOK
  <2>2. PollOK' /\ RequestsOK' /\ AgentOK'
    BY <1>26, Zenon DEF reapStuckInflightJobs, PollOK, RequestsOK, AgentOK
  <2> QED BY <2>1, <2>2, Zenon
<1>27. ASSUME NEW j \in Job, Expires(j) PROVE TypeOK'
  <2>1. RowsOK'
    BY <1>27, Zenon DEF Expires, RowsOK
  <2>2. PollOK' /\ RequestsOK' /\ AgentOK'
    BY <1>27, Zenon DEF Expires, PollOK, RequestsOK, AgentOK
  <2> QED BY <2>1, <2>2, Zenon
<1>28. ASSUME NEW m \in CdmModes, CdmChange(m) PROVE TypeOK'
  <2>1. AgentOK'
    BY <1>28, Zenon DEF CdmChange, AgentOK
  <2>2. RowsOK' /\ PollOK' /\ RequestsOK'
    BY <1>28, Zenon DEF CdmChange, RowsOK, PollOK, RequestsOK
  <2> QED BY <2>1, <2>2, Zenon
<1>29. CASE FeedCdmState
  <2>1. AgentOK'
    BY <1>29, Zenon DEF FeedCdmState, AgentOK
  <2>2. RowsOK' /\ PollOK' /\ RequestsOK'
    BY <1>29, Zenon DEF FeedCdmState, RowsOK, PollOK, RequestsOK
  <2> QED BY <2>1, <2>2, Zenon
<1>30. CASE CheckinFail
  <2>1. PollOK'
    BY <1>30, Names, Zenon DEF CheckinFail, PollEnds, PollOK, NoJob
  <2>2. AgentOK'
    BY <1>30, FaultOK, Zenon DEF CheckinFail, AgentOK
  <2>3. RowsOK' /\ RequestsOK'
    BY <1>30, Zenon DEF CheckinFail, RowsOK, RequestsOK
  <2> QED BY <2>1, <2>2, <2>3, Zenon
<1>31. ASSUME NEW p \in Proc, RequestFail(p) PROVE TypeOK'
  <2>1. RequestsOK'
    BY <1>31, EndOK, Zenon DEF RequestFail
  <2>2. AgentOK'
    BY <1>31, FaultOK, Zenon DEF RequestFail, AgentOK
  <2>3. RowsOK' /\ PollOK'
    BY <1>31, Zenon DEF RequestFail, RowsOK, PollOK
  <2> QED BY <2>1, <2>2, <2>3, Zenon
<1>32. CASE AgentRestart
  <2>1. PollOK'
    BY <1>32, Names, Zenon DEF AgentRestart, PollEnds, PollOK, NoJob
  <2>2. RequestsOK'
    BY <1>32, Names, ConstantsAssumption, Zenon DEF AgentRestart, RequestsOK, Proc
  <2>3. AgentOK'
    BY <1>32, FaultOK, Names, Zenon DEF AgentRestart, AgentOK
  <2>4. RowsOK'
    BY <1>32, Zenon DEF AgentRestart, RowsOK
  <2> QED BY <2>1, <2>2, <2>3, <2>4, Zenon
<1>33. CASE UNCHANGED vars
  BY <1>33, Zenon DEF vars, RowsOK, PollOK, RequestsOK, AgentOK
<1> QED
  BY <1>1, <1>2, <1>3, <1>4, <1>5, <1>6, <1>7, <1>8, <1>9, <1>10, <1>11, <1>12, <1>13,
     <1>14, <1>15, <1>16, <1>17, <1>18, <1>19, <1>20, <1>21, <1>22, <1>23, <1>24, <1>25,
     <1>26, <1>27, <1>28, <1>29, <1>30, <1>31, <1>32, <1>33, Zenon DEF Next, Checkin, RunJob,
     Operate, Reap

-----------------------------------------------------------------------------
(* Two kinds of step that the invariants need not tell apart further *)

\* The moves a statement makes whose WHERE clause names the status.
GuardedMove(s, u) ==
    \/ <<s, u>> \in {<<"queued", "cdm_hold">>, <<"cdm_hold", "queued">>,
                     <<"dispatched", "queued">>, <<"acknowledged", "timed_out">>,
                     <<"running", "timed_out">>}
    \/ s \in {"pending", "queued", "dispatched"} /\ u = "cancelled"

\* Requests stay where they are; rows move as their status allows, or fail by
\* an update report.
Guarded ==
    /\ UNCHANGED <<request, fixed, acknowledgedAt, results, runs, lostUpdate>>
    /\ \A j \in Job :
          \/ status'[j] = status[j] /\ (j \in dispatchedAt => j \in dispatchedAt')
          \/ status'[j] = status[j] /\ status[j] # "dispatched"
          \/ GuardedMove(status[j], status'[j])
          \/ j = report /\ status[j] # "absent" /\ status'[j] = "failed"
    /\ todo' \cup out' \subseteq {j \in Job : status[j] # "absent"}

\* Some requests end, and nothing else happens.
Ends ==
    /\ UNCHANGED <<status, stamps, fixed, results, runs, lostUpdate>>
    /\ todo' \subseteq todo /\ out' \subseteq out
    /\ \A p \in Proc :
          \/ pc'[p] = "idle"
          \/ /\ pc'[p] = pc[p] /\ on'[p] = on[p] /\ seen'[p] = seen[p]
             /\ p \in Task => outcome'[p] = outcome[p]

\* A refused request ends.
LEMMA RefuseEnds ==
  ASSUME TypeOK, NEW p \in Proc, Refuse(p)
  PROVE  Ends
BY Zenon DEF TypeOK, RequestsOK, Refuse, End, Goto, Ends, Proc, stamps, fixed, poll

\* Every step is of one of the two kinds, or one of the remaining actions.
LEMMA StepKinds ==
  ASSUME TypeOK, RowsExist, [Next]_vars
  PROVE  \/ Guarded \/ Ends
         \/ \E t \in Task, j \in Job : HandleJob(t, j)
         \/ \E j \in Job : CheckinMark(j)
         \/ \E t \in Task :
               \/ (Gate(t) \/ AckRead(t) \/ ResultRead(t) \/ ResultRetry(t)) /\ ~Refuse(t)
               \/ AckWrite(t) \/ Execute(t) \/ ResultInsert(t) \/ ResultUpdate(t)
         \/ \E j \in Job, max \in 0..MaxRetries : Create(j, max)
         \/ \E p \in Operator :
               \/ \E j \in Job : CancelRead(p, j) \/ RetryRead(p, j)
               \/ CancelWrite(p) \/ (RetryInsert(p) /\ ~Refuse(p))
<1> USE DEF TypeOK, PollOK, RowsExist, Guarded, GuardedMove, stamps, fixed, server, poll,
            request, agent
<1>1. CASE CheckinStart \/ CheckinDevice \/ CheckinDone \/ CheckinFail
  BY <1>1, Zenon DEF CheckinStart, CheckinDevice, CheckinDone, CheckinFail, PollEnds
<1>2. CASE CheckinReport
  BY <1>2, Zenon DEF CheckinReport, UpdateWhere, RowsOK
<1>3. CASE CheckinRequeue
  BY <1>3, Zenon DEF CheckinRequeue, RequeueStale, StaleDispatched, WithStatus, UpdateWhere,
     RowsOK
<1>4. CASE CheckinHold
  BY <1>4, Zenon DEF CheckinHold, WithStatus, UpdateWhere, RowsOK
<1>5. CASE CheckinRelease
  BY <1>5, Zenon DEF CheckinRelease, WithStatus, UpdateWhere, RowsOK
<1>6. CASE CheckinSelect
  BY <1>6, Zenon DEF CheckinSelect, Oldest, WithStatus
<1>7. ASSUME NEW p \in Operator, Revoke(p) PROVE Guarded
  BY <1>7, Zenon DEF Revoke, UpdateWhere, RowsOK
<1>8. CASE reapStuckDispatchedJobs
  BY <1>8, Zenon DEF reapStuckDispatchedJobs, RequeueStale, StaleDispatched, WithStatus,
     UpdateWhere,
              RowsOK
<1>9. CASE reapStuckInflightJobs
  BY <1>9, Zenon DEF reapStuckInflightJobs, StuckInflight, UpdateWhere, RowsOK
<1>10. ASSUME NEW j \in Job, Expires(j) PROVE Guarded
  BY <1>10, Zenon DEF Expires
<1>11. ASSUME NEW m \in CdmModes, CdmChange(m) PROVE Guarded
  BY <1>11, Zenon DEF CdmChange
<1>12. CASE FeedCdmState
  BY <1>12, Zenon DEF FeedCdmState
<1>13. ASSUME NEW p \in Proc, RequestFail(p) PROVE Ends
  BY <1>13, Zenon DEF RequestFail, End, Goto, Ends, RequestsOK, Proc
<1>14. CASE AgentRestart
  BY <1>14, Zenon DEF AgentRestart, PollEnds, Ends, RequestsOK, Proc
<1>15. ASSUME NEW p \in Proc, Refuse(p) PROVE Ends
  BY <1>15, RefuseEnds, Zenon
<1>16. CASE UNCHANGED vars
  BY <1>16, Zenon DEF vars
<1> QED
  <2> HIDE DEF Guarded, RowsExist
  <2> QED
    BY <1>1, <1>2, <1>3, <1>4, <1>5, <1>6, <1>7, <1>8, <1>9, <1>10, <1>11, <1>12, <1>13,
       <1>14,
       <1>15, <1>16 DEF Next, Checkin, RunJob, Operate, Reap, Proc

\* Requests and replies keep referring to rows that exist.
LEMMA RowsExistStep ==
  ASSUME TypeOK, RowsExist, ReadsAllowWrites, [Next]_vars
  PROVE  RowsExist'
<1> USE ConstantsAssumption DEF TypeOK, RowsOK, PollOK, RequestsOK, AgentOK, Proc,
        stamps, fixed, poll, request, RowsExist
<1>1. CASE Guarded
  BY <1>1, Zenon DEF Guarded, GuardedMove
<1>2. CASE Ends
  BY <1>2 DEF Ends
<1>3. ASSUME NEW t \in Task, NEW j \in Job, HandleJob(t, j) PROVE RowsExist'
  BY <1>3, Zenon DEF HandleJob, Replied
<1>4. ASSUME NEW j \in Job, CheckinMark(j) PROVE RowsExist'
  BY <1>4 DEF CheckinMark, Overwrite
<1>5. ASSUME NEW t \in Task, Gate(t), ~Refuse(t) PROVE RowsExist'
  BY <1>5 DEF Gate, Goto
<1>6. ASSUME NEW t \in Task, AckRead(t), ~Refuse(t) PROVE RowsExist'
  BY <1>6, Zenon DEF AckRead, Select, Goto
<1>7. ASSUME NEW t \in Task, AckWrite(t) PROVE RowsExist'
  BY <1>7 DEF AckWrite, Overwrite, Goto
<1>8. ASSUME NEW t \in Task, Execute(t) PROVE RowsExist'
  BY <1>8, Zenon DEF Execute, Goto
<1>9. ASSUME NEW t \in Task, ResultRead(t), ~Refuse(t) PROVE RowsExist'
  BY <1>9 DEF ResultRead, Select, Goto
<1>10. ASSUME NEW t \in Task, ResultInsert(t) PROVE RowsExist'
  BY <1>10, Zenon DEF ResultInsert, Goto
<1>11. ASSUME NEW t \in Task, ResultUpdate(t) PROVE RowsExist'
  BY <1>11 DEF ResultUpdate, Overwrite, End, Goto
<1>12. ASSUME NEW t \in Task, ResultRetry(t), ~Refuse(t) PROVE RowsExist'
  BY <1>12 DEF ResultRetry, Insert, NextID, End, Goto
<1>13. ASSUME NEW j \in Job, NEW max \in 0..MaxRetries, Create(j, max) PROVE RowsExist'
  BY <1>13 DEF Create, Insert, NextID
<1>14. ASSUME NEW p \in Operator, NEW j \in Job, CancelRead(p, j) PROVE RowsExist'
  BY <1>14, Zenon DEF CancelRead, OperatorRead, Goto, IsCancellable, CancellableStatuses
<1>15. ASSUME NEW p \in Operator, NEW j \in Job, RetryRead(p, j) PROVE RowsExist'
  BY <1>15, Zenon DEF RetryRead, OperatorRead, Goto, IsRetryable
<1>16. ASSUME NEW p \in Operator, CancelWrite(p) PROVE RowsExist'
  BY <1>16 DEF CancelWrite, Overwrite, End, Goto
<1>17. ASSUME NEW p \in Operator, RetryInsert(p), ~Refuse(p) PROVE RowsExist'
  BY <1>17, SMT DEF RetryInsert, Insert, NextID, End, Goto
<1> QED
  BY <1>1, <1>2, <1>3, <1>4, <1>5, <1>6, <1>7, <1>8, <1>9, <1>10, <1>11, <1>12, <1>13,
     <1>14, <1>15, <1>16, <1>17, StepKinds, ZenonT(60)

\* What a handler saw stays with it until it writes.
LEMMA ReadsStep ==
  ASSUME TypeOK, RowsExist, ReadsAllowWrites, [Next]_vars
  PROVE  ReadsAllowWrites'
<1> USE ConstantsAssumption DEF TypeOK, RequestsOK, Proc, TaskPCs, OperatorPCs, AckPCs,
        RunPCs, request, ReadsAllowWrites, IsCancellable, CancellableStatuses
<1>1. CASE Guarded
  BY <1>1, Zenon DEF Guarded
<1>2. CASE Ends
  BY <1>2 DEF Ends
<1>3. ASSUME NEW t \in Task, NEW j \in Job, HandleJob(t, j) PROVE ReadsAllowWrites'
  BY <1>3, Zenon DEF HandleJob
<1>4. ASSUME NEW j \in Job, CheckinMark(j) PROVE ReadsAllowWrites'
  BY <1>4, Zenon DEF CheckinMark, Overwrite
<1>5. ASSUME NEW t \in Task, Gate(t), ~Refuse(t) PROVE ReadsAllowWrites'
  BY <1>5 DEF Gate, Goto
<1>6. ASSUME NEW t \in Task, AckRead(t), ~Refuse(t) PROVE ReadsAllowWrites'
  BY <1>6 DEF AckRead, Select, Goto, ValidateTransition, validTransitions
<1>7. ASSUME NEW t \in Task, AckWrite(t) PROVE ReadsAllowWrites'
  BY <1>7, Zenon DEF AckWrite, Overwrite, Goto
<1>8. ASSUME NEW t \in Task, Execute(t) PROVE ReadsAllowWrites'
  BY <1>8, Zenon DEF Execute, Goto
<1>9. ASSUME NEW t \in Task, ResultRead(t), ~Refuse(t) PROVE ReadsAllowWrites'
  BY <1>9 DEF ResultRead, Select, Goto, ValidateTransition, validTransitions, ResultState
<1>10. ASSUME NEW t \in Task, ResultInsert(t) PROVE ReadsAllowWrites'
  BY <1>10, Zenon DEF ResultInsert, Goto
<1>11. ASSUME NEW t \in Task, ResultUpdate(t) PROVE ReadsAllowWrites'
  BY <1>11 DEF ResultUpdate, Overwrite, End, Goto
<1>12. ASSUME NEW t \in Task, ResultRetry(t), ~Refuse(t) PROVE ReadsAllowWrites'
  BY <1>12 DEF ResultRetry, Insert, NextID, End, Goto
<1>13. ASSUME NEW j \in Job, NEW max \in 0..MaxRetries, Create(j,
      max) PROVE ReadsAllowWrites'
  BY <1>13, Zenon DEF Create, Insert, NextID
<1>14. ASSUME NEW p \in Operator, NEW j \in Job, CancelRead(p, j) PROVE ReadsAllowWrites'
  BY <1>14, Zenon DEF CancelRead, OperatorRead, Goto
<1>15. ASSUME NEW p \in Operator, NEW j \in Job, RetryRead(p, j) PROVE ReadsAllowWrites'
  BY <1>15, Zenon DEF RetryRead, OperatorRead, Goto
<1>16. ASSUME NEW p \in Operator, CancelWrite(p) PROVE ReadsAllowWrites'
  BY <1>16 DEF CancelWrite, Overwrite, End, Goto
<1>17. ASSUME NEW p \in Operator, RetryInsert(p), ~Refuse(p) PROVE ReadsAllowWrites'
  BY <1>17, SMT DEF RetryInsert, Insert, NextID, End, Goto
<1> QED
  BY <1>1, <1>2, <1>3, <1>4, <1>5, <1>6, <1>7, <1>8, <1>9, <1>10, <1>11, <1>12, <1>13,
     <1>14, <1>15, <1>16, <1>17, StepKinds, ZenonT(60)

-----------------------------------------------------------------------------
(* The invariants, each kept by every step *)

\* What a reader of the tables relies on.
RowsAreSound == Reapable /\ RunsAreAcknowledged /\ CompletedHasResult /\ RetryWithinBudget

\* Goroutines keep what they established.
LEMMA ProgressStep ==
  ASSUME TypeOK, RowsExist, ReadsAllowWrites, Progress, [Next]_vars
  PROVE  Progress'
<1> USE ConstantsAssumption DEF TypeOK, RowsOK, RequestsOK, AgentOK, Proc, stamps, fixed,
        request, RowsExist, Progress, AckPCs, RunPCs, TaskPCs
<1>1. CASE Guarded
  BY <1>1, Zenon DEF Guarded
<1>2. CASE Ends
  BY <1>2, Zenon DEF Ends
<1>3. ASSUME NEW t \in Task, NEW j \in Job, HandleJob(t, j) PROVE Progress'
  BY <1>3, Zenon DEF HandleJob
<1>4. ASSUME NEW j \in Job, CheckinMark(j) PROVE Progress'
  BY <1>4, Zenon DEF CheckinMark, Overwrite
<1>5. ASSUME NEW t \in Task, Gate(t), ~Refuse(t) PROVE Progress'
  BY <1>5 DEF Gate, Goto
<1>6. ASSUME NEW t \in Task, AckRead(t), ~Refuse(t) PROVE Progress'
  BY <1>6 DEF AckRead, Select, Goto
<1>7. ASSUME NEW t \in Task, AckWrite(t) PROVE Progress'
  BY <1>7, Zenon DEF AckWrite, Overwrite, Goto
<1>8. ASSUME NEW t \in Task, Execute(t) PROVE Progress'
  BY <1>8, Zenon DEF Execute, Goto
<1>9. ASSUME NEW t \in Task, ResultRead(t), ~Refuse(t) PROVE Progress'
  BY <1>9 DEF ResultRead, Select, Goto
<1>10. ASSUME NEW t \in Task, ResultInsert(t) PROVE Progress'
  BY <1>10, Zenon DEF ResultInsert, Goto
<1>11. ASSUME NEW t \in Task, ResultUpdate(t) PROVE Progress'
  BY <1>11 DEF ResultUpdate, Overwrite, End, Goto, ShouldRetry
<1>12. ASSUME NEW t \in Task, ResultRetry(t), ~Refuse(t) PROVE Progress'
  BY <1>12 DEF ResultRetry, Insert, NextID, End, Goto
<1>13. ASSUME NEW j \in Job, NEW max \in 0..MaxRetries, Create(j, max) PROVE Progress'
  BY <1>13 DEF Create, Insert, NextID
<1>14. ASSUME NEW p \in Operator, NEW j \in Job, CancelRead(p, j) PROVE Progress'
  BY <1>14, Zenon DEF CancelRead, OperatorRead, Goto
<1>15. ASSUME NEW p \in Operator, NEW j \in Job, RetryRead(p, j) PROVE Progress'
  BY <1>15, Zenon DEF RetryRead, OperatorRead, Goto
<1>16. ASSUME NEW p \in Operator, CancelWrite(p) PROVE Progress'
  BY <1>16 DEF CancelWrite, Overwrite, End, Goto
<1>17. ASSUME NEW p \in Operator, RetryInsert(p), ~Refuse(p) PROVE Progress'
  BY <1>17, SMT DEF RetryInsert, Insert, NextID, End, Goto
<1> QED
  BY <1>1, <1>2, <1>3, <1>4, <1>5, <1>6, <1>7, <1>8, <1>9, <1>10, <1>11, <1>12, <1>13,
     <1>14, <1>15, <1>16, <1>17, StepKinds, ZenonT(60)

\* The rows stay sound.
LEMMA RowsSoundStep ==
  ASSUME TypeOK, RowsExist, ReadsAllowWrites, Progress, RowsAreSound, [Next]_vars
  PROVE  RowsAreSound'
<1> USE ConstantsAssumption DEF TypeOK, RowsOK, RequestsOK, AgentOK, Proc, stamps, fixed,
        request, RowsExist, AckPCs, RunPCs, TaskPCs,
        RowsAreSound, Reapable, RunsAreAcknowledged, CompletedHasResult, RetryWithinBudget
<1>1. CASE Guarded
  BY <1>1, Zenon DEF Guarded, GuardedMove
<1>2. CASE Ends
  BY <1>2, Zenon DEF Ends
<1>3. ASSUME NEW t \in Task, NEW j \in Job, HandleJob(t, j) PROVE RowsAreSound'
  BY <1>3, Zenon DEF HandleJob
<1>4. ASSUME NEW j \in Job, CheckinMark(j) PROVE RowsAreSound'
  BY <1>4 DEF CheckinMark, Overwrite
<1>5. ASSUME NEW t \in Task, Gate(t), ~Refuse(t) PROVE RowsAreSound'
  BY <1>5, Zenon DEF Gate, Goto
<1>6. ASSUME NEW t \in Task, AckRead(t), ~Refuse(t) PROVE RowsAreSound'
  BY <1>6, Zenon DEF AckRead, Select, Goto
<1>7. ASSUME NEW t \in Task, AckWrite(t) PROVE RowsAreSound'
  BY <1>7 DEF AckWrite, Overwrite, Goto, ReadsAllowWrites
<1>8. ASSUME NEW t \in Task, Execute(t) PROVE RowsAreSound'
  BY <1>8 DEF Execute, Goto, Progress
<1>9. ASSUME NEW t \in Task, ResultRead(t), ~Refuse(t) PROVE RowsAreSound'
  BY <1>9, Zenon DEF ResultRead, Select, Goto
<1>10. ASSUME NEW t \in Task, ResultInsert(t) PROVE RowsAreSound'
  BY <1>10, Zenon DEF ResultInsert, Goto
<1>11. ASSUME NEW t \in Task, ResultUpdate(t) PROVE RowsAreSound'
  BY <1>11 DEF ResultUpdate, Overwrite, End, Goto, ReadsAllowWrites, Progress
<1>12. ASSUME NEW t \in Task, ResultRetry(t), ~Refuse(t) PROVE RowsAreSound'
  BY <1>12 DEF ResultRetry, Insert, NextID, End, Goto, Progress
<1>13. ASSUME NEW j \in Job, NEW max \in 0..MaxRetries, Create(j, max) PROVE RowsAreSound'
  BY <1>13 DEF Create, Insert, NextID
<1>14. ASSUME NEW p \in Operator, NEW j \in Job, CancelRead(p, j) PROVE RowsAreSound'
  BY <1>14, Zenon DEF CancelRead, OperatorRead, Goto
<1>15. ASSUME NEW p \in Operator, NEW j \in Job, RetryRead(p, j) PROVE RowsAreSound'
  BY <1>15, Zenon DEF RetryRead, OperatorRead, Goto
<1>16. ASSUME NEW p \in Operator, CancelWrite(p) PROVE RowsAreSound'
  BY <1>16 DEF CancelWrite, Overwrite, End, Goto
<1>17. ASSUME NEW p \in Operator, RetryInsert(p), ~Refuse(p) PROVE RowsAreSound'
  BY <1>17, SMT DEF RetryInsert, Insert, NextID, End, Goto
<1> QED
  BY <1>1, <1>2, <1>3, <1>4, <1>5, <1>6, <1>7, <1>8, <1>9, <1>10, <1>11, <1>12, <1>13,
     <1>14, <1>15, <1>16, <1>17, StepKinds, ZenonT(60)

\* A job whose status is not overwritten keeps having one runner at most.
LEMMA OneRunnerStep ==
  ASSUME TypeOK, RowsExist, ReadsAllowWrites, [Next]_vars,
         NEW k \in Job, k \notin lostUpdate => OneRunner(k), k \notin lostUpdate'
  PROVE  OneRunner(k)'
<1> USE ConstantsAssumption DEF TypeOK, RowsOK, RequestsOK, AgentOK, Proc, stamps, fixed,
        request, RowsExist, AckPCs, RunPCs, TaskPCs,
        OneRunner, Unacked
<1>1. CASE Guarded
  BY <1>1, Zenon DEF Guarded, GuardedMove
<1>2. CASE Ends
  BY <1>2 DEF Ends
<1>3. ASSUME NEW t \in Task, NEW j \in Job, HandleJob(t, j) PROVE OneRunner(k)'
  BY <1>3 DEF HandleJob
<1>4. ASSUME NEW j \in Job, CheckinMark(j) PROVE OneRunner(k)'
  BY <1>4 DEF CheckinMark, Overwrite
<1>5. ASSUME NEW t \in Task, Gate(t), ~Refuse(t) PROVE OneRunner(k)'
  BY <1>5 DEF Gate, Goto
<1>6. ASSUME NEW t \in Task, AckRead(t), ~Refuse(t) PROVE OneRunner(k)'
  BY <1>6 DEF AckRead, Select, Goto
<1>7. ASSUME NEW t \in Task, AckWrite(t) PROVE OneRunner(k)'
  BY <1>7 DEF AckWrite, Overwrite, Goto, ReadsAllowWrites
<1>8. ASSUME NEW t \in Task, Execute(t) PROVE OneRunner(k)'
  BY <1>8 DEF Execute, Goto
<1>9. ASSUME NEW t \in Task, ResultRead(t), ~Refuse(t) PROVE OneRunner(k)'
  BY <1>9 DEF ResultRead, Select, Goto
<1>10. ASSUME NEW t \in Task, ResultInsert(t) PROVE OneRunner(k)'
  BY <1>10, Zenon DEF ResultInsert, Goto
<1>11. ASSUME NEW t \in Task, ResultUpdate(t) PROVE OneRunner(k)'
  BY <1>11 DEF ResultUpdate, Overwrite, End, Goto, ReadsAllowWrites
<1>12. ASSUME NEW t \in Task, ResultRetry(t), ~Refuse(t) PROVE OneRunner(k)'
  BY <1>12 DEF ResultRetry, Insert, NextID, End, Goto
<1>13. ASSUME NEW j \in Job, NEW max \in 0..MaxRetries, Create(j, max) PROVE OneRunner(k)'
  BY <1>13 DEF Create, Insert, NextID
<1>14. ASSUME NEW p \in Operator, NEW j \in Job, CancelRead(p, j) PROVE OneRunner(k)'
  BY <1>14, Zenon DEF CancelRead, OperatorRead, Goto
<1>15. ASSUME NEW p \in Operator, NEW j \in Job, RetryRead(p, j) PROVE OneRunner(k)'
  BY <1>15 DEF RetryRead, OperatorRead, Goto
<1>16. ASSUME NEW p \in Operator, CancelWrite(p) PROVE OneRunner(k)'
  BY <1>16 DEF CancelWrite, Overwrite, End, Goto
<1>17. ASSUME NEW p \in Operator, RetryInsert(p), ~Refuse(p) PROVE OneRunner(k)'
  BY <1>17, SMT DEF RetryInsert, Insert, NextID, End, Goto
<1> QED
  BY <1>1, <1>2, <1>3, <1>4, <1>5, <1>6, <1>7, <1>8, <1>9, <1>10, <1>11, <1>12, <1>13,
     <1>14, <1>15, <1>16, <1>17, StepKinds, ZenonT(60)

\* ... and is retried once at most.
LEMMA OneRetrierStep ==
  ASSUME TypeOK, RowsExist, ReadsAllowWrites, [Next]_vars, NEW k \in Job,
         k \notin lostUpdate => OneRunner(k) /\ OneRetrier(k), k \notin lostUpdate'
  PROVE  OneRetrier(k)'
<1> USE ConstantsAssumption DEF TypeOK, RowsOK, RequestsOK, AgentOK, Proc, stamps, fixed,
        request, RowsExist, AckPCs, RunPCs, TaskPCs, NoJob,
        OneRetrier, AutoRetries, Open, Unacked
<1>1. CASE Guarded
  BY <1>1 DEF Guarded, GuardedMove
<1>2. CASE Ends
  BY <1>2 DEF Ends
<1>3. ASSUME NEW t \in Task, NEW j \in Job, HandleJob(t, j) PROVE OneRetrier(k)'
  BY <1>3 DEF HandleJob
<1>4. ASSUME NEW j \in Job, CheckinMark(j) PROVE OneRetrier(k)'
  BY <1>4 DEF CheckinMark, Overwrite
<1>5. ASSUME NEW t \in Task, Gate(t), ~Refuse(t) PROVE OneRetrier(k)'
  BY <1>5 DEF Gate, Goto
<1>6. ASSUME NEW t \in Task, AckRead(t), ~Refuse(t) PROVE OneRetrier(k)'
  BY <1>6 DEF AckRead, Select, Goto
<1>7. ASSUME NEW t \in Task, AckWrite(t) PROVE OneRetrier(k)'
  BY <1>7 DEF AckWrite, Overwrite, Goto, ReadsAllowWrites
<1>8. ASSUME NEW t \in Task, Execute(t) PROVE OneRetrier(k)'
  BY <1>8 DEF Execute, Goto
<1>9. ASSUME NEW t \in Task, ResultRead(t), ~Refuse(t) PROVE OneRetrier(k)'
  BY <1>9 DEF ResultRead, Select, Goto
<1>10. ASSUME NEW t \in Task, ResultInsert(t) PROVE OneRetrier(k)'
  BY <1>10 DEF ResultInsert, Goto
<1>11. ASSUME NEW t \in Task, ResultUpdate(t) PROVE OneRetrier(k)'
  BY <1>11 DEF ResultUpdate, Overwrite, End, Goto, ReadsAllowWrites
<1>12. ASSUME NEW t \in Task, ResultRetry(t), ~Refuse(t) PROVE OneRetrier(k)'
  BY <1>12 DEF ResultRetry, Insert, NextID, End, Goto, OneRunner
<1>13. ASSUME NEW j \in Job, NEW max \in 0..MaxRetries, Create(j,
      max) PROVE OneRetrier(k)'
  BY <1>13 DEF Create, Insert, NextID
<1>14. ASSUME NEW p \in Operator, NEW j \in Job, CancelRead(p, j) PROVE OneRetrier(k)'
  BY <1>14 DEF CancelRead, OperatorRead, Goto
<1>15. ASSUME NEW p \in Operator, NEW j \in Job, RetryRead(p, j) PROVE OneRetrier(k)'
  BY <1>15 DEF RetryRead, OperatorRead, Goto
<1>16. ASSUME NEW p \in Operator, CancelWrite(p) PROVE OneRetrier(k)'
  BY <1>16 DEF CancelWrite, Overwrite, End, Goto
<1>17. ASSUME NEW p \in Operator, RetryInsert(p), ~Refuse(p) PROVE OneRetrier(k)'
  BY <1>17, SMT DEF RetryInsert, Insert, NextID, End, Goto
<1> QED
  BY <1>1, <1>2, <1>3, <1>4, <1>5, <1>6, <1>7, <1>8, <1>9, <1>10, <1>11, <1>12, <1>13,
     <1>14, <1>15, <1>16, <1>17, StepKinds, ZenonT(60)

\* The move of one job in a step that FollowsStateMachine allows.
Follows(k) == \/ status'[k] = status[k]
              \/ Moves(status[k], status'[k])
              \/ k = report /\ status'[k] = "failed"
              \/ k \in lostUpdate'

\* The moves the statements make are moves of the state machine.
LEMMA LegalMoves ==
  /\ \A s, u : GuardedMove(s, u) => Moves(s, u)
  /\ Moves("absent", "queued") /\ Moves("queued", "dispatched")
  /\ Moves("dispatched", "acknowledged")
  /\ \A s \in CancellableStatuses : Moves(s, "cancelled")
  /\ \A s \in {"acknowledged", "running"}, u \in {"completed", "failed",
        "timed_out"} : Moves(s, u)
BY DEF GuardedMove, Moves, ValidateTransition, validTransitions, ResultState,
   CancellableStatuses

\* Every step moves every job along the state machine, or overwrites it.
LEMMA FollowsStep ==
  ASSUME TypeOK, RowsExist, ReadsAllowWrites, [Next]_vars, NEW k \in Job
  PROVE  Follows(k)
<1> USE ConstantsAssumption, LegalMoves DEF TypeOK, RowsOK, RequestsOK, Proc, Follows
<1>1. CASE Guarded
  BY <1>1, Zenon DEF Guarded
<1>2. CASE Ends
  BY <1>2, Zenon DEF Ends
<1>3. ASSUME NEW t \in Task, NEW j \in Job, HandleJob(t, j) PROVE Follows(k)
  BY <1>3, Zenon DEF HandleJob
<1>4. ASSUME NEW j \in Job, CheckinMark(j) PROVE Follows(k)
  BY <1>4 DEF CheckinMark, Overwrite
<1>5. ASSUME NEW t \in Task, Gate(t), ~Refuse(t) PROVE Follows(k)
  BY <1>5, Zenon DEF Gate, Goto
<1>6. ASSUME NEW t \in Task, AckRead(t), ~Refuse(t) PROVE Follows(k)
  BY <1>6, Zenon DEF AckRead, Select, Goto
<1>7. ASSUME NEW t \in Task, AckWrite(t) PROVE Follows(k)
  BY <1>7 DEF AckWrite, Overwrite, Goto, ReadsAllowWrites
<1>8. ASSUME NEW t \in Task, Execute(t) PROVE Follows(k)
  BY <1>8, Zenon DEF Execute, Goto
<1>9. ASSUME NEW t \in Task, ResultRead(t), ~Refuse(t) PROVE Follows(k)
  BY <1>9, Zenon DEF ResultRead, Select, Goto
<1>10. ASSUME NEW t \in Task, ResultInsert(t) PROVE Follows(k)
  BY <1>10, Zenon DEF ResultInsert, Goto
<1>11. ASSUME NEW t \in Task, ResultUpdate(t) PROVE Follows(k)
  BY <1>11 DEF ResultUpdate, Overwrite, End, Goto, ReadsAllowWrites
<1>12. ASSUME NEW t \in Task, ResultRetry(t), ~Refuse(t) PROVE Follows(k)
  BY <1>12, Zenon DEF ResultRetry, Insert, NextID, End, Goto
<1>13. ASSUME NEW j \in Job, NEW max \in 0..MaxRetries, Create(j, max) PROVE Follows(k)
  BY <1>13, Zenon DEF Create, Insert, NextID
<1>14. ASSUME NEW p \in Operator, NEW j \in Job, CancelRead(p, j) PROVE Follows(k)
  BY <1>14, Zenon DEF CancelRead, OperatorRead, Goto
<1>15. ASSUME NEW p \in Operator, NEW j \in Job, RetryRead(p, j) PROVE Follows(k)
  BY <1>15, Zenon DEF RetryRead, OperatorRead, Goto
<1>16. ASSUME NEW p \in Operator, CancelWrite(p) PROVE Follows(k)
  BY <1>16, Zenon DEF CancelWrite, Overwrite, End, Goto, ReadsAllowWrites, IsCancellable
<1>17. ASSUME NEW p \in Operator, RetryInsert(p), ~Refuse(p) PROVE Follows(k)
  BY <1>17 DEF RetryInsert, Insert, NextID, End, Goto
<1> QED
  BY <1>1, <1>2, <1>3, <1>4, <1>5, <1>6, <1>7, <1>8, <1>9, <1>10, <1>11, <1>12, <1>13,
     <1>14, <1>15, <1>16, <1>17, StepKinds, ZenonT(60)

-----------------------------------------------------------------------------
(* The inductive invariant and what follows from it *)

IInv == TypeOK /\ RowsExist /\ ReadsAllowWrites /\ Progress /\ RowsAreSound /\ Ownership

\* It holds before the first request.
LEMMA InitIInv == Init => IInv
<1> SUFFICES ASSUME Init PROVE IInv
  BY Zenon
<1> USE ConstantsAssumption DEF Init, Job, NoJob, Proc
<1>1. TypeOK
  <2>1. RowsOK
    <3>1. maxRetries \in [Job -> 0..MaxRetries] /\ retryCount \in [Job -> Nat]
      OBVIOUS
    <3> QED BY <3>1, Zenon DEF RowsOK
  <2>2. PollOK /\ RequestsOK
    BY Zenon DEF PollOK, RequestsOK, PollPCs, TaskPCs, OperatorPCs, CdmModes
  <2>3. AgentOK
    BY DEF AgentOK, CdmModes
  <2> QED BY <2>1, <2>2, <2>3, Zenon DEF TypeOK
<1>2. RowsExist /\ ReadsAllowWrites /\ Progress
  BY Zenon DEF RowsExist, ReadsAllowWrites, Progress, RunPCs
<1>3. RowsAreSound
  BY DEF RowsAreSound, Reapable, RunsAreAcknowledged, CompletedHasResult,
     RetryWithinBudget
<1>4. Ownership
  BY DEF Ownership, OneRunner, OneRetrier, AutoRetries, Unacked, Open, RunPCs
<1> QED BY <1>1, <1>2, <1>3, <1>4, Zenon DEF IInv

\* Every step keeps it.
LEMMA NextIInv == IInv /\ [Next]_vars => IInv'
<1> SUFFICES ASSUME IInv, [Next]_vars PROVE IInv'
  BY Zenon
<1> USE DEF IInv
<1>1. TypeOK' /\ RowsExist' /\ ReadsAllowWrites'
  BY TypeStep, RowsExistStep, ReadsStep, Zenon
<1>2. Progress' /\ RowsAreSound'
  BY ProgressStep, RowsSoundStep, Zenon
<1>3. Ownership'
  <2> SUFFICES ASSUME NEW k \in Job, k \notin lostUpdate'
               PROVE  OneRunner(k)' /\ OneRetrier(k)'
    BY Zenon DEF Ownership, Job
  <2>1. k \notin lostUpdate => OneRunner(k) /\ OneRetrier(k)
    BY Zenon DEF Ownership
  <2> QED BY <2>1, OneRunnerStep, OneRetrierStep, Zenon
<1> QED BY <1>1, <1>2, <1>3, Zenon

\* IInv is an invariant of every instance of the specification.
THEOREM Inductive == Spec => []IInv
BY InitIInv, NextIInv, PTL DEF Spec

\* The tables, check-ins and requests always have their types; in particular no
\* handler stores a status outside the table of state.go (SubmitResult refuses
\* "restarting" before it writes).
THEOREM TypeCorrect == Spec => []TypeOK
<1>1. IInv => TypeOK
  BY Zenon DEF IInv
<1> QED BY <1>1, Inductive, PTL

\* Whatever path a job took into dispatched or acknowledged, the scheduler and
\* the check-in can find it by its timestamp.
THEOREM AlwaysReapable == Spec => []Reapable
<1>1. IInv => Reapable
  BY Zenon DEF IInv, RowsAreSound
<1> QED BY <1>1, Inductive, PTL

\* runJob executes a job only after the server stored the acknowledgement.
THEOREM AckBeforeRun == Spec => []RunsAreAcknowledged
<1>1. IInv => RunsAreAcknowledged
  BY Zenon DEF IInv, RowsAreSound
<1> QED BY <1>1, Inductive, PTL

\* SubmitResult stores the result before it completes the job.
THEOREM ResultBeforeCompletion == Spec => []CompletedHasResult
<1>1. IInv => CompletedHasResult
  BY Zenon DEF IInv, RowsAreSound
<1> QED BY <1>1, Inductive, PTL

\* createRetryJob never exceeds max_retries.
THEOREM RetryBudget == Spec => []RetryWithinBudget
<1>1. IInv => RetryWithinBudget
  BY Zenon DEF IInv, RowsAreSound
<1> QED BY <1>1, Inductive, PTL

\* A job whose status no handler overwrote runs once at most, however often it
\* was dispatched and whoever cancelled, retried, reaped or restarted meanwhile.
THEOREM AtMostOnce == Spec => []AtMostOnceUnlessOverwritten
<1>1. IInv => AtMostOnceUnlessOverwritten
  BY DEF IInv, TypeOK, AgentOK, Ownership, OneRunner, AtMostOnceUnlessOverwritten
<1> QED BY <1>1, Inductive, PTL

\* SubmitResult retries such a job once at most.
THEOREM OneAutoRetry == Spec => []OneAutoRetryUnlessOverwritten
<1>1. IInv => OneAutoRetryUnlessOverwritten
  BY Zenon DEF IInv, Ownership, OneRetrier, OneAutoRetryUnlessOverwritten
<1> QED BY <1>1, Inductive, PTL

\* Statuses move along validTransitions, by a release from cdm_hold or by an
\* update report; every other move comes from a handler whose read was stale.
THEOREM StateMachine == Spec => FollowsStateMachine
<1>1. IInv /\ [Next]_vars =>
        [\A j \in Job : \/ status'[j] = status[j]
                        \/ Moves(status[j], status'[j])
                        \/ j = report /\ status'[j] = "failed"
                        \/ j \in lostUpdate']_vars
  BY FollowsStep, Zenon DEF IInv, Follows
<1> QED BY <1>1, Inductive, PTL DEF Spec, FollowsStateMachine

=============================================================================
