---------------------------- MODULE SchedulingProofs ----------------------------
(***************************************************************************)
(* Theorems about where jobs come from.  The scheduler, for any processes, *)
(* periods and faults: one leader and a last run that never goes back,     *)
(* unless a session was lost, and no backlog.                              *)
(* POST /v1/jobs, for any requests, devices and groups: jobs land within   *)
(* the caller's scope and, unless raced, within the quota, and a 201       *)
(* stands for the whole batch.                                             *)
(***************************************************************************)
EXTENDS Scheduler, JobCreation, FiniteSetTheorems, TLAPS

-----------------------------------------------------------------------------
(* The scheduler *)

Row == [exists : BOOLEAN, enabled : BOOLEAN, cron : Periods, next : Nat, last : Nat]
View == [cron : Periods \cup {0}, at : Nat]

Types ==
    /\ lock \in Proc \cup {None} /\ pc \in [Proc -> PCs] /\ row \in Row
    /\ view \in [Proc -> View] /\ members \subseteq Device
    /\ now \in Nat /\ faults \in Nat /\ lost \in BOOLEAN

\* What a process listed lies in the past, and so does every run.
ClockInv ==
    /\ \A s \in Proc : pc[s] \in InTick => /\ view[s].cron \in Periods /\ view[s].at <= now
    /\ row.last <= now /\ NoBacklog

\* Unless a session was lost, whoever leads holds the lock.
LeaderInv == lost \/ \A s \in Leaders : lock = s

\* and whoever is in a tick began it after the last run.
GrowInv == lost \/ \A s \in Proc : pc[s] \in InTick => row.last <= view[s].at

-----------------------------------------------------------------------------
\* Division with remainder.
LEMMA Division ==
    ASSUME NEW c \in Nat, c > 0, NEW t \in Nat
    PROVE  /\ t \div c \in Nat /\ t % c \in 0..(c - 1)
           /\ t = c * (t \div c) + (t % c)
  <1>1. t = c * (t \div c) + (t % c)
    BY SMTT(30)
  <1>2. t \div c \in Nat
    BY SMTT(30)
  <1>3. t % c \in 0..(c - 1)
    BY SMTT(30)
  <1> QED BY <1>1, <1>2, <1>3, Zenon

\* sched.Next(t) is later than t.
LEMMA FollowingIsLater ==
    ASSUME NEW c \in Periods, NEW t \in Nat
    PROVE  Following(c, t) \in Nat /\ Following(c, t) > t
  <1>1. c \in Nat /\ c > 0
    BY SchedulerAssumption
  <1>2. \E m \in (t + 1)..(t + c) : m % c = 0
    <2>1. PICK q \in Nat : t = c * q + (t % c) /\ t % c \in 0..(c - 1)
      BY <1>1, Division, Zenon
    <2>2. c * (q + 1) = c * q + c /\ c * q \in Nat
      BY <1>1, <2>1
    <2>3. c * (q + 1) \in (t + 1)..(t + c)
      BY <1>1, <2>1, <2>2
    <2>4. (c * (q + 1)) % c = 0
      BY <1>1, <2>1
    <2> QED BY <2>3, <2>4, Zenon
  <1>3. Following(c, t) \in (t + 1)..(t + c)
    BY <1>2, Zenon DEF Following
  <1> QED BY <1>1, <1>3

-----------------------------------------------------------------------------
(* Types *)

\* What a process keeps when it leaves a tick or stops.
LEMMA EndTickTypes ==
    ASSUME Types, NEW s \in Proc, EndTick(s)
    PROVE  /\ pc' \in [Proc -> PCs] /\ view' \in [Proc -> View]
           /\ pc'[s] = "waiting"
           /\ \A r \in Proc \ {s} : pc'[r] = pc[r] /\ view'[r] = view[r]
  <1>1. NoView \in View
    BY Zenon DEF NoView, View
  <1> QED BY <1>1, Zenon DEF Types, EndTick, Goto, PCs, InTick

\* Types are kept by every step.
LEMMA TypesStep == Types /\ ClockInv /\ [Next]_vars => Types'
  <1> SUFFICES ASSUME Types, ClockInv, [Next]_vars PROVE Types'
    BY Zenon
  <1>c. MaxTime \in Nat /\ MaxFaults \in Nat
    BY SchedulerAssumption, Zenon
  <1>v. NoView \in View
    BY Zenon DEF NoView, View
  <1>1. ASSUME NEW s \in Proc, Start(s) PROVE Types'
    BY <1>1, Zenon DEF Start, Types, Goto, PCs, InTick, world
  <1>2. ASSUME NEW s \in Proc, TryLock(s) PROVE Types'
    BY <1>2, Zenon DEF TryLock, Types, Goto, PCs, InTick, world
  <1>3. ASSUME NEW s \in Proc, LoseConnection(s) PROVE Types'
    BY <1>3 DEF LoseConnection, Fault, Types
  <1>4. ASSUME NEW s \in Proc, Stop(s) PROVE Types'
    BY <1>4, <1>v DEF Stop, Fault, Types, PCs, InTick, world
  <1>5. ASSUME NEW s \in Proc, ListDueScheduledJobs(s) PROVE Types'
    <2>1. [cron |-> row.cron, at |-> now] \in View
      BY Zenon DEF Types, Row, View
    <2> QED BY <1>5, <2>1, Zenon DEF ListDueScheduledJobs, Goto, Types, PCs, InTick, world
  <1>6. ASSUME NEW s \in Proc, resolveTargets(s) PROVE Types'
    <2>1. CASE EndTick(s) /\ Fault
      BY <1>6, <2>1, EndTickTypes DEF resolveTargets, Fault, Types, world
    <2>2. CASE ~(EndTick(s) /\ Fault)
      BY <1>6, <2>2, Zenon DEF resolveTargets, Goto, Types, PCs, InTick, world
    <2> QED BY <2>1, <2>2, Zenon
  <1>7. ASSUME NEW s \in Proc, dispatchScheduledJob(s) PROVE Types'
    BY <1>7, EndTickTypes, Zenon DEF dispatchScheduledJob, world, Types
  <1>8. ASSUME NEW s \in Proc, MarkScheduledJobRun(s) PROVE Types'
    <2>1. UNCHANGED <<lock, members, now, lost>> /\ EndTick(s) /\ pc[s] = "mark" /\ faults' \in Nat
      BY <1>8 DEF MarkScheduledJobRun, world, Fault, Types
    <2>2. view[s].cron \in Periods /\ view[s].at \in Nat
      BY <2>1, Zenon DEF ClockInv, InTick, Types, View
    <2>3. Following(view[s].cron, view[s].at) \in Nat
      BY <2>2, FollowingIsLater, Zenon
    <2>4. row' \in Row
      BY <1>8, <2>2, <2>3, Zenon DEF MarkScheduledJobRun, Types, Row
    <2> QED BY <2>1, <2>4, EndTickTypes, Zenon DEF Types
  <1>9. ASSUME NEW p \in Periods, Update(p) PROVE Types'
    <2>1. Following(p, now) \in Nat
      BY FollowingIsLater, Zenon DEF Types
    <2>2. row' \in Row
      BY <1>9, <2>1, Zenon DEF Update, Types, Row
    <2> QED BY <1>9, <2>2, Zenon DEF Update, Types, world
  <1>10. ASSUME NEW b \in BOOLEAN, SetEnabled(b) PROVE Types'
    <2>1. row' \in Row
      BY <1>10, Zenon DEF SetEnabled, Types, Row
    <2> QED BY <1>10, <2>1, Zenon DEF SetEnabled, Types, world
  <1>11. ASSUME NEW d \in Device, ChangeMembers(d) PROVE Types'
    BY <1>11, Zenon DEF ChangeMembers, Types
  <1>12. CASE Delete
    <2>1. row' \in Row
      BY <1>12, Zenon DEF Delete, Types, Row
    <2> QED BY <1>12, <2>1, Zenon DEF Delete, Types, world
  <1>13. CASE Tick
    BY <1>13 DEF Tick, Types
  <1>14. CASE UNCHANGED vars
    BY <1>14, Zenon DEF vars, Types
  <1>15. ASSUME NEW s \in Proc, SendBlocks(s) PROVE Types'
    BY <1>15 DEF SendBlocks, Fault, Goto, Types, PCs, InTick, world
  <1> QED BY <1>1, <1>2, <1>3, <1>4, <1>5, <1>6, <1>7, <1>8, <1>9, <1>10, <1>11, <1>12, <1>13, <1>14, <1>15,
             ZenonT(60) DEF Next, Run

-----------------------------------------------------------------------------
(* Leadership *)

\* Whoever leads holds the lock, unless a session was lost.
LEMMA LeaderStep == Types /\ LeaderInv /\ [Next]_vars => LeaderInv'
  <1> SUFFICES ASSUME Types, LeaderInv, [Next]_vars PROVE LeaderInv'
    BY Zenon
  <1>p. \A s \in Proc : s # None
    BY SchedulerAssumption, Zenon
  <1>k. ASSUME UNCHANGED <<lock, lost>>, Leaders' \subseteq Leaders
        PROVE  LeaderInv'
    BY <1>k, Zenon DEF LeaderInv
  <1>1. ASSUME NEW s \in Proc, Start(s) PROVE LeaderInv'
    <2>1. Leaders' \subseteq Leaders
      BY <1>1, Zenon DEF Start, Goto, Leaders, Types
    <2> QED BY <1>1, <1>k, <2>1, Zenon DEF Start, world
  <1>2. ASSUME NEW s \in Proc, TryLock(s) PROVE LeaderInv'
    <2>1. Leaders' \subseteq Leaders \cup {s} /\ lock' = s /\ lock = None
      BY <1>2, Zenon DEF TryLock, Goto, Leaders, Types
    <2>2. lost \/ Leaders = {}
      BY <1>p, <2>1, Zenon DEF LeaderInv, Leaders
    <2> QED BY <1>2, <2>1, <2>2, Zenon DEF TryLock, world, LeaderInv
  <1>3. ASSUME NEW s \in Proc, LoseConnection(s) PROVE LeaderInv'
    BY <1>3, Zenon DEF LoseConnection, LeaderInv
  <1>4. ASSUME NEW s \in Proc, Stop(s) PROVE LeaderInv'
    <2>1. Leaders' \subseteq Leaders \ {s} /\ lost' = lost
      BY <1>4, Zenon DEF Stop, Leaders, Types, world
    <2>2. lost \/ \A r \in Leaders \ {s} : lock' = r
      BY <1>4, Zenon DEF Stop, LeaderInv
    <2> QED BY <2>1, <2>2, Zenon DEF LeaderInv
  <1>5. ASSUME NEW s \in Proc, ListDueScheduledJobs(s) PROVE LeaderInv'
    <2>1. Leaders' \subseteq Leaders
      BY <1>5, Zenon DEF ListDueScheduledJobs, Goto, Leaders, Types
    <2> QED BY <1>5, <1>k, <2>1, Zenon DEF ListDueScheduledJobs, world
  <1>6. ASSUME NEW s \in Proc, resolveTargets(s) PROVE LeaderInv'
    <2>1. Leaders' \subseteq Leaders
      BY <1>6, Zenon DEF resolveTargets, EndTick, Goto, Leaders, Types
    <2> QED BY <1>6, <1>k, <2>1, Zenon DEF resolveTargets, world
  <1>7. ASSUME NEW s \in Proc, dispatchScheduledJob(s) PROVE LeaderInv'
    <2>1. Leaders' \subseteq Leaders
      BY <1>7, Zenon DEF dispatchScheduledJob, EndTick, Goto, Leaders, Types
    <2> QED BY <1>7, <1>k, <2>1, Zenon DEF dispatchScheduledJob, world
  <1>8. ASSUME NEW s \in Proc, MarkScheduledJobRun(s) PROVE LeaderInv'
    <2>1. Leaders' \subseteq Leaders
      BY <1>8, Zenon DEF MarkScheduledJobRun, EndTick, Goto, Leaders, Types
    <2> QED BY <1>8, <1>k, <2>1, Zenon DEF MarkScheduledJobRun, world
  <1>9. ASSUME UNCHANGED <<lock, pc, lost>> PROVE LeaderInv'
    BY <1>9, Zenon DEF LeaderInv, Leaders
  <1>10. (\E p \in Periods : Update(p)) \/ (\E b \in BOOLEAN : SetEnabled(b)) \/ Delete
         => UNCHANGED <<lock, pc, lost>>
    BY Zenon DEF Update, SetEnabled, Delete, world
  <1>11. (\E d \in Device : ChangeMembers(d)) \/ Tick \/ UNCHANGED vars => UNCHANGED <<lock, pc, lost>>
    BY Zenon DEF ChangeMembers, Tick, vars
  <1>12. ASSUME NEW s \in Proc, SendBlocks(s) PROVE LeaderInv'
    <2>1. Leaders' \subseteq Leaders
      BY <1>12, Zenon DEF SendBlocks, Goto, Leaders, Types
    <2> QED BY <1>12, <1>k, <2>1, Zenon DEF SendBlocks, world
  <1> QED BY <1>1, <1>2, <1>3, <1>4, <1>5, <1>6, <1>7, <1>8, <1>9, <1>10, <1>11, <1>12, ZenonT(60) DEF Next, Run

-----------------------------------------------------------------------------
(* Time *)

\* A step that lists nothing and marks nothing.
LEMMA ClockKept ==
    ASSUME Types, ClockInv, now' \in Nat, now' >= now,
           \A s \in Proc : pc'[s] \in InTick => pc[s] \in InTick /\ view'[s] = view[s],
           row'.last = row.last /\ row'.next = row.next
    PROVE  ClockInv'
  <1>1. \A s \in Proc : view[s].at \in Nat
    BY Zenon DEF Types, View
  <1>2. row.last \in Nat /\ row.next \in Nat /\ now \in Nat
    BY Zenon DEF Types, Row
  <1> QED BY <1>1, <1>2 DEF ClockInv, NoBacklog

\* What is listed or run lies in the past.
LEMMA ClockStep == Types /\ ClockInv /\ [Next]_vars => ClockInv'
  <1> SUFFICES ASSUME Types, ClockInv, [Next]_vars PROVE ClockInv'
    BY Zenon
  <1>n. now \in Nat /\ now >= now /\ row.last \in Nat /\ row.next \in Nat
    BY DEF Types, Row
  <1>q. ASSUME UNCHANGED <<now, row>>,
               \A s \in Proc : pc'[s] \in InTick => pc[s] \in InTick /\ view'[s] = view[s]
        PROVE  ClockInv'
    BY <1>n, <1>q, ClockKept, Zenon
  <1>u. ASSUME UNCHANGED <<pc, view, now>>, NEW p \in Periods,
               row'.next = Following(p, now), row'.last = row.last
        PROVE  ClockInv'
    BY <1>u, <1>n, FollowingIsLater DEF ClockInv, NoBacklog
  <1>1. ASSUME NEW s \in Proc, Start(s) \/ TryLock(s) PROVE ClockInv'
    <2>1. UNCHANGED <<now, row, view>>
      BY <1>1, Zenon DEF Start, TryLock, world
    <2>2. \A r \in Proc : pc'[r] \in InTick => pc[r] \in InTick
      BY <1>1, Zenon DEF Start, TryLock, Goto, InTick, Types
    <2> QED BY <1>q, <2>1, <2>2, Zenon
  <1>3. ASSUME NEW s \in Proc, LoseConnection(s) PROVE ClockInv'
    BY <1>3, <1>q, Zenon DEF LoseConnection
  <1>4. ASSUME NEW s \in Proc, Stop(s) PROVE ClockInv'
    <2>1. \A r \in Proc : pc'[r] \in InTick => pc[r] \in InTick /\ view'[r] = view[r]
      BY <1>4, Zenon DEF Stop, InTick, Types
    <2> QED BY <1>4, <1>q, <2>1, Zenon DEF Stop, world
  <1>5. ASSUME NEW s \in Proc, ListDueScheduledJobs(s) PROVE ClockInv'
    <2>1. UNCHANGED <<now, row>>
      BY <1>5, Zenon DEF ListDueScheduledJobs, world
    <2>2. /\ view'[s] = [cron |-> row.cron, at |-> now]
          /\ \A r \in Proc \ {s} : pc'[r] = pc[r] /\ view'[r] = view[r]
      BY <1>5, Zenon DEF ListDueScheduledJobs, Goto, Types
    <2>3. view'[s].cron \in Periods /\ view'[s].at <= now
      BY <1>n, <2>1, <2>2 DEF Types, Row
    <2> QED BY <2>1, <2>2, <2>3, Zenon DEF ClockInv, NoBacklog
  <1>e. ASSUME NEW s \in Proc, EndTick(s) PROVE \A r \in Proc : pc'[r] \in InTick => pc[r] \in InTick /\ view'[r] = view[r]
    BY <1>e, EndTickTypes, Zenon DEF InTick
  <1>6. ASSUME NEW s \in Proc, resolveTargets(s) PROVE ClockInv'
    <2>1. UNCHANGED <<now, row>> /\ pc[s] \in InTick
      BY <1>6, Zenon DEF resolveTargets, world, InTick
    <2>2. CASE EndTick(s)
      BY <1>q, <1>e, <2>1, <2>2, Zenon
    <2>3. CASE UNCHANGED view /\ \E x \in PCs : Goto(s, x)
      <3>1. \A r \in Proc : pc'[r] \in InTick => pc[r] \in InTick
        BY <2>1, <2>3, Zenon DEF Goto, Types
      <3> QED BY <1>q, <2>1, <2>3, <3>1, Zenon
    <2> QED BY <1>6, <2>2, <2>3, Zenon DEF resolveTargets, PCs, InTick
  <1>7. ASSUME NEW s \in Proc, dispatchScheduledJob(s) PROVE ClockInv'
    BY <1>7, <1>q, <1>e, Zenon DEF dispatchScheduledJob, world
  <1>8. ASSUME NEW s \in Proc, MarkScheduledJobRun(s) PROVE ClockInv'
    <2>1. UNCHANGED now /\ EndTick(s) /\ pc[s] = "mark"
      BY <1>8, Zenon DEF MarkScheduledJobRun, world
    <2>2. CASE row' = row
      BY <1>q, <1>e, <2>1, <2>2, Zenon
    <2>3. CASE row' = [row EXCEPT !.last = view[s].at, !.next = Following(view[s].cron, view[s].at)]
      <3>1. view[s].cron \in Periods /\ view[s].at \in Nat /\ view[s].at <= now
        BY <2>1, Zenon DEF ClockInv, InTick, Types, View
      <3>2. Following(view[s].cron, view[s].at) > view[s].at
        BY <3>1, FollowingIsLater, Zenon
      <3>3. row'.last = view[s].at /\ row'.next = Following(view[s].cron, view[s].at)
        BY <2>3, Zenon DEF Types, Row
      <3> QED BY <1>e, <2>1, <3>1, <3>2, <3>3, Zenon DEF ClockInv, NoBacklog
    <2> QED BY <1>8, <2>2, <2>3, Zenon DEF MarkScheduledJobRun
  <1>9. ASSUME NEW p \in Periods, Update(p) PROVE ClockInv'
    <2>1. UNCHANGED <<pc, view, now>> /\ row'.next = Following(p, now) /\ row'.last = row.last
      BY <1>9, Zenon DEF Update, world, Types, Row
    <2> QED BY <1>n, <1>u, <2>1, Zenon
  <1>10. ASSUME (\E b \in BOOLEAN : SetEnabled(b)) \/ Delete PROVE ClockInv'
    <2>1. UNCHANGED <<pc, view, now>> /\ row'.next = row.next /\ row'.last = row.last
      BY <1>10, Zenon DEF SetEnabled, Delete, world, Types, Row
    <2> QED BY <1>n, <2>1, ClockKept, Zenon
  <1>11. ASSUME NEW d \in Device, ChangeMembers(d) PROVE ClockInv'
    BY <1>11, <1>q, Zenon DEF ChangeMembers
  <1>12. CASE Tick
    <2>1. UNCHANGED <<pc, view, row>> /\ now' \in Nat /\ now' >= now
      BY <1>12, <1>n DEF Tick
    <2> QED BY <2>1, ClockKept, Zenon
  <1>13. CASE UNCHANGED vars
    BY <1>13, <1>q, Zenon DEF vars
  <1>14. ASSUME NEW s \in Proc, SendBlocks(s) PROVE ClockInv'
    <2>1. UNCHANGED <<now, row, view>> /\ \A r \in Proc : pc'[r] \in InTick => pc[r] \in InTick
      BY <1>14, Zenon DEF SendBlocks, Goto, InTick, Types, world
    <2> QED BY <1>q, <2>1, Zenon
  <1> QED BY <1>1, <1>3, <1>4, <1>5, <1>6, <1>7, <1>8, <1>9, <1>10, <1>11, <1>12, <1>13, <1>14,
             ZenonT(60) DEF Next, Run

-----------------------------------------------------------------------------
(* The last run *)

\* A step that leaves the last run and begins no tick.
LEMMA GrowKept ==
    ASSUME GrowInv, lost' = lost, row'.last = row.last,
           \A s \in Proc : pc'[s] \in InTick => pc[s] \in InTick /\ view'[s] = view[s]
    PROVE  GrowInv'
  BY Zenon DEF GrowInv

\* Unless a session was lost, a run is marked by the one process in a tick, which
\* began after the last run.
LEMMA GrowStep ==
    ASSUME Types, ClockInv, LeaderInv, GrowInv, [Next]_vars
    PROVE  GrowInv' /\ (lost \/ row'.last >= row.last)
  <1>n. row.last \in Nat /\ now \in Nat /\ row.last >= row.last
    BY DEF Types, Row
  <1>e. ASSUME NEW s \in Proc, EndTick(s) PROVE \A r \in Proc : pc'[r] \in InTick => pc[r] \in InTick /\ view'[r] = view[r]
    BY <1>e, EndTickTypes, Zenon DEF InTick
  <1>q. ASSUME row'.last = row.last, lost' = lost,
               \A s \in Proc : pc'[s] \in InTick => pc[s] \in InTick /\ view'[s] = view[s]
        PROVE  GrowInv' /\ (lost \/ row'.last >= row.last)
    BY <1>n, <1>q, GrowKept, Zenon
  <1>1. ASSUME NEW s \in Proc, Start(s) \/ TryLock(s) \/ SendBlocks(s)
        PROVE  GrowInv' /\ (lost \/ row'.last >= row.last)
    <2>1. UNCHANGED <<lost, row, view>>
      BY <1>1, Zenon DEF Start, TryLock, SendBlocks, world
    <2>2. \A r \in Proc : pc'[r] \in InTick => pc[r] \in InTick
      BY <1>1, Zenon DEF Start, TryLock, SendBlocks, Goto, InTick, Types
    <2> QED BY <1>q, <2>1, <2>2, Zenon
  <1>2. ASSUME NEW s \in Proc, LoseConnection(s) PROVE GrowInv' /\ (lost \/ row'.last >= row.last)
    BY <1>2, <1>n, Zenon DEF LoseConnection, GrowInv
  <1>3. ASSUME NEW s \in Proc, Stop(s) PROVE GrowInv' /\ (lost \/ row'.last >= row.last)
    <2>1. \A r \in Proc : pc'[r] \in InTick => pc[r] \in InTick /\ view'[r] = view[r]
      BY <1>3, Zenon DEF Stop, InTick, Types
    <2> QED BY <1>3, <1>q, <2>1, Zenon DEF Stop, world
  <1>4. ASSUME NEW s \in Proc, ListDueScheduledJobs(s) PROVE GrowInv' /\ (lost \/ row'.last >= row.last)
    <2>1. UNCHANGED <<lost, row>> /\ view'[s] = [cron |-> row.cron, at |-> now]
          /\ \A r \in Proc \ {s} : pc'[r] = pc[r] /\ view'[r] = view[r]
      BY <1>4, Zenon DEF ListDueScheduledJobs, Goto, Types, world
    <2>2. row.last <= view'[s].at
      BY <2>1 DEF ClockInv
    <2> QED BY <1>n, <2>1, <2>2, Zenon DEF GrowInv
  <1>5. ASSUME NEW s \in Proc, resolveTargets(s) PROVE GrowInv' /\ (lost \/ row'.last >= row.last)
    <2>1. UNCHANGED <<lost, row>> /\ pc[s] \in InTick
      BY <1>5, Zenon DEF resolveTargets, world, InTick
    <2>2. CASE EndTick(s)
      BY <1>q, <1>e, <2>1, <2>2, Zenon
    <2>3. CASE UNCHANGED view /\ \E x \in PCs : Goto(s, x)
      <3>1. \A r \in Proc : pc'[r] \in InTick => pc[r] \in InTick
        BY <2>1, <2>3, Zenon DEF Goto, Types
      <3> QED BY <1>q, <2>1, <2>3, <3>1, Zenon
    <2> QED BY <1>5, <2>2, <2>3, Zenon DEF resolveTargets, PCs, InTick
  <1>6. ASSUME NEW s \in Proc, dispatchScheduledJob(s) PROVE GrowInv' /\ (lost \/ row'.last >= row.last)
    BY <1>6, <1>q, <1>e, Zenon DEF dispatchScheduledJob, world
  <1>7. ASSUME NEW s \in Proc, MarkScheduledJobRun(s) PROVE GrowInv' /\ (lost \/ row'.last >= row.last)
    <2>1. UNCHANGED lost /\ EndTick(s) /\ pc[s] = "mark"
      BY <1>7, Zenon DEF MarkScheduledJobRun, world
    <2>2. CASE row' = row
      BY <1>q, <1>e, <2>1, <2>2, Zenon
    <2>3. CASE row' = [row EXCEPT !.last = view[s].at, !.next = Following(view[s].cron, view[s].at)]
      <3>1. row'.last = view[s].at /\ view[s].at \in Nat
        BY <2>3, Zenon DEF Types, Row, View
      <3>2. lost \/ row.last <= view[s].at
        BY <2>1, Zenon DEF GrowInv, InTick
      <3>3. lost \/ \A r \in Proc : pc[r] \in InTick => r = s
        BY <2>1, Zenon DEF LeaderInv, Leaders, InTick
      <3>4. lost \/ \A r \in Proc : pc'[r] \notin InTick
        BY <2>1, <3>3, EndTickTypes, Zenon DEF InTick
      <3>5. lost \/ row'.last >= row.last
        BY <1>n, <3>1, <3>2
      <3> QED BY <2>1, <3>4, <3>5, Zenon DEF GrowInv
    <2> QED BY <1>7, <2>2, <2>3, Zenon DEF MarkScheduledJobRun
  <1>8. ASSUME (\E p \in Periods : Update(p)) \/ (\E b \in BOOLEAN : SetEnabled(b)) \/ Delete
        PROVE  GrowInv' /\ (lost \/ row'.last >= row.last)
    <2>1. UNCHANGED <<pc, view, lost>> /\ row'.last = row.last
      BY <1>8, Zenon DEF Update, SetEnabled, Delete, world, Types, Row
    <2> QED BY <1>q, <2>1, Zenon
  <1>9. ASSUME (\E d \in Device : ChangeMembers(d)) \/ Tick \/ UNCHANGED vars
        PROVE  GrowInv' /\ (lost \/ row'.last >= row.last)
    <2>1. UNCHANGED <<pc, view, lost, row>>
      BY <1>9, Zenon DEF ChangeMembers, Tick, vars
    <2> QED BY <1>q, <2>1, Zenon
  <1> QED BY <1>1, <1>2, <1>3, <1>4, <1>5, <1>6, <1>7, <1>8, <1>9, ZenonT(60) DEF Next, Run

-----------------------------------------------------------------------------
(* Theorems *)

SchedulerInv == Types /\ ClockInv /\ LeaderInv /\ GrowInv

\* The parts of the invariant hold when the processes are started.
LEMMA InitInv == Init => SchedulerInv
  <1> SUFFICES ASSUME Init PROVE SchedulerInv
    BY Zenon
  <1>1. PICK p \in Periods : row = [exists |-> TRUE, enabled |-> TRUE, cron |-> p, next |-> Following(p, 0), last |-> 0]
    BY Zenon DEF Init
  <1>2. Following(p, 0) \in Nat /\ Following(p, 0) > 0
    BY FollowingIsLater, Zenon
  <1>3. row \in Row /\ row.next > 0 /\ row.last = 0
    BY <1>1, <1>2, Zenon DEF Row
  <1>4. Types
    BY <1>3, Zenon DEF Init, Types, PCs, InTick, View, NoView
  <1>5. (\A s \in Proc : pc[s] = "down") /\ now = 0
    BY Zenon DEF Init
  <1>6. ClockInv
    BY <1>3, <1>5 DEF ClockInv, NoBacklog, InTick
  <1>7. LeaderInv /\ GrowInv
    BY <1>5, Zenon DEF LeaderInv, GrowInv, Leaders, InTick
  <1> QED BY <1>4, <1>6, <1>7, Zenon DEF SchedulerInv

\* The invariant of the processes: what they listed, who leads, and when.
THEOREM SchedulerInvariant == Spec => []SchedulerInv
  <1>1. SchedulerInv /\ [Next]_vars => SchedulerInv'
    BY TypesStep, ClockStep, LeaderStep, GrowStep, Zenon DEF SchedulerInv
  <1>2. Init => SchedulerInv
    BY InitInv, Zenon
  <1> QED BY <1>1, <1>2, PTL DEF Spec

\* Two processes lead at once only after a session that held the lock was lost, the next run
\* lies after the last one with any number of leaders, and the last run never goes back unless
\* such a session was lost (Scheduler.Run, MarkScheduledJobRun, Update), for any processes,
\* periods, stops, lost sessions and failed statements.
THEOREM SchedulerHolds == Spec => SchedulerSafe
  <1>1. SchedulerInv => SingleLeaderUnlessLost /\ NoBacklog
    BY Zenon DEF SchedulerInv, LeaderInv, ClockInv, SingleLeaderUnlessLost
  <1>2. SchedulerInv /\ [Next]_vars => [lost \/ row'.last >= row.last]_vars
    BY GrowStep, Zenon DEF SchedulerInv
  <1> QED BY <1>1, <1>2, SchedulerInvariant, PTL DEF Spec, SchedulerSafe, LastGrowsUnlessLost

-----------------------------------------------------------------------------
(* Creating jobs *)

JcScope == [all : BOOLEAN, groups : SUBSET Groups, devices : SUBSET JcDevices]
JcRecord == [pc : {"idle"} \cup Busy \cup Ended, todo : SUBSET Groups, scope : JcScope, ids : SUBSET Ids,
             allowed : SUBSET JcDevices, want : SUBSET Ids, reach : SUBSET JcDevices]

\* What a request has read, what is left of it and what has landed fit its place in Create.
Fits(q, done, overtaken) ==
    /\ q.pc \notin {"insert", "created", "error"} => done = {}
    /\ q.pc \in {"target", "scope"} => Covers(q.scope, member) \subseteq q.reach
    /\ q.pc = "scope" => q.todo \subseteq q.scope.groups /\ (q.scope.all \/ q.allowed \subseteq q.reach)
    /\ q.pc \in {"quota", "insert"} => q.want \cap JcDevices \subseteq q.reach
    /\ q.pc = "quota" => q.ids = q.want
    /\ q.pc = "insert" => done \cup q.ids = q.want
    /\ q.pc = "insert" /\ ~overtaken /\ Effective >= 0 => JcActive + Cardinality(q.ids) <= Effective

\* The inductive invariant of creation.
CreationInv ==
    /\ override \in Overrides \cup {-1} /\ jcReq \in [JcRequests -> JcRecord]
    /\ landed \in [JcRequests -> SUBSET JcDevices] /\ jcRaced \in [JcRequests -> BOOLEAN]
    /\ IsFiniteSet(queued) /\ others \in Nat
    /\ \A r \in JcRequests : Fits(jcReq[r], landed[r], jcRaced[r])

\* Records, limits and counts of a request.
LEMMA CreationTypes ==
  ASSUME CreationInv
  PROVE  /\ JcIdle \in JcRecord /\ JcIdle.pc = "idle"
         /\ \A s \in {"rejected", "created", "error"} : /\ [JcIdle EXCEPT !.pc = s] \in JcRecord
                                                        /\ [JcIdle EXCEPT !.pc = s].pc = s
         /\ Effective \in Int /\ Cardinality(queued) \in Nat /\ JcActive \in Nat
         /\ \A ids \in SUBSET Ids : IsFiniteSet(ids) /\ Cardinality(ids) \in Nat
  <1>1. JcIdle \in JcRecord /\ JcIdle.pc = "idle"
    BY Zenon DEF JcIdle, JcRecord, JcScope, NoScope, Busy, Ended
  <1>2. \A s \in {"rejected", "created", "error"} : /\ [JcIdle EXCEPT !.pc = s] \in JcRecord
                                                    /\ [JcIdle EXCEPT !.pc = s].pc = s
    BY Zenon DEF JcIdle, JcRecord, JcScope, NoScope, Busy, Ended
  <1>3. Effective \in Int
    BY JobCreationAssumption DEF Effective, CreationInv
  <1>4. Cardinality(queued) \in Nat
    BY FS_CardinalityType, Zenon DEF CreationInv
  <1>5. JcActive \in Nat
    BY <1>4 DEF JcActive, CreationInv
  <1>6. IsFiniteSet(Ids)
    BY JobCreationAssumption, FS_AddElement, Zenon DEF Ids
  <1>7. ASSUME NEW ids \in SUBSET Ids PROVE IsFiniteSet(ids) /\ Cardinality(ids) \in Nat
    BY <1>6, FS_Subset, FS_CardinalityType, Zenon
  <1> QED BY <1>1, <1>2, <1>3, <1>4, <1>5, <1>7, Zenon

\* What a scope covers, group by group.
LEMMA CoversAll ==
  ASSUME NEW s \in JcScope, NEW rows
  PROVE  /\ Covers(s, rows) \subseteq JcDevices
         /\ s.all => Covers(s, rows) = JcDevices
         /\ ~s.all => /\ s.devices \subseteq Covers(s, rows)
                      /\ \A g \in s.groups : In(rows, g) \subseteq Covers(s, rows)
  <1>1. s.devices \subseteq JcDevices
    BY Zenon DEF JcScope
  <1>2. \A g : In(rows, g) \subseteq JcDevices
    BY Zenon DEF In
  <1> QED BY <1>1, <1>2, Zenon DEF Covers

\* A step of one request that leaves the tables.
LEMMA OneRequest ==
  ASSUME CreationInv, NEW r \in JcRequests, NEW q \in JcRecord, NEW b \in BOOLEAN,
         jcReq' = [jcReq EXCEPT ![r] = q], jcRaced' = [jcRaced EXCEPT ![r] = b],
         UNCHANGED <<member, override, queued, others, landed>>, Fits(q, landed[r], b)
  PROVE  CreationInv'
  <1>1. /\ jcReq' \in [JcRequests -> JcRecord] /\ jcReq'[r] = q /\ \A p \in JcRequests \ {r} : jcReq'[p] = jcReq[p]
        /\ jcRaced' \in [JcRequests -> BOOLEAN] /\ jcRaced'[r] = b
        /\ \A p \in JcRequests \ {r} : jcRaced'[p] = jcRaced[p]
    BY Zenon DEF CreationInv
  <1>2. Effective' = Effective /\ JcActive' = JcActive
    BY Zenon DEF Effective, JcActive
  <1>3. \A p \in JcRequests : Fits(jcReq'[p], landed[p], jcRaced'[p])
    BY <1>1, Zenon DEF CreationInv
  <1>4. \A p \in JcRequests : Fits(jcReq[p], landed[p], jcRaced[p])'
    BY <1>2, <1>3, Zenon DEF Fits
  <1> QED BY <1>1, <1>4, Zenon DEF CreationInv

\* A refusal, an error or an answer.
LEMMA EndKeeps ==
  ASSUME CreationInv, NEW r \in JcRequests, NEW s \in {"rejected", "created", "error"}, NEW b \in BOOLEAN,
         End(r, s), jcRaced' = [jcRaced EXCEPT ![r] = b],
         UNCHANGED <<member, override, queued, others, landed>>,
         s = "rejected" => landed[r] = {}
  PROVE  CreationInv'
  <1> DEFINE q == [JcIdle EXCEPT !.pc = s]
  <1>1. q \in JcRecord /\ q.pc = s /\ jcReq' = [jcReq EXCEPT ![r] = q]
    BY CreationTypes, Zenon DEF End
  <1> HIDE DEF q
  <1>2. Fits(q, landed[r], b)
    BY <1>1, Zenon DEF Fits
  <1> QED BY <1>1, <1>2, OneRequest, Zenon

\* The reads that resolve the target and the scope.
LEMMA ResolveKeeps ==
  ASSUME CreationInv, NEW r \in JcRequests,
         Receive(r) \/ ExpandTarget(r) \/ TargetResolved(r) \/ ExpandScope(r) \/ ScopeResolved(r)
  PROVE  CreationInv'
  <1>0. /\ jcReq \in [JcRequests -> JcRecord] /\ jcReq[r] \in JcRecord /\ jcRaced \in [JcRequests -> BOOLEAN]
        /\ Fits(jcReq[r], landed[r], jcRaced[r])
    BY Zenon DEF CreationInv
  <1>1. jcRaced[r] \in BOOLEAN /\ UNCHANGED <<member, override, queued, others, landed>>
        /\ jcRaced' = [jcRaced EXCEPT ![r] = jcRaced[r]]
    BY <1>0 DEF Receive, ExpandTarget, TargetResolved, ExpandScope, ScopeResolved
  <1>2. ASSUME NEW q \in JcRecord, jcReq' = [jcReq EXCEPT ![r] = q], Fits(q, landed[r], jcRaced[r]) PROVE CreationInv'
    BY <1>1, <1>2, OneRequest, Zenon
  <1>3. CASE Receive(r)
    <2>1. PICK targets \in SUBSET Groups, ids \in SUBSET Ids,
               scope \in {NoScope} \cup [all : {FALSE}, groups : SUBSET Groups, devices : SUBSET JcDevices] :
            jcReq' = [jcReq EXCEPT ![r] = [JcIdle EXCEPT !.pc = "target", !.todo = targets, !.ids = ids,
                                             !.scope = scope, !.reach = Covers(scope, member)]]
      BY <1>3, Zenon DEF Receive
    <2> DEFINE q == [JcIdle EXCEPT !.pc = "target", !.todo = targets, !.ids = ids,
                                   !.scope = scope, !.reach = Covers(scope, member)]
    <2>2. scope \in JcScope
      <3>1. NoScope \in JcScope
        BY Zenon DEF JcScope, NoScope
      <3>2. [all : {FALSE}, groups : SUBSET Groups, devices : SUBSET JcDevices] \subseteq JcScope
        BY Zenon DEF JcScope
      <3> QED BY <3>1, <3>2, Zenon
    <2>3. Covers(scope, member) \subseteq JcDevices
      BY <2>2, CoversAll, Zenon
    <2>a. "target" \in {"idle"} \cup Busy \cup Ended
      BY Zenon DEF Busy
    <2>b. q \in JcRecord
      BY <2>2, <2>3, <2>a, Zenon DEF JcIdle, JcRecord
    <2>c. q.pc = "target" /\ q.scope = scope /\ q.reach = Covers(scope, member)
      BY Zenon DEF JcIdle
    <2>4. q \in JcRecord /\ q.pc = "target" /\ q.scope = scope /\ q.reach = Covers(scope, member)
      BY <2>b, <2>c, Zenon
    <2>5. jcReq' = [jcReq EXCEPT ![r] = q]
      BY <2>1, Zenon
    <2>6. landed[r] = {}
      BY <1>0, <1>3, Zenon DEF Fits, Receive
    <2> HIDE DEF q
    <2>7. Fits(q, landed[r], jcRaced[r])
      BY <2>4, <2>6, Zenon DEF Fits
    <2> QED BY <1>2, <2>4, <2>5, <2>7, Zenon
  <1>4. CASE ExpandTarget(r)
    <2>1. PICK g \in jcReq[r].todo : jcReq' = [jcReq EXCEPT ![r].todo = @ \ {g}, ![r].ids = @ \cup In(member, g)]
      BY <1>4, Zenon DEF ExpandTarget
    <2> DEFINE q == [jcReq[r] EXCEPT !.todo = @ \ {g}, !.ids = @ \cup In(member, g)]
    <2>2. jcReq' = [jcReq EXCEPT ![r] = q]
      BY <1>0, <2>1, Zenon
    <2>3. In(member, g) \subseteq Ids
      BY Zenon DEF In, Ids
    <2>4. q \in JcRecord /\ q.pc = jcReq[r].pc /\ q.scope = jcReq[r].scope /\ q.reach = jcReq[r].reach
      BY <1>0, <2>3, Zenon DEF JcRecord
    <2>5. jcReq[r].pc = "target"
      BY <1>4, Zenon DEF ExpandTarget
    <2> HIDE DEF q
    <2>6. Fits(q, landed[r], jcRaced[r])
      BY <1>0, <2>4, <2>5, Zenon DEF Fits
    <2> QED BY <1>2, <2>2, <2>4, <2>6, Zenon
  <1>5. CASE TargetResolved(r)
    <2>1. jcReq[r].pc = "target" /\ landed[r] = {}
      BY <1>0, <1>5, Zenon DEF TargetResolved, Fits
    <2>2. CASE End(r, "rejected")
      BY <1>1, <2>1, <2>2, EndKeeps, Zenon
    <2>3. CASE jcReq' = [jcReq EXCEPT ![r].pc = "scope", ![r].todo = jcReq[r].scope.groups,
                                      ![r].allowed = jcReq[r].scope.devices]
      <3> DEFINE q == [jcReq[r] EXCEPT !.pc = "scope", !.todo = jcReq[r].scope.groups,
                                       !.allowed = jcReq[r].scope.devices]
      <3>1. jcReq' = [jcReq EXCEPT ![r] = q]
        BY <1>0, <2>3, Zenon
      <3>2. jcReq[r].scope \in JcScope /\ jcReq[r].scope.groups \subseteq Groups /\ jcReq[r].scope.devices \subseteq JcDevices
        BY <1>0, Zenon DEF JcRecord, JcScope
      <3>a. "scope" \in {"idle"} \cup Busy \cup Ended
        BY Zenon DEF Busy
      <3>b. q \in JcRecord
        BY <1>0, <3>2, <3>a, Zenon DEF JcRecord
      <3>c. q.pc = "scope" /\ q.scope = jcReq[r].scope /\ q.reach = jcReq[r].reach
        BY <1>0, Zenon DEF JcRecord
      <3>d. q.todo = jcReq[r].scope.groups /\ q.allowed = jcReq[r].scope.devices
        BY <1>0, Zenon DEF JcRecord
      <3>3. /\ q \in JcRecord /\ q.pc = "scope" /\ q.scope = jcReq[r].scope /\ q.reach = jcReq[r].reach
            /\ q.todo = jcReq[r].scope.groups /\ q.allowed = jcReq[r].scope.devices
        BY <3>b, <3>c, <3>d, Zenon
      <3> HIDE DEF q
      <3>4. Covers(jcReq[r].scope, member) \subseteq jcReq[r].reach
        BY <1>0, <2>1, Zenon DEF Fits
      <3>5. jcReq[r].scope.all \/ jcReq[r].scope.devices \subseteq jcReq[r].reach
        BY <3>2, <3>4, CoversAll, Zenon
      <3>6. Fits(q, landed[r], jcRaced[r])
        BY <2>1, <3>3, <3>4, <3>5, Zenon DEF Fits
      <3> QED BY <1>2, <3>1, <3>3, <3>6, Zenon
    <2> QED BY <1>5, <2>2, <2>3, Zenon DEF TargetResolved
  <1>6. CASE ExpandScope(r)
    <2>1. PICK g \in jcReq[r].todo : jcReq' = [jcReq EXCEPT ![r].todo = @ \ {g}, ![r].allowed = @ \cup In(member, g)]
      BY <1>6, Zenon DEF ExpandScope
    <2> DEFINE q == [jcReq[r] EXCEPT !.todo = @ \ {g}, !.allowed = @ \cup In(member, g)]
    <2>2. jcReq' = [jcReq EXCEPT ![r] = q]
      BY <1>0, <2>1, Zenon
    <2>3. In(member, g) \subseteq JcDevices
      BY Zenon DEF In
    <2>4. /\ q \in JcRecord /\ q.pc = jcReq[r].pc /\ q.scope = jcReq[r].scope /\ q.reach = jcReq[r].reach
          /\ q.todo \subseteq jcReq[r].todo /\ q.allowed = jcReq[r].allowed \cup In(member, g)
      BY <1>0, <2>3, Zenon DEF JcRecord
    <2>5. jcReq[r].pc = "scope" /\ jcReq[r].scope \in JcScope
      BY <1>0, <1>6, Zenon DEF ExpandScope, JcRecord
    <2> HIDE DEF q
    <2>6. /\ landed[r] = {} /\ Covers(jcReq[r].scope, member) \subseteq jcReq[r].reach
          /\ jcReq[r].todo \subseteq jcReq[r].scope.groups
          /\ jcReq[r].scope.all \/ jcReq[r].allowed \subseteq jcReq[r].reach
      BY <1>0, <2>5, Zenon DEF Fits
    <2>7. jcReq[r].scope.all \/ q.allowed \subseteq jcReq[r].reach
      BY <2>1, <2>4, <2>5, <2>6, CoversAll, Zenon
    <2>8. q.todo \subseteq q.scope.groups
      BY <2>4, <2>6, Zenon
    <2>9. Fits(q, landed[r], jcRaced[r])
      BY <2>4, <2>5, <2>6, <2>7, <2>8, Zenon DEF Fits
    <2> QED BY <1>2, <2>2, <2>4, <2>9, Zenon
  <1>7. CASE ScopeResolved(r)
    <2> DEFINE ids == FilterDeviceIDs(jcReq[r].allowed, jcReq[r].scope, jcReq[r].ids)
    <2>1. jcReq[r].pc = "scope" /\ jcReq[r].scope \in JcScope /\ jcReq[r].ids \subseteq Ids
      BY <1>0, <1>7, Zenon DEF ScopeResolved, JcRecord
    <2>2. /\ landed[r] = {} /\ Covers(jcReq[r].scope, member) \subseteq jcReq[r].reach
          /\ jcReq[r].scope.all \/ jcReq[r].allowed \subseteq jcReq[r].reach
      BY <1>0, <2>1, Zenon DEF Fits
    <2>3. ids \subseteq Ids /\ ids \cap JcDevices \subseteq jcReq[r].reach
      BY <2>1, <2>2, CoversAll, Zenon DEF FilterDeviceIDs
    <2> HIDE DEF ids
    <2>4. CASE End(r, "rejected")
      BY <1>1, <2>2, <2>4, EndKeeps, Zenon
    <2>5. CASE jcReq' = [jcReq EXCEPT ![r].pc = "quota", ![r].ids = ids, ![r].want = ids,
                                      ![r].allowed = {}, ![r].scope = NoScope]
      <3> DEFINE q == [jcReq[r] EXCEPT !.pc = "quota", !.ids = ids, !.want = ids, !.allowed = {}, !.scope = NoScope]
      <3>1. jcReq' = [jcReq EXCEPT ![r] = q]
        BY <1>0, <2>5, Zenon
      <3>2. NoScope \in JcScope
        BY Zenon DEF NoScope, JcScope
      <3>a. "quota" \in {"idle"} \cup Busy \cup Ended
        BY Zenon DEF Busy
      <3>b. q \in JcRecord
        BY <1>0, <2>3, <3>2, <3>a, Zenon DEF JcRecord
      <3>c. q.pc = "quota" /\ q.ids = ids /\ q.want = ids /\ q.reach = jcReq[r].reach
        BY <1>0, Zenon DEF JcRecord
      <3>3. q \in JcRecord /\ q.pc = "quota" /\ q.ids = ids /\ q.want = ids /\ q.reach = jcReq[r].reach
        BY <3>b, <3>c, Zenon
      <3> HIDE DEF q
      <3>4. Fits(q, landed[r], jcRaced[r])
        BY <2>2, <2>3, <3>3, Zenon DEF Fits
      <3> QED BY <1>2, <3>1, <3>3, <3>4, Zenon
    <2> QED BY <1>7, <2>4, <2>5, Zenon DEF ScopeResolved, ids
  <1> QED BY <1>3, <1>4, <1>5, <1>6, <1>7, Zenon

\* The quota is checked for all that is to be inserted.
LEMMA QuotaKeeps ==
  ASSUME CreationInv, NEW r \in JcRequests, CheckQueuedJobs(r)
  PROVE  CreationInv'
  <1>0. jcReq \in [JcRequests -> JcRecord] /\ jcReq[r] \in JcRecord /\ Fits(jcReq[r], landed[r], jcRaced[r])
    BY Zenon DEF CreationInv
  <1>1. jcReq[r].pc = "quota" /\ jcRaced' = [jcRaced EXCEPT ![r] = FALSE]
        /\ UNCHANGED <<member, override, queued, others, landed>>
    BY Zenon DEF CheckQueuedJobs
  <1>2. landed[r] = {} /\ jcReq[r].ids = jcReq[r].want /\ jcReq[r].want \cap JcDevices \subseteq jcReq[r].reach
    BY <1>0, <1>1, Zenon DEF Fits
  <1>3. CASE End(r, "rejected")
    BY <1>1, <1>2, <1>3, EndKeeps, Zenon
  <1>4. CASE /\ jcReq' = [jcReq EXCEPT ![r].pc = "insert"]
             /\ ~(Effective >= 0 /\ JcActive + Cardinality(jcReq[r].ids) > Effective)
    <2> DEFINE q == [jcReq[r] EXCEPT !.pc = "insert"]
    <2>1. jcReq' = [jcReq EXCEPT ![r] = q]
      BY <1>0, <1>4, Zenon
    <2>2. q \in JcRecord /\ q.pc = "insert" /\ q.ids = jcReq[r].ids /\ q.want = jcReq[r].want /\ q.reach = jcReq[r].reach
      BY <1>0, Zenon DEF JcRecord, Busy
    <2> HIDE DEF q
    <2>3. Effective \in Int /\ JcActive \in Nat /\ Cardinality(jcReq[r].ids) \in Nat
      <3>1. jcReq[r].ids \in SUBSET Ids
        BY <1>0, Zenon DEF JcRecord
      <3> QED BY <3>1, CreationTypes, Zenon
    <2>4. Effective >= 0 => JcActive + Cardinality(jcReq[r].ids) <= Effective
      BY <1>4, <2>3
    <2>5. Fits(q, landed[r], FALSE)
      BY <1>2, <2>2, <2>4, Zenon DEF Fits
    <2> QED BY <1>1, <2>1, <2>2, <2>5, OneRequest, Zenon
  <1> QED BY <1>3, <1>4, Zenon DEF CheckQueuedJobs

\* An INSERT takes one device off the list and adds one job at most.
LEMMA InsertCounts ==
  ASSUME CreationInv, NEW r \in JcRequests, NEW d \in jcReq[r].ids \ {JcUnknown},
         queued' = queued \cup {<<r, d>>}, UNCHANGED <<override, others>>
  PROVE  /\ IsFiniteSet(queued') /\ JcActive' \in Nat /\ Cardinality(jcReq[r].ids \ {d}) \in Nat
         /\ JcActive' + Cardinality(jcReq[r].ids \ {d}) <= JcActive + Cardinality(jcReq[r].ids)
         /\ Effective' = Effective /\ Effective \in Int
  <1>1. jcReq[r].ids \in SUBSET Ids
    BY Zenon DEF CreationInv, JcRecord
  <1>2. IsFiniteSet(jcReq[r].ids) /\ Cardinality(jcReq[r].ids) \in Nat /\ IsFiniteSet(queued)
        /\ Cardinality(queued) \in Nat /\ Effective \in Int /\ others \in Nat
    BY <1>1, CreationTypes, Zenon DEF CreationInv
  <1>3. Cardinality(jcReq[r].ids \ {d}) = Cardinality(jcReq[r].ids) - 1
    BY <1>2, FS_RemoveElement, Zenon
  <1>4. IsFiniteSet(queued') /\ Cardinality(queued') \in {Cardinality(queued), Cardinality(queued) + 1}
    BY <1>2, FS_AddElement, Zenon
  <1>5. IsFiniteSet(jcReq[r].ids \ {d}) /\ Cardinality(jcReq[r].ids \ {d}) \in Nat
    <2>1. jcReq[r].ids \ {d} \in SUBSET Ids
      BY <1>1, Zenon
    <2> QED BY <2>1, CreationTypes, Zenon
  <1>6. JcActive' = Cardinality(queued') + others /\ JcActive = Cardinality(queued) + others
    BY Zenon DEF JcActive
  <1> QED BY <1>2, <1>3, <1>4, <1>5, <1>6 DEF Effective

\* The INSERTs and their end.
LEMMA InsertKeeps ==
  ASSUME CreationInv, NEW r \in JcRequests, InsertJob(r) \/ InsertFails(r) \/ Respond(r)
  PROVE  CreationInv'
  <1>0. /\ jcReq \in [JcRequests -> JcRecord] /\ jcReq[r] \in JcRecord /\ jcRaced \in [JcRequests -> BOOLEAN]
        /\ landed \in [JcRequests -> SUBSET JcDevices]
        /\ \A p \in JcRequests : Fits(jcReq[p], landed[p], jcRaced[p])
    BY Zenon DEF CreationInv
  <1>1. CASE InsertFails(r) \/ Respond(r)
    <2>1. UNCHANGED <<member, override, queued, others, landed, jcRaced>> /\ (End(r, "error") \/ End(r, "created"))
      BY <1>1, Zenon DEF InsertFails, Respond
    <2>2. jcRaced' = [jcRaced EXCEPT ![r] = jcRaced[r]] /\ jcRaced[r] \in BOOLEAN
      BY <1>0, <2>1, Zenon
    <2> QED BY <2>1, <2>2, EndKeeps, Zenon
  <1>2. CASE InsertJob(r)
    <2>1. PICK d \in jcReq[r].ids \ {JcUnknown} :
            /\ queued' = queued \cup {<<r, d>>} /\ landed' = [landed EXCEPT ![r] = @ \cup {d}]
            /\ jcReq' = [jcReq EXCEPT ![r].ids = @ \ {d}]
      BY <1>2, Zenon DEF InsertJob
    <2>2. RaceAll(r) /\ jcReq[r].pc = "insert" /\ UNCHANGED <<member, override, others>>
      BY <1>2, Zenon DEF InsertJob
    <2> DEFINE q == [jcReq[r] EXCEPT !.ids = @ \ {d}]
    <2>3. jcReq' = [jcReq EXCEPT ![r] = q]
      BY <1>0, <2>1, Zenon
    <2>4. q \in JcRecord /\ q.pc = "insert" /\ q.ids = jcReq[r].ids \ {d} /\ q.want = jcReq[r].want
          /\ q.reach = jcReq[r].reach
      BY <1>0, <2>2, Zenon DEF JcRecord
    <2> HIDE DEF q
    <2>5. d \in JcDevices
      BY <1>0, <2>1, Zenon DEF JcRecord, Ids
    <2>6. /\ jcReq' \in [JcRequests -> JcRecord] /\ jcReq'[r] = q /\ \A p \in JcRequests \ {r} : jcReq'[p] = jcReq[p]
      BY <1>0, <2>3, <2>4, Zenon
    <2>7. /\ landed' \in [JcRequests -> SUBSET JcDevices] /\ landed'[r] = landed[r] \cup {d}
          /\ \A p \in JcRequests \ {r} : landed'[p] = landed[p]
      BY <1>0, <2>1, <2>5, Zenon
    <2>8. /\ jcRaced' \in [JcRequests -> BOOLEAN] /\ (jcRaced'[r] <=> jcRaced[r])
          /\ \A p \in JcRequests \ {r} : jcReq[p].pc = "insert" => jcRaced'[p]
      <3>1. jcRaced' = [p \in JcRequests |-> jcRaced[p] \/ (p # r /\ jcReq[p].pc = "insert")]
        BY <2>2, Zenon DEF RaceAll
      <3>2. \A p \in JcRequests : (jcRaced[p] \/ (p # r /\ jcReq[p].pc = "insert")) \in BOOLEAN
        BY <1>0, Zenon
      <3>3. jcRaced' \in [JcRequests -> BOOLEAN]
        BY <3>1, <3>2, Zenon
      <3>4. \A p \in JcRequests : jcRaced'[p] = (jcRaced[p] \/ (p # r /\ jcReq[p].pc = "insert"))
        BY <3>1, Zenon
      <3> QED BY <3>3, <3>4, Zenon
    <2>9. /\ IsFiniteSet(queued') /\ JcActive' \in Nat /\ Cardinality(q.ids) \in Nat
          /\ JcActive' + Cardinality(q.ids) <= JcActive + Cardinality(jcReq[r].ids)
          /\ Effective' = Effective /\ Effective \in Int
      BY <2>1, <2>2, <2>4, InsertCounts, Zenon
    <2>10. Fits(jcReq[r], landed[r], jcRaced[r])'
      <3>1. landed[r] \cup jcReq[r].ids = jcReq[r].want /\ jcReq[r].want \cap JcDevices \subseteq jcReq[r].reach
        BY <1>0, <2>2, Zenon DEF Fits
      <3>2. landed'[r] \cup q.ids = q.want
        BY <2>1, <2>4, <2>7, <3>1, Zenon
      <3>3. ~jcRaced[r] /\ Effective >= 0 => JcActive + Cardinality(jcReq[r].ids) <= Effective
        BY <1>0, <2>2, Zenon DEF Fits
      <3>4. JcActive \in Nat /\ Cardinality(jcReq[r].ids) \in Nat
        <4>1. jcReq[r].ids \in SUBSET Ids
          BY <1>0, Zenon DEF JcRecord
        <4> QED BY <4>1, CreationTypes, Zenon
      <3>5. ~jcRaced[r] /\ Effective >= 0 => JcActive' + Cardinality(q.ids) <= Effective
        BY <2>9, <3>3, <3>4
      <3> QED BY <2>4, <2>6, <2>8, <2>9, <3>1, <3>2, <3>5, Zenon DEF Fits
    <2>11. ASSUME NEW p \in JcRequests \ {r} PROVE Fits(jcReq[p], landed[p], jcRaced[p])'
      <3>1. jcReq'[p] = jcReq[p] /\ landed'[p] = landed[p] /\ (jcReq[p].pc = "insert" => jcRaced'[p]) /\ member' = member
        BY <2>2, <2>6, <2>7, <2>8, Zenon
      <3>2. Fits(jcReq[p], landed[p], jcRaced[p])
        BY <1>0, Zenon
      <3> QED BY <3>1, <3>2, Zenon DEF Fits
    <2>12. others' \in Nat /\ override' \in Overrides \cup {-1}
      BY <2>2, Zenon DEF CreationInv
    <2> QED BY <2>6, <2>7, <2>8, <2>9, <2>10, <2>11, <2>12, Zenon DEF CreationInv
  <1> QED BY <1>1, <1>2, Zenon

\* Changes of membership: what a scope covers meanwhile is within reach.
LEMMA MovesKeep ==
  ASSUME CreationInv, AddDevices \/ RemoveDevice \/ DeleteGroup
  PROVE  CreationInv'
  <1>0. jcReq \in [JcRequests -> JcRecord] /\ \A p \in JcRequests : Fits(jcReq[p], landed[p], jcRaced[p])
    BY Zenon DEF CreationInv
  <1>1. Widen /\ UNCHANGED <<override, queued, others, landed, jcRaced>>
    BY Zenon DEF AddDevices, RemoveDevice, DeleteGroup
  <1>2. ASSUME NEW p \in JcRequests PROVE jcReq'[p] \in JcRecord /\ Fits(jcReq[p], landed[p], jcRaced[p])'
    <2>1. jcReq'[p] = IF jcReq[p].pc \in {"target", "scope"}
                      THEN [jcReq[p] EXCEPT !.reach = @ \cup Covers(jcReq[p].scope, member')] ELSE jcReq[p]
      BY <1>1, Zenon DEF Widen
    <2>2. Effective' = Effective /\ JcActive' = JcActive
      BY <1>1, Zenon DEF Effective, JcActive
    <2>3. CASE jcReq[p].pc \in {"target", "scope"}
      <3>1. jcReq[p] \in JcRecord /\ jcReq[p].scope \in JcScope
        BY <1>0, Zenon DEF JcRecord
      <3>2. Covers(jcReq[p].scope, member') \subseteq JcDevices
        BY <3>1, CoversAll, Zenon
      <3>3. jcReq'[p] = [jcReq[p] EXCEPT !.reach = @ \cup Covers(jcReq[p].scope, member')]
        BY <2>1, <2>3, Zenon
      <3>4. /\ jcReq'[p] \in JcRecord /\ jcReq'[p].pc = jcReq[p].pc /\ jcReq'[p].scope = jcReq[p].scope
            /\ jcReq'[p].todo = jcReq[p].todo /\ jcReq'[p].allowed = jcReq[p].allowed
            /\ jcReq'[p].reach = jcReq[p].reach \cup Covers(jcReq[p].scope, member')
        BY <3>1, <3>2, <3>3, Zenon DEF JcRecord
      <3>5. /\ Covers(jcReq'[p].scope, member') \subseteq jcReq'[p].reach
            /\ jcReq[p].reach \subseteq jcReq'[p].reach
        BY <3>4, Zenon
      <3>6. landed[p] = {} /\ (jcReq[p].pc = "scope" => /\ jcReq[p].todo \subseteq jcReq[p].scope.groups
                                                       /\ (jcReq[p].scope.all \/ jcReq[p].allowed \subseteq jcReq[p].reach))
        BY <1>0, <2>3, Zenon DEF Fits
      <3>7. jcReq[p].allowed \subseteq jcReq[p].reach => jcReq[p].allowed \subseteq jcReq'[p].reach
        BY <3>5, Zenon
      <3>8. landed'[p] = {} /\ jcReq'[p].pc \in {"target", "scope"}
            /\ (jcReq'[p].pc = "scope" => /\ jcReq'[p].todo \subseteq jcReq'[p].scope.groups
                                          /\ (jcReq'[p].scope.all \/ jcReq'[p].allowed \subseteq jcReq'[p].reach))
        BY <1>1, <2>3, <3>4, <3>6, <3>7, Zenon
      <3>9. Fits(jcReq[p], landed[p], jcRaced[p])'
        BY <3>5, <3>8, Zenon DEF Fits
      <3> QED BY <3>4, <3>9, Zenon
    <2>4. CASE jcReq[p].pc \notin {"target", "scope"}
      <3>1. jcReq'[p] = jcReq[p]
        BY <2>1, <2>4, Zenon
      <3> QED BY <1>0, <1>1, <2>2, <2>4, <3>1, Zenon DEF Fits
    <2> QED BY <2>3, <2>4, Zenon
  <1>3. jcReq' \in [JcRequests -> JcRecord]
    <2>1. DOMAIN jcReq' = JcRequests /\ jcReq' = [p \in JcRequests |-> jcReq'[p]]
      BY <1>1, Zenon DEF Widen
    <2> QED BY <1>2, <2>1, Zenon
  <1> QED BY <1>1, <1>2, <1>3, Zenon DEF CreationInv

\* Jobs that leave make room; jobs that others queue race the requests that insert.
LEMMA OthersKeep ==
  ASSUME CreationInv, Leave \/ Other
  PROVE  CreationInv'
  <1>0. /\ jcReq \in [JcRequests -> JcRecord] /\ jcRaced \in [JcRequests -> BOOLEAN] /\ IsFiniteSet(queued)
        /\ others \in Nat /\ \A p \in JcRequests : Fits(jcReq[p], landed[p], jcRaced[p])
    BY Zenon DEF CreationInv
  <1>1. CASE Leave
    <2>1. UNCHANGED <<member, override, jcReq, landed, jcRaced>>
      BY <1>1, Zenon DEF Leave
    <2>2. IsFiniteSet(queued') /\ others' \in Nat /\ JcActive' <= JcActive /\ JcActive' \in Nat /\ JcActive \in Nat
      <3>0. Cardinality(queued) \in Nat
        BY CreationTypes, Zenon
      <3>1. ASSUME NEW j \in queued, queued' = queued \ {j}, UNCHANGED others
            PROVE  IsFiniteSet(queued') /\ Cardinality(queued') = Cardinality(queued) - 1 /\ Cardinality(queued') \in Nat
        BY <1>0, <3>1, FS_RemoveElement, FS_CardinalityType, Zenon
      <3>2. CASE \E j \in queued : queued' = queued \ {j} /\ UNCHANGED others
        <4>1. /\ IsFiniteSet(queued') /\ Cardinality(queued') = Cardinality(queued) - 1
              /\ Cardinality(queued') \in Nat /\ others' = others
          BY <3>1, <3>2, Zenon
        <4> QED BY <1>0, <3>0, <4>1 DEF JcActive
      <3>3. CASE others > 0 /\ others' = others - 1 /\ UNCHANGED queued
        BY <1>0, <3>0, <3>3 DEF JcActive
      <3> QED BY <1>1, <3>2, <3>3, Zenon DEF Leave
    <2>3. ASSUME NEW p \in JcRequests PROVE Fits(jcReq[p], landed[p], jcRaced[p])'
      <3>1. jcReq[p].ids \in SUBSET Ids
        BY <1>0, Zenon DEF JcRecord
      <3>2. Cardinality(jcReq[p].ids) \in Nat /\ Effective \in Int /\ Effective' = Effective
        BY <2>1, <3>1, CreationTypes, Zenon DEF Effective
      <3>3. JcActive + Cardinality(jcReq[p].ids) <= Effective => JcActive' + Cardinality(jcReq[p].ids) <= Effective
        BY <2>2, <3>2
      <3>4. Fits(jcReq[p], landed[p], jcRaced[p])
        BY <1>0, Zenon
      <3> QED BY <2>1, <3>2, <3>3, <3>4, Zenon DEF Fits
    <2> QED BY <2>1, <2>2, <2>3, Zenon DEF CreationInv
  <1>2. CASE Other
    <2>1. UNCHANGED <<member, override, jcReq, queued, landed>> /\ others' \in Nat
          /\ jcRaced' = [p \in JcRequests |-> jcRaced[p] \/ jcReq[p].pc = "insert"]
      BY <1>0, <1>2 DEF Other
    <2>2. \A p \in JcRequests : (jcRaced[p] \/ jcReq[p].pc = "insert") \in BOOLEAN
      BY <1>0, Zenon
    <2>3. jcRaced' \in [JcRequests -> BOOLEAN] /\ \A p \in JcRequests : jcReq[p].pc = "insert" => jcRaced'[p]
      BY <2>1, <2>2, Zenon
    <2>4. ASSUME NEW p \in JcRequests PROVE Fits(jcReq[p], landed[p], jcRaced[p])'
      BY <1>0, <2>1, <2>3, Zenon DEF Fits
    <2> QED BY <2>1, <2>3, <2>4, <1>0, Zenon DEF CreationInv
  <1> QED BY <1>1, <1>2, Zenon

\* The inductive invariant of creation, for any requests, devices and groups.
THEOREM CreationInvariant == JcSpec => []CreationInv
  <1>1. JcInit => CreationInv
    <2> SUFFICES ASSUME JcInit PROVE CreationInv
      BY Zenon
    <2>1. JcIdle \in JcRecord /\ JcIdle.pc = "idle"
      BY Zenon DEF JcIdle, JcRecord, JcScope, NoScope, Busy, Ended
    <2>2. jcReq \in [JcRequests -> JcRecord] /\ landed \in [JcRequests -> SUBSET JcDevices]
          /\ jcRaced \in [JcRequests -> BOOLEAN] /\ override \in Overrides \cup {-1}
          /\ \A r \in JcRequests : jcReq[r] = JcIdle /\ landed[r] = {}
      BY <2>1, Zenon DEF JcInit
    <2>3. IsFiniteSet(queued)
      BY FS_EmptySet, Zenon DEF JcInit
    <2>4. others \in Nat
      BY Zenon DEF JcInit
    <2>5. \A r \in JcRequests : Fits(jcReq[r], landed[r], jcRaced[r])
      BY <2>1, <2>2, Zenon DEF Fits
    <2> QED BY <2>2, <2>3, <2>4, <2>5, Zenon DEF CreationInv
  <1>2. CreationInv /\ [JcNext]_jcVars => CreationInv'
    <2> SUFFICES ASSUME CreationInv, [JcNext]_jcVars PROVE CreationInv'
      BY Zenon
    <2>1. CASE UNCHANGED jcVars
      BY <2>1, Zenon DEF jcVars, CreationInv, Fits, Effective, JcActive
    <2> QED
      BY <2>1, ResolveKeeps, QuotaKeeps, InsertKeeps, MovesKeep, OthersKeep, Zenon DEF JcNext
  <1> QED BY <1>1, <1>2, PTL DEF JcSpec

\* What lands, and what is answered, comes from a step of the request itself.
LEMMA OwnSteps ==
  ASSUME CreationInv, JcNext, NEW r \in JcRequests
  PROVE  /\ landed'[r] # landed[r] => InsertJob(r)
         /\ jcReq'[r].pc = "created" /\ jcReq[r].pc # "created" => Respond(r)
  <1>0. jcReq \in [JcRequests -> JcRecord] /\ landed \in [JcRequests -> SUBSET JcDevices] /\ jcReq[r] \in JcRecord
    BY Zenon DEF CreationInv
  <1>1. landed'[r] # landed[r] => InsertJob(r)
    <2>1. (\E p \in JcRequests : InsertJob(p)) \/ UNCHANGED landed
      BY Zenon DEF JcNext, Receive, ExpandTarget, TargetResolved, ExpandScope, ScopeResolved, CheckQueuedJobs,
         InsertFails, Respond, AddDevices, RemoveDevice, DeleteGroup, Leave, Other
    <2>2. ASSUME NEW p \in JcRequests, p # r, InsertJob(p) PROVE landed'[r] = landed[r]
      BY <1>0, <2>2, Zenon DEF InsertJob
    <2> QED BY <2>1, <2>2, Zenon
  <1>2. ASSUME jcReq'[r].pc = "created", jcReq[r].pc # "created" PROVE Respond(r)
    <2>1. ASSUME NEW p \in JcRequests, NEW s \in {"rejected", "error"}, End(p, s) PROVE FALSE
      <3>1. CASE p = r
        <4>1. jcReq'[r] = [JcIdle EXCEPT !.pc = s]
          BY <1>0, <2>1, <3>1, Zenon DEF End
        <4>2. jcReq'[r].pc = s
          BY <4>1, CreationTypes, Zenon
        <4> QED BY <1>2, <4>2, Zenon
      <3>2. CASE p # r
        BY <1>0, <1>2, <2>1, <3>2, Zenon DEF End
      <3> QED BY <3>1, <3>2, Zenon
    <2>2. ASSUME NEW p \in JcRequests, NEW q, jcReq' = [jcReq EXCEPT ![p] = q], q.pc # "created" PROVE FALSE
      BY <1>0, <1>2, <2>2, Zenon
    <2>3. ASSUME NEW p \in JcRequests, Respond(p) PROVE Respond(r)
      <3>1. p # r => jcReq'[r] = jcReq[r]
        BY <1>0, <2>3, Zenon DEF Respond, End
      <3> QED BY <1>2, <2>3, <3>1, Zenon
    <2>4. ASSUME NEW p \in JcRequests, Receive(p) \/ ExpandTarget(p) \/ ExpandScope(p) PROVE FALSE
      <3>1. jcReq'[r].pc = jcReq[r].pc \/ jcReq'[r].pc = "target"
        <4>1. CASE Receive(p)
          <5>1. PICK targets \in SUBSET Groups, ids \in SUBSET Ids,
                     scope \in {NoScope} \cup [all : {FALSE}, groups : SUBSET Groups, devices : SUBSET JcDevices] :
                  jcReq' = [jcReq EXCEPT ![p] = [JcIdle EXCEPT !.pc = "target", !.todo = targets, !.ids = ids,
                                                   !.scope = scope, !.reach = Covers(scope, member)]]
            BY <4>1, Zenon DEF Receive
          <5>2. [JcIdle EXCEPT !.pc = "target", !.todo = targets, !.ids = ids,
                               !.scope = scope, !.reach = Covers(scope, member)].pc = "target"
            BY Zenon DEF JcIdle
          <5> QED BY <1>0, <5>1, <5>2, Zenon
        <4>2. CASE ExpandTarget(p)
          BY <1>0, <4>2, Zenon DEF ExpandTarget, JcRecord
        <4>3. CASE ExpandScope(p)
          BY <1>0, <4>3 DEF ExpandScope, JcRecord
        <4> QED BY <2>4, <4>1, <4>2, <4>3, Zenon
      <3> QED BY <1>2, <3>1, Zenon
    <2>5. ASSUME NEW p \in JcRequests, TargetResolved(p) \/ ScopeResolved(p) \/ CheckQueuedJobs(p) PROVE FALSE
      <3>1. End(p, "rejected") \/ jcReq'[r].pc \in {jcReq[r].pc, "scope", "quota", "insert"}
        BY <1>0, <2>5 DEF TargetResolved, ScopeResolved, CheckQueuedJobs, JcRecord
      <3> QED BY <1>2, <2>1, <3>1, Zenon
    <2>6. ASSUME NEW p \in JcRequests, InsertJob(p) PROVE FALSE
      <3>1. jcReq'[r].pc = jcReq[r].pc
        BY <1>0, <2>6 DEF InsertJob, JcRecord
      <3> QED BY <1>2, <3>1, Zenon
    <2>7. ASSUME Widen PROVE FALSE
      <3>1. jcReq'[r] = [jcReq[r] EXCEPT !.reach = @ \cup Covers(jcReq[r].scope, member')] \/ jcReq'[r] = jcReq[r]
        BY <2>7, Zenon DEF Widen
      <3>2. jcReq'[r].pc = jcReq[r].pc
        BY <1>0, <3>1, Zenon DEF JcRecord
      <3> QED BY <1>2, <3>2, Zenon
    <2>8. ~UNCHANGED jcReq
      BY <1>2, Zenon
    <2> QED BY <2>1, <2>3, <2>4, <2>5, <2>6, <2>7, <2>8, Zenon
            DEF JcNext, InsertFails, AddDevices, RemoveDevice, DeleteGroup, Leave, Other
  <1> QED BY <1>1, <1>2, Zenon

\* A refusal lands nothing, jobs land within the caller's scope, an unraced request
\* keeps the quota, and a 201 stands for the whole batch (jobs.go:Create), for any
\* requests, devices, groups and limits.
THEOREM CreationHolds == JcSpec => CreationSound
  <1>1. CreationInv => RejectedLandsNothing
    BY Zenon DEF CreationInv, Fits, RejectedLandsNothing
  <1>2. CreationInv /\ [JcNext]_jcVars =>
          /\ [\A r \in JcRequests : landed'[r] \subseteq landed[r] \cup jcReq[r].reach]_jcVars
          /\ [\A r \in JcRequests :
                landed'[r] # landed[r] /\ ~jcRaced[r] /\ Effective >= 0
                  => Cardinality(queued') + others' <= Effective]_jcVars
          /\ [\A r \in JcRequests : jcReq'[r].pc = "created" /\ jcReq[r].pc # "created"
                => landed[r] = jcReq[r].want]_jcVars
    <2> SUFFICES ASSUME CreationInv, JcNext, NEW r \in JcRequests
                 PROVE  /\ landed'[r] \subseteq landed[r] \cup jcReq[r].reach
                        /\ landed'[r] # landed[r] /\ ~jcRaced[r] /\ Effective >= 0
                             => Cardinality(queued') + others' <= Effective
                        /\ jcReq'[r].pc = "created" /\ jcReq[r].pc # "created" => landed[r] = jcReq[r].want
      BY Zenon
    <2>0. /\ jcReq \in [JcRequests -> JcRecord] /\ jcReq[r] \in JcRecord /\ Fits(jcReq[r], landed[r], jcRaced[r])
          /\ landed \in [JcRequests -> SUBSET JcDevices]
      BY Zenon DEF CreationInv
    <2>1. jcReq'[r].pc = "created" /\ jcReq[r].pc # "created" => landed[r] = jcReq[r].want
      <3>1. ASSUME Respond(r) PROVE landed[r] = jcReq[r].want
        BY <2>0, <3>1, Zenon DEF Respond, Fits
      <3> QED BY <3>1, OwnSteps, Zenon
    <2>2. ASSUME InsertJob(r)
          PROVE  /\ landed'[r] \subseteq landed[r] \cup jcReq[r].reach
                 /\ ~jcRaced[r] /\ Effective >= 0 => Cardinality(queued') + others' <= Effective
      <3>1. PICK d \in jcReq[r].ids \ {JcUnknown} :
              queued' = queued \cup {<<r, d>>} /\ landed' = [landed EXCEPT ![r] = @ \cup {d}]
        BY <2>2, Zenon DEF InsertJob
      <3>2. jcReq[r].pc = "insert" /\ UNCHANGED <<override, others>>
        BY <2>2, Zenon DEF InsertJob
      <3>3. /\ landed[r] \cup jcReq[r].ids = jcReq[r].want /\ jcReq[r].want \cap JcDevices \subseteq jcReq[r].reach
            /\ ~jcRaced[r] /\ Effective >= 0 => JcActive + Cardinality(jcReq[r].ids) <= Effective
        BY <2>0, <3>2, Zenon DEF Fits
      <3>4. jcReq[r].ids \in SUBSET Ids
        BY <2>0, Zenon DEF JcRecord
      <3>5. d \in JcDevices
        BY <3>1, <3>4, Zenon DEF Ids
      <3>6. landed'[r] = landed[r] \cup {d}
        BY <2>0, <3>1, Zenon
      <3>7. landed'[r] \subseteq landed[r] \cup jcReq[r].reach
        BY <3>1, <3>3, <3>5, <3>6, Zenon
      <3>8. /\ JcActive' \in Nat /\ Cardinality(jcReq[r].ids \ {d}) \in Nat /\ Effective \in Int
            /\ JcActive' + Cardinality(jcReq[r].ids \ {d}) <= JcActive + Cardinality(jcReq[r].ids)
        BY <3>1, <3>2, InsertCounts, Zenon
      <3>9. JcActive \in Nat /\ Cardinality(jcReq[r].ids) \in Nat
        BY <3>4, CreationTypes, Zenon
      <3>10. ~jcRaced[r] /\ Effective >= 0 => JcActive' <= Effective
        BY <3>3, <3>8, <3>9
      <3>11. JcActive' = Cardinality(queued') + others'
        BY Zenon DEF JcActive
      <3> QED BY <3>7, <3>10, <3>11, Zenon
    <2> QED BY <2>1, <2>2, OwnSteps, Zenon
  <1> QED
    BY <1>1, <1>2, CreationInvariant, PTL
    DEF JcSpec, CreationSound, LandsInScope, QuotaUnlessRaced, CreatedIsWhole

=============================================================================
