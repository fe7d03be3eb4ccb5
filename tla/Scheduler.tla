----------------------------- MODULE Scheduler ------------------------------
(***************************************************************************)
(* The scheduler processes (server/scheduler): leader election by a        *)
(* PostgreSQL advisory lock, which lives as long as the database session   *)
(* that took it, and the evaluation of one scheduled job, with the API     *)
(* handlers that change it.  Every SQL statement is a step.  A cron        *)
(* expression is a period: it fires at its multiples.                      *)
(***************************************************************************)
EXTENDS Naturals

CONSTANTS
    Proc,         \* scheduler processes
    None,
    Device,       \* ids the target may resolve to
    Periods,
    MaxTime, MaxFaults

ASSUME SchedulerAssumption ==
    /\ None \notin Proc
    /\ Periods \subseteq Nat \ {0} /\ Periods # {} /\ {MaxTime, MaxFaults} \subseteq Nat

VARIABLES
    lock,      \* the process whose session holds the advisory lock
    pc,        \* [Proc -> where it is]
    view,      \* [Proc -> the due row it listed, and the time of its tick]
    row,       \* the row of scheduled_jobs
    members,   \* the devices the target resolves to now
    now,
    faults,
    lost       \* history: a session that held the lock was lost

vars == <<lock, pc, view, row, members, now, faults, lost>>
world == <<members, now, lost>>

\* sched.Next(t)
Following(c, t) == CHOOSE m \in (t + 1)..(t + c) : m % c = 0

LastTime == MaxTime + CHOOSE p \in Periods : \A q \in Periods : q <= p
NoView == [cron |-> 0, at |-> 0]
InTick == {"resolve", "insert", "mark"}
PCs == {"down", "standby", "waiting", "hung"} \cup InTick

\* Processes, the row and the clock have their types; what is under way in a
\* process is a row it listed as due.
TypeOK ==
    /\ lock \in Proc \cup {None} /\ pc \in [Proc -> PCs]
    /\ row \in [exists : BOOLEAN, enabled : BOOLEAN, cron : Periods, next : 0..LastTime, last : 0..MaxTime]
    /\ members \subseteq Device /\ now \in 0..MaxTime /\ faults \in 0..MaxFaults
    /\ lost \in BOOLEAN
    /\ \A s \in Proc : view[s] \in IF pc[s] \in InTick THEN [cron : Periods, at : 0..now] ELSE {NoView}

Init ==
    /\ lock = None /\ pc = [s \in Proc |-> "down"]
    /\ view = [s \in Proc |-> NoView]
    /\ row \in {[exists |-> TRUE, enabled |-> TRUE, cron |-> p, next |-> Following(p, 0), last |-> 0] : p \in Periods}
    /\ members = Device
    /\ now = 0 /\ faults = 0 /\ lost = FALSE

Fault == faults < MaxFaults /\ faults' = faults + 1
Goto(s, p) == pc' = [pc EXCEPT ![s] = p]
EndTick(s) == Goto(s, "waiting") /\ view' = [view EXCEPT ![s] = NoView]

-----------------------------------------------------------------------------
(* Leader election *)

Start(s) ==
    /\ pc[s] = "down" /\ Goto(s, "standby")
    /\ UNCHANGED <<lock, view, row, world, faults>>

TryLockAlways(s) ==
    /\ pc[s] = "standby"
    /\ lock' = s /\ Goto(s, "waiting")
    /\ UNCHANGED <<view, row, world, faults>>

TryLock(s) ==
    /\ pc[s] = "standby" /\ lock = None
    /\ lock' = s /\ Goto(s, "waiting")
    /\ UNCHANGED <<view, row, world, faults>>

\* PostgreSQL frees the lock of a session that is gone; the process that held it
\* uses the connection again only when it shuts down
LoseConnection(s) ==
    /\ Fault /\ lock = s
    /\ lock' = None /\ lost' = TRUE
    /\ UNCHANGED <<pc, view, row, members, now>>

StopKeepsLock(s) ==
    /\ Fault /\ pc[s] # "down"
    /\ pc' = [pc EXCEPT ![s] = "down"]
    /\ view' = [view EXCEPT ![s] = NoView]
    /\ UNCHANGED <<lock, row, world>>

\* a signal or a crash, anywhere in a tick
Stop(s) ==
    /\ Fault /\ pc[s] # "down"
    /\ lock' = IF lock = s THEN None ELSE lock
    /\ pc' = [pc EXCEPT ![s] = "down"]
    /\ view' = [view EXCEPT ![s] = NoView]
    /\ UNCHANGED <<row, world>>

-----------------------------------------------------------------------------
(* A tick: evaluateScheduledJobs, and then the alert rules *)

Due == row.exists /\ row.enabled /\ row.next <= now

ListDueScheduledJobs(s) ==
    /\ pc[s] = "waiting" /\ Due
    /\ view' = [view EXCEPT ![s] = [cron |-> row.cron, at |-> now]]
    /\ Goto(s, "resolve")
    /\ UNCHANGED <<lock, row, world, faults>>

\* no device at all is not an error
resolveTargets(s) ==
    /\ pc[s] = "resolve"
    /\ \/ Goto(s, IF members = {} THEN "mark" ELSE "insert") /\ UNCHANGED <<view, faults>>
       \/ Fault /\ EndTick(s)
    /\ UNCHANGED <<lock, row, world>>

\* The INSERT for the first device names "scheduler:<id>" as created_by, which is the id of no
\* row of users: the foreign key refuses it, and the dispatch ends with the row still due.
dispatchScheduledJob(s) ==
    /\ pc[s] = "insert" /\ EndTick(s)
    /\ UNCHANGED <<lock, row, world, faults>>

\* the next run after this tick, by the expression that was listed
MarkScheduledJobRun(s) ==
    /\ pc[s] = "mark"
    /\ \/ /\ row' = IF row.exists
                    THEN [row EXCEPT !.last = view[s].at, !.next = Following(view[s].cron, view[s].at)]
                    ELSE row
          /\ UNCHANGED faults
       \/ Fault /\ UNCHANGED row
    /\ EndTick(s)
    /\ UNCHANGED <<lock, world>>

\* evaluateAlertRules sends its mails within the tick, and smtp.SendMail has no timeout: with a
\* mail server that does not answer, the tick never ends and the lock is kept
SendBlocks(s) ==
    /\ Fault /\ pc[s] = "waiting" /\ Goto(s, "hung")
    /\ UNCHANGED <<lock, view, row, world>>

-----------------------------------------------------------------------------
(* The API *)

Update(p) ==
    /\ row.exists
    /\ row' = [row EXCEPT !.cron = p, !.next = Following(p, now)]
    /\ UNCHANGED <<lock, pc, view, world, faults>>

Delete ==
    /\ row.exists /\ row' = [row EXCEPT !.exists = FALSE]
    /\ UNCHANGED <<lock, pc, view, world, faults>>

SetEnabled(b) ==
    /\ row.exists /\ row' = [row EXCEPT !.enabled = b]
    /\ UNCHANGED <<lock, pc, view, world, faults>>

\* devices join and leave the groups, tags and sites of the target
ChangeMembers(d) ==
    /\ members' = IF d \in members THEN members \ {d} ELSE members \cup {d}
    /\ UNCHANGED <<lock, pc, view, row, now, lost, faults>>

Tick ==
    /\ now < MaxTime /\ now' = now + 1
    /\ UNCHANGED <<lock, pc, view, row, members, lost, faults>>

Run(s) ==
    \/ TryLock(s) \/ ListDueScheduledJobs(s) \/ resolveTargets(s)
    \/ dispatchScheduledJob(s) \/ MarkScheduledJobRun(s)

Next ==
    \/ \E s \in Proc : Start(s) \/ Run(s) \/ SendBlocks(s) \/ LoseConnection(s) \/ Stop(s)
    \/ \E p \in Periods : Update(p)
    \/ \E b \in BOOLEAN : SetEnabled(b)
    \/ \E d \in Device : ChangeMembers(d)
    \/ Delete \/ Tick

Spec == Init /\ [][Next]_vars /\ \A s \in Proc : WF_vars(Start(s)) /\ WF_vars(Run(s))

-----------------------------------------------------------------------------
(* Properties *)

Leaders == {s \in Proc : pc[s] \notin {"down", "standby"}}

\* Two processes run ticks at once only after a session that held the lock was
\* lost (Scheduler.Run); stops, restarts and failed statements do not matter.
SingleLeaderUnlessLost == lost \/ \A s, r \in Leaders : s = r

\* Runs that were missed are made up for by one: the next run always lies after
\* the last one (MarkScheduledJobRun), even with two leaders.
NoBacklog == row.next > row.last

\* last_run_at never goes back (MarkScheduledJobRun), across stops and take-overs, unless a
\* session that held the lock was lost: then a slow leader may mark after a later one.
LastGrowsUnlessLost == [][lost \/ row'.last >= row.last]_vars

\* A schedule that is due is taken up by a tick of whichever process is left, unless an operator
\* changes it first (Run, evaluateScheduledJobs).  Only a leader that hangs in a mail, and so
\* keeps the lock without ticking, leaves it to nobody.
DueIsTakenUp == Due ~> (~Due \/ \E s \in Proc : pc[s] \in {"resolve", "hung"})

\* docs/HIGH-LEVEL_DESIGN.md:65: "inserts one `queued` job per device. Then advances
\* `last_run_at` / `next_run_at`": a schedule that is due is run, unless an operator changes it
\* or a leader hangs.
DueRuns == Due ~> (~Due \/ \E s \in Proc : pc[s] = "hung")

\* scheduler.go:25: "Runs exactly one instance per cluster via PG advisory lock".
SingleLeader == \A s, r \in Leaders : s = r

\* docs/HIGH-LEVEL_DESIGN.md:65: "advances `last_run_at` / `next_run_at` via the
\* cron expression".
NextFollowsCron == row.exists => row.next % row.cron = 0

\* The safety of leader election and of the run times: two processes lead only after a lost
\* session, the next run is never in the past of the last one, and the last one never goes back
\* (Scheduler.Run, MarkScheduledJobRun).
SchedulerSafe == [](SingleLeaderUnlessLost /\ NoBacklog) /\ LastGrowsUnlessLost

=============================================================================
