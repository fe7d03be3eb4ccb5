# A TLA+ model of Moebius

Moebius manages fleets of devices: an API server and a scheduler over one PostgreSQL
database, and an agent on every device. This directory specifies the parts of it whose
correctness depends on the order of steps, checks them with TLC on small instances and
proves the main results with TLAPS for every instance.

## The system

* **API server** (`server/api`, `server/auth`, `server/store`, `server/quota`, ...):
  HTTP handlers for agents (check-in, acknowledge, result, renew, enroll, files, logs) and
  for operators (jobs, devices, files, rollouts, keys, users). A handler issues SQL
  statements through a connection pool. With few exceptions (`RevokeDevice`, enrollment,
  renewal, log batches, the start of an upload, new agent versions) they are *not* one
  transaction, and most `UPDATE`s name a row by id without repeating the condition a
  `SELECT` checked before. Rate limiters stand in front of the handlers; two subcommands
  of the server migrate the database and create the first administrator.
* **Scheduler** (`server/scheduler`): one leader, by an advisory lock; every tick creates
  due scheduled jobs, evaluates alert rules and reaps stuck jobs and old tokens.
* **Agent** (`agent/`): a poller that checks in at intervals and hands the jobs of a reply
  to the executor, one goroutine per job; Customer Device Mode (CDM), by which the local
  user holds jobs back; inventory, log shipping, certificate renewal, self-update, and a
  command line (over a local socket) and a web UI for the local user. The same binary
  installs itself as a service.

They interact through the rows of the database and through HTTP calls from agent to
server. The core of it is the life of a job, in which all of them take part:

    operator --create--> queued --check-in--> dispatched --acknowledge--> acknowledged
                           |  ^                   |                           |
                         hold release          requeue                result, reaper
                           v  |                   v                           v
                         cdm_hold               queued        completed | failed | timed_out

The other modules stand around it. `JobCreation` and `Scheduler` make the jobs whose life
`JobLifecycle` follows; `Cdm` is the manager whose three modes `JobLifecycle` has as
`CdmChange`; `Enrollment` gives a host the certificate that `Certificates` renews and
revokes; `FileUpload` stores what `FileTransfer` fetches; `Releases`, `UpdatePolicies` and
`Installers` decide what `AgentUpdate` and `Installation` put on a host.

`PROJECT.json` lists every component with the module that models it or the reason none
does, the hazards of the code with the properties that watch them, and, for every
definition that models code, the lines it models.

## Modules

| Module | Models | Steps are |
|---|---|---|
| `JobState` | `server/jobs`, `shared/models/job.go`: statuses, transition table, predicates | (operators) |
| `JobLifecycle` | one device's jobs: poller, executor, check-in, acknowledge, result, create, cancel, retry, revoke, reapers | SQL statements, HTTP replies |
| `JobCreation` | `POST /v1/jobs`: targets, the caller's scope, the queue quota, the inserts | queries and inserts |
| `Scheduler` | leader election, due schedules, the handlers that change a schedule | statements, losses of a session, stops |
| `Alerts` | alert rules, their evaluation at a tick, notifications | statements, deliveries |
| `Cdm`, `CdmMode` | `agent/cdm` with its file and the executor's gate; what it promises | methods (under one mutex), crashes |
| `LocalAccess` | `agent/localauth`, `localui`, `localcli`: sessions, and requests that act on CDM and are logged | authentication, effect, log entry |
| `LocalCA` | `agent/localui/localca.go`, `Serve`: CA and certificate of the web UI | writes of four files, stops |
| `Ipc` | `agent/ipc`: server, connections, clients shared by goroutines | reads, writes, closes |
| `AgentUpdate` | `agent/executor/update.go`, `rollback.go`, `agent/update`: staging, backup, swap, pending file, automatic rollback | file operations, reports, stops |
| `Inventory` | collector, check-in delta, full inventory, package jobs, the server's rows | collections, statements |
| `LogShipper` | buffer, batches, retries, shutdown; the server's `Ingest` | flush, request, commit, answer |
| `Certificates` | renewal on both sides, the mTLS middleware, revocation, the agent's two files | statements, transactions, file writes, stops |
| `Enrollment` | tokens, enrollment, device quota, scope, the agent's identity files, the token reaper | statements, the transaction, file writes, stops |
| `FileUpload` | chunks, completion, verification, download, deletion, the storage backend | statements and file operations |
| `FileTransfer` | the agent's downloads: temporary path, verification, rename | file operations, stops |
| `Releases` | agent versions with their binaries, rollouts | statements, transactions |
| `UpdatePolicies` | policies of groups and of the tenant, the search for the one that applies | statements |
| `Installers` | registry of installers and signing keys, the generated install script | statements, the script's downloads |
| `Installation` | `install`/`uninstall` on Linux and the service they set up | changes to the machine, each of which may fail |
| `Bootstrap` | `migrate` and `create-admin` | statements and transactions |
| `Accounts` | roles, users, SSO subjects, API keys | statements |
| `Memberships` | groups, sites, tags and their members; the audit entry of a request | statements |
| `RateLimiter` | token buckets, the chain of limiters, eviction, `Retry-After` | reading the clock, taking the lock |
| `Pagination` | the walk of a reader over the pages of a list | pages, inserts, deletes |

`MCJobLifecycle`, `MCScheduling`, `MCAgent`, `MCDelivery` and `MCTenant` are the modules
that TLC runs; `JobLifecycleProofs`, `SchedulingProofs`, `TrafficProofs`, `TenantProofs`,
`ServerProofs`, `FilesProofs`, `AgentProofs` and `HostProofs` hold the proofs.

Conventions: names are those of the source where TLA+ allows it, with a prefix where two
modules of one run would clash (`cdmNow`, `CdmInit`). A request or goroutine keeps its
program counter and what it has read in a record; everything it has read may be stale when
it is used. History variables say so in their comment. They exist so that a property can
name its exception: `...UnlessOverlap`, `...UnlessFault` and `...UnlessRaced` hold whenever
the flag is not set, and the flag is set by the one thing in the code that breaks them. The
operators that stand just before a definition and change it in one place are the variants
by which `PROJECT.json` (`mutants`) shows that a property depends on that definition.

### JobLifecycle

`status`, `dispatchedAt`, `acknowledgedAt`, `retryCount`, `maxRetries` and `parent` are the
columns of table `jobs`; `results` says which jobs have a row in `job_results`; `device` and
`cert` are the columns the mTLS middleware reads. Of a timestamp it matters whether it is
set and whether it is older than the cutoff some statement compares it with: `expired`
holds the jobs for which that time has come. One flag stands for the cutoffs of the
check-in (60 s) and of the reapers, so the model lets the shorter one expire everything;
that only adds behaviours.

Every statement is one step, for other requests run between any two. A request keeps its
program counter with its caller (`checkin` for the poller, `pc` for executor goroutines and
operator requests), the job it is about (`on`) and the status its `SELECT` returned
(`seen`). `Overwrite` is an `UPDATE` by id: it changes the row whatever its status is, and
records in the history variable `lostUpdate` that the status had changed since the
`SELECT`. `UpdateWhere` is an `UPDATE` whose `WHERE` clause names the status. The other
history variables are `runs`, how often a job was executed, and `manual`, the jobs an
operator's retry created.

| Code | Actions |
|---|---|
| `Poller.checkin`, `CheckinHandler.ServeHTTP` | `CheckinStart`, `CheckinDevice`, `CheckinReport`, `CheckinRequeue`, `CheckinMark`, `HandleJob`, `CheckinDone`, `CheckinFail` |
| `fetchDispatchableJobs` | `CheckinHold`, `CheckinRelease`, `CheckinSelect` |
| `Executor.runJob` | `Gate`, `Execute` |
| `Acknowledge` | `AckRead`, `AckWrite` |
| `SubmitResult`, `createRetryJob` | `ResultRead`, `ResultInsert`, `ResultUpdate`, `ResultRetry` |
| `JobsHandler` | `Create`, `CancelRead`, `CancelWrite`, `RetryRead`, `RetryInsert` |
| `RevokeDevice` | `Revoke` |
| `Scheduler.runTick` | `reapStuckDispatchedJobs`, `reapStuckInflightJobs`, `Expires` |
| `cdm.Manager`, `runDaemon` | `CdmChange`, `FeedCdmState`, `AgentRestart` |

A failed statement, a lost request or a lost reply is `CheckinFail`, `RequestFail` or the
faulty branch of an action whose error the handler only logs; `MaxFaults` bounds them
together with restarts. The statuses `pending` and `running` are in the table of
`state.go` and nothing writes them. An update report (`UpdateReports`) is part of the
check-in protocol and of its handler, although the poller of this revision never sends one.

Assumptions: a handler ends with its caller (when the agent is gone, the request context is
cancelled and no further statement runs; `Certificates`, where it matters more, has handlers
that outlive their caller). Ids are handed out in the order of `created_at`, which the
check-in sorts by. `Create` is one row, for the model has one device, and its quota check
may refuse, which is the same as no request; `JobCreation` has the whole handler. Audit
entries and inventory rows are written by the same handlers and decide nothing here.

### The server around the jobs

* **Scheduler.** `lock` is the advisory lock, owned by a database session; `LoseConnection`
  frees it without telling the leader. A tick lists the due row (`view`), resolves the
  target, inserts the jobs and marks the run, each in its own statement; an error leaves
  the tick. A cron expression is a period that fires at its multiples. The `INSERT` of the
  first job is refused by a foreign key of the schema (see the disagreements), so
  `dispatchScheduledJob` inserts nothing and only a schedule without devices gets to
  `MarkScheduledJobRun`. `SendBlocks`: the alert rules are evaluated in the same tick, and a
  mail server that does not answer keeps the tick, and with it the lock, for ever.
* **Alerts.** Nothing remembers that a rule fired, so a tick evaluates the rule afresh; the
  scope, the condition and the list of devices it has read may be stale. A device that has
  never checked in has no `last_seen_at` and matches nothing; a message names at most
  `MaxNamed` devices; the webhooks come first; a delivery may fail and is not repeated
  before the next tick, and a mail may never return. `told` follows one device, `Subject`.
* **JobCreation.** `resolveTargets`, `FilterDeviceIDs`, `CheckQueuedJobs` and the inserts are
  separate statements; groups stand for groups, tags and sites. Members move and other
  jobs come and go in between.
* **Accounts, Memberships, Releases, UpdatePolicies.** Read-check-write handlers, one
  statement per step; the constraints of the schema (foreign keys, unique indexes, the
  `NULL` that a unique index does not compare) are the guards of the writes. `Memberships`
  writes the audit entry after the change, or counts its failure, and then reads the row for
  the reply, which may fail or find it gone; the commit of a statement may be in doubt.
* **RateLimiter.** `Allow` reads the clock before it takes the lock, so readings reach a
  bucket out of order; `maybeCleanup` runs every `Every` calls. A token is `Token` units and
  one unit flows in per tick, which keeps fractions of tokens whole. Burst, rate and time to
  live are settings of each limiter that nothing compares with each other.
* **Bootstrap.** Migrators of different releases run at once; each file is a transaction
  with the row that records it. `create-admin` commits each of its inserts by itself; its
  key is not counted against the ceiling of keys, which is the handlers' (`Accounts`).
* **Pagination.** `born` is the order by `created_at`, ids are any permutation of it, a page
  is the set of the newest rows that match, and the cursor compares ids.

### The agent

* **Cdm.** Every method is a step, for it holds the mutex; `file` is whole, absent or torn;
  a decision whose write failed stays in memory. `word` is what the user was last told.
  `CdmMode` is the same with nothing but the mode that is enforced and the one that is
  saved; `Cdm` implements it under the mapping `ModeOf`.
* **LocalAccess.** A request passes `Validate`, then acts, then is logged; sessions end by
  logout, by the deadlines, by `Cleanup` and by a restart.
* **LocalCA.** Four files, each truncated and then written, made when missing and rotated
  when `Serve` starts; a `Serve` that fails is logged, and nothing but a restart of the
  agent tries again. Key pairs are numbers.
* **Ipc.** A connection is two first-in first-out streams; the server has one goroutine per
  connection and one that closes it when the context ends; callers share a client's mutex.
* **AgentUpdate.** `bin`, `staging`, `prev` and `pending` are the paths every job uses; a
  stop may come between any two operations and in the middle of a copy, and each operation
  may fail: the copy may leave a torn backup, the record may not be written after the
  rename, and the start may fail to remove it.
* **Inventory.** The poller, package jobs and full inventory jobs (`Fulls`, several at a
  time) share the collector's snapshot; the server applies a delta, or replaces the rows,
  statement by statement, and goes on when a statement fails.
* **LogShipper.** One request at a time; a connection may break with the request still at
  work on the server, or stall. An entry is its number.
* **Certificates.** `certs` are the rows, `crt` and `key` the files, `conn` the certificate
  of the open connection. Renewals and check-ins occupy `Slots` on the server and may
  outlive the agent that sent them.

### Enrollment, files and installation

* **Enrollment.** Hosts present tokens at once; consuming the token is one statement, the
  device with its groups and certificate one transaction, the agent's files four writes.
* **FileUpload.** Rows, staging directory and stored file; a storage path names an inode,
  so that a completion that opens it again empties what another has verified. Of contents
  only matters whether they are what the declared SHA-256 stands for; `signed` means that
  the row has both a signature and the id of its key, which is what verification and
  download ask for.
* **FileTransfer.** Jobs for one file share its temporary path; paths name inodes.
* **Installers.** A machine runs the generated script: three downloads and a comparison,
  with releases, deletions and the end of the token in between.
* **Installation.** Each change to the machine may fail and end the run; the operator runs
  it again. An uninstallation stops, disables and removes one thing after the other and goes
  on whatever fails. Owners and modes decide what the service may read.

## Runs

| Run | Explores | Checks |
|---|---|---|
| `redispatch` | `JobLifecycle`, 2 goroutines, 3 jobs (one created), 1 retry | at most one execution and one retry job, unless a status was overwritten |
| `operators` | `JobLifecycle`, 1 goroutine, 1 operator, 2 jobs, 1 retry | state machine up to lost updates, retry budget, acknowledged before run |
| `cdm` | `JobLifecycle`, 1 goroutine, 1 job, 1 fault, all CDM modes, an update report | types, reapable rows, results before completion, drain while a session is open |
| `scheduling` | `Scheduler`, `Alerts`, `LogShipper`, `Pagination` | leadership, run times, logs in order; that due schedules are taken up, outages are reported, entries leave and walks end |
| `agent` | `Certificates`, `Cdm`, `LocalAccess`, `LocalCA`, `AgentUpdate`, `Ipc`, `Inventory` | the safety of each, that what is begun ends, and that `Cdm` implements `CdmMode` |
| `delivery` | `Enrollment`, `FileUpload`, `FileTransfer`, `Releases`, `UpdatePolicies`, `Installers`, `Installation` | the safety of each |
| `tenant` | `Bootstrap`, `Accounts`, `Memberships`, `JobCreation`, `RateLimiter` | the safety of each |
| `final`, `disabled`, `timedout`, `revoked` | `JobLifecycle`, 1 or 2 jobs | four statements of the documentation that the code does not meet |
| `schedule` | `Scheduler`, 2 processes | a fifth: a schedule that is due is run |

### One run for several components

The components of `scheduling`, `agent`, `delivery` and `tenant` share no variables, and each
property speaks of one of them. The MC module extends them all and has one more variable,
`part`, fixed by the initial state: the component it names takes its steps, the others stay
as they start (in one of their initial states, where they have several). The reachable
states are therefore the disjoint union of those of the components and not their product,
and an invariant or an action property of one component holds in the run exactly if it
holds of the component. A liveness property whose antecedent is true at the start is
required only where its component moves (`WalkEnds` in `LogsAndWalksEnd`). Fairness
carries the same condition. A component that may come to an end (a clock at its bound, all
requests made) is allowed to stutter in the MC module; for the others deadlock is checked.

Each component's properties are collected in one formula (`SchedulerSafe`, `UpdatesSound`,
...), stated in its module together with the parts it consists of. The parts:

| Checked as | Consists of |
|---|---|
| `SchedulerSafe` | `SingleLeaderUnlessLost`, `NoBacklog`, `LastGrowsUnlessLost` |
| `ShippedInOrder` | `NothingVanishes`, `OnceInOrderUnlessBroken`, `BufferInOrder` |
| `LogsAndWalksEnd` | `EntriesLeave`, `WalkEnds` |
| `CertificatesSafe` | `CurrentUnlessFault`, `OneLiveUnlessOverlap`, `RevokedStaysOut` |
| `KeepsTheWord` | `FileKeepsTheWord`, `AdmittedWithConsent` |
| `SessionsSound` | `EndedStaysEnded`, `AuthenticatedInTime`, `NoEarlyRemoval` |
| `ServesItsCertificate` | `ServesItsOwn`, `ServesFresh`, `GivesUpOnlyEarly` |
| `UpdatesSound` | `BootableUnlessCut`, `RecordedUnlessCut`, `RollbackRestores`, `OnlyLateIsUndone` |
| `SocketSafe` | `StoppedIsQuiet`, `AnswerIsMine` |
| `AgentProgress` | the liveness of the agent's parts: `SessionsEnd` (CDM), `DeadSessionsGo`, `JobsEnd`, `ServeReturns`, `CallReturns` |
| `EnrollmentSound` | `OneDevicePerToken`, `IdMeansComplete`, `QuotaUnlessOverlap`, `UsedTokensAreKept`, `NeverHalfScoped` |
| `UploadsSafe` | `CompletedIsStored`, `ListedIsStaged`, `ServedIsVerifiedUnlessOverlap` |
| `TransfersSafe` | `WholeUnlessOverlap`, `NoTempLeft` |
| `ReleasesSound` | `PublishedIsWhole`, `PublishedOnce`, `LegalUnlessRaced` |
| `PoliciesSound` | `OnePerGroup`, `GroupsTakePrecedence` |
| `InstallersSound` | `InstalledAsReleased`, `KeysStay`, `RegisteredStays` |
| `InstallationSound` | `WayBack`, `KeptUnlessPurged`, `SuccessIsWhole` |
| `BootstrapSafe` | `RecordIsTheSchema`, `SuccessIsCurrent`, `FailsOnlyByFaultUnlessOverlap`, `AdminRunSucceeds` |
| `AccountsSound` | `AssignedExists`, `OneUserPerSubject`, `KeysWithinQuotaUnlessRaced`, `PatchKeepsTheRestUnlessOverlap` |
| `MembershipsSafe` | `DoneUnlessUndone`, `RecordedOrCountedIfAnswered` |
| `CreationSound` | `RejectedLandsNothing`, `LandsInScope`, `QuotaUnlessRaced`, `CreatedIsWhole` |
| `LimiterSound` | `RateBound`, `RetryAfterHolds`, `EvictionIsFree` |

`ExactUpToInversions` (a walk over the pages of a list misses or repeats a row only where ids
and times of creation disagree), `DueIsTakenUp`, `OfflineIsReported`, `SyncedUnlessDrift` and
`ImplementsCdmMode` are checked by themselves, and `Types` is the type invariant of the
component that moves.

### Bounds

A race on a job is between two requests about it, so two goroutines, or a goroutine and an
operator, show each; a retry chain of length one has both the retry that is allowed and the
one that is not; with `Limit` 1 the `LIMIT` of the check-in leaves a queued job behind in
`redispatch` and `operators`; one fault at any of its places shows every single failure.
`runs` stops at 2, "twice or more". Executions that end in `restarting` occur in `cdm`. In
`redispatch` goroutines are symmetric, and no liveness is checked there. No run turns off
the deadlock check: in every state of `JobLifecycle` a check-in can start or proceed, or,
once the device is revoked, time, the reapers or operators go on.

The other components are bounded alike: two of whatever can race (processes, hosts,
requests, jobs, clients' threads, migrators), and the smallest counts that have both sides
of every comparison.

* Two scheduler processes, a target with a device or without, and periods that come round
  twice: a leader that loses its session while another takes over and each marks a run.
  Two devices of which a message names one, a webhook and a mail address. `MaxBuffer` 2
  with three entries fills the log buffer while a batch is away, and two faults give a
  broken connection followed by a refused batch. Three rows on pages of one to three have
  every inversion of two ids inside and across pages.
* Certificates live two ticks and are renewed one before the end, for four ticks: a renewal
  in time, one too late and one that fails. Sessions of one and two ticks, a web lifetime
  of three and a clock of four put a request on each side of both deadlines; one token is
  enough, for sessions do not read each other. Two jobs, each an update or a rollback, start
  from a build without a version, which may be updated to anything; two stops are a restart
  into the update and one more. Two threads share one client. Two packages, one of which
  changes while the other is on its way, and two full inventories side by side.
* Two hosts and two tokens with a quota of one device: one token twice, two tokens at once.
  Two chunks, two completions. Two versions with two binaries each. Five runs of the
  installer: install, a failure, upgrade, uninstall, purge.
* Two migrators with two files; two administrators; two requests on one custom and one
  system role, a ceiling of one key; two containers and two devices; a quota of two jobs
  for two devices, with other jobs that come and go; two limiters with bursts two and one, and a
  clock that passes the eviction time. The first limiter refills before it evicts, the
  second does not, and so `RetryAfterHolds` is checked of both and the rest of the first.

In `delivery` and `tenant` requests, hosts, devices and the like are symmetric. The same model
values are used for sets of different components, so that one permutation serves them all;
every set that contains one of two interchangeable values contains both.

### Fairness

`JobLifecycle`: weak fairness of the check-in (the poller loops over a timer), of every
goroutine, of the feeding of the CDM state and of both reapers (tickers), and of the
passing of time. Operators, the local user and faults are not forced. This assumes that
executions and HTTP calls return; the agent's HTTP client has no timeout of its own.
`SessionDrains` also assumes `Timely`: from some point on the agent acknowledges a job
before the cutoff for dispatched jobs passes, a minute against a call made at once.
Without that the server would requeue and the agent re-receive the job for ever.

The rest is of the same kind: what a goroutine, a ticker or a supervisor of the code drives
is weakly fair, what a person, the network or a fault decides is not.

| Component | Weakly fair | Because |
|---|---|---|
| `Scheduler` | `Start(s)`, `Run(s)` of each process | the service manager restarts it; a ticker loop. A process that hangs in a mail is not forced to go on, so `DueIsTakenUp` has it as an exception |
| `Alerts` | `Ticks` | the same loop; webhooks are posted with a timeout, mails are not, so that `OfflineIsReported` excepts a mail that hangs |
| `LogShipper` | `Shipper`, `Ingest`, `Cancelled` | the shipper's ticker, the server's handler, the cancelled context. A stalled connection is not forced to end, so `EntriesLeave` has it as an exception |
| `Pagination` | `List` | the reader asks for the next page as long as there is a cursor |
| `Cdm` | `CdmTick`, `Snapshot`, `CdmStart` | time, the one-second feed, the service manager |
| `LocalAccess` | `Cleanup` | its ticker |
| `AgentUpdate` | `UpdStart`, `JobStep(j)` | the service manager; a goroutine per job |
| `Ipc` | each goroutine: `ServeStep`, `CloseListener`, `HandlerStep(c)`, `CloseConn(c)`, `CallStep(k)` | the Go scheduler |

`LocalCA` and `Inventory` have no fairness: nothing restarts a web UI that gave up but a
restart of the agent, and nothing orders a full inventory but an operator, so that their
repairs are stated as safety (`GivesUpOnlyEarly`, `SyncedUnlessDrift`).

## Proofs

TLC shows a property on one instance; the theorems show it for every value of the constants
that the named assumptions of the modules admit: any number of jobs, processes, hosts,
requests and faults. `PROJECT.json` lists them. For each component there is a theorem that
its inductive invariant always holds and one that its contract (the formula of the table
above) follows; some parts of contracts are theorems of their own too. An inductive
invariant says what a handler, a process or a user may still rely on between two steps. TLC
checked the larger ones on small instances before they were proved.

A proof that an invariant is preserved has one step per action. Leaves without arithmetic
or sequences cite `Zenon`; the SMT solver is kept for the rest.

### JobLifecycle (`JobLifecycleProofs`)

From `ConstantsAssumption`:

* `TypeCorrect`, `AlwaysReapable`, `AckBeforeRun`, `ResultBeforeCompletion`, `RetryBudget`,
* `AtMostOnce`: a job whose status no stale `UPDATE` overwrote runs once at most,
* `OneAutoRetry`: and is retried automatically once at most,
* `StateMachine`: a status moves along `validTransitions`, by a release from `cdm_hold` or by
  an update report; other moves are made only by jobs that a stale `UPDATE` has overwritten.

None of these is inductive as it stands. The invariant `IInv` adds what a handler still
knows when it comes to its next statement:

* `RowsExist`: requests and replies are about rows that exist, and an id not yet used has
  no parent;
* `ReadsAllowWrites`: what the `SELECT` returned allows the write (an acknowledgement was
  read as dispatched, a result as acknowledged or running, with a known status);
* `Progress`: a goroutine past the acknowledgement left the timestamp in the row, one past
  the result row left that, one about to retry has a retry left;
* `Ownership`: as long as a job was not overwritten, at most one goroutine is past its
  acknowledgement and none while it can still be acknowledged (`OneRunner`), and at most one
  gets to retry it, after which its status is final (`OneRetrier`).

That is the argument why runs do not repeat: an acknowledgement is written only if the row
was read as dispatched; if it still is dispatched then nobody is past the acknowledgement,
and if it is not then the write is a lost update. Even the types need `ReadsAllowWrites`,
which keeps `restarting` out of the table. The proof splits `Next` into two kinds of step the
invariants need not tell apart (statements guarded by status, ends of requests) and the
other actions. In each of `redispatch`, `operators` and `cdm` some job does run twice, by a
lost update, so the provisos are needed.

### Scheduler and JobCreation (`SchedulingProofs`)

* **Scheduler**, from `SchedulerAssumption`: `SchedulerHolds`. `LeaderInv`: unless a session was
  lost, whoever leads holds the lock, which has one holder. `ClockInv`: all that a process
  has listed lies in the past, so that the next multiple of the period lies after now.
  `GrowInv`: unless a session was lost, whoever is in a tick began it after the last run, and
  so a mark never moves `last_run_at` back.
* **JobCreation**, from `JobCreationAssumption`: `CreationHolds`. `CreationInv` follows each
  request: what it has resolved its targets to, what of that it may reach, and that what it
  has inserted and what it has still to insert make up what it wants. `Fits`: as long as
  nobody else inserted since the count, what it has still to insert fits into the quota.

### LogShipper and RateLimiter (`TrafficProofs`)

* **LogShipper**, from `LogShipperAssumption`: `ShipperHolds`. `PostInv`: the request the
  shipper waits for is the only one and carries its batch. `OrderInv`: unless a connection
  broke, what is stored, the batch and the buffer follow each other in the order of logging.
* **RateLimiter**, from `RateLimiterAssumption`: `LimiterHolds`. What is surprising here is
  that readings of the clock take the lock out of order, so that a bucket's `lastTime`
  moves backwards and a later call counts the same seconds again. `BucketInv` shows that
  this gives nothing away: for every moment, what a bucket lacks of its burst covers all
  that was granted since then less what has flowed in (`Covered`), because the
  out-of-order reading took the same amount out. `AbsentInv`: for a key without a bucket
  all that was ever granted has had the time to flow in again, even for a call that has
  read the clock already. `WaitInv`: a reading is `MaxLag` old at most when it is applied.
  `PromiseInv`: the bucket has a token at the time `Retry-After` named. `RateBound` and
  `EvictionIsFree` are about limiters that refill before they evict (`RefillsInTime`,
  thirty seconds against ten minutes or more with the default settings); a limiter configured
  otherwise forgets what a key has used, and keeps `Retry-After` nevertheless.

### Bootstrap, Accounts and Memberships (`TenantProofs`)

* **Bootstrap**, from `BootstrapConstants`: `BootstrapHolds`. `LoopInv`: all files below the one
  a migrator is at are in effect, and as long as nobody else was at work none above; hence a
  file only conflicts after an overlap. `AdminInv`: a run of `create-admin` that is under way
  found the tables, and they stay.
* **Accounts**, from `AccountsAssumption`: `AccountsHold`. `AccountRequestInv`: what a `PATCH`
  has read is the row as it is, unless another request has written it since (then the
  update counts as overtaken). `KeyInv`: as long as creations of keys did not race, one at a
  time is between count and insert, and there is room for its key.
* **Memberships**, without assumptions: `MembershipsHold`. `RequestInv`: what a request is to
  add is still to do, in place or taken away since; the row it created or renamed is there
  or was deleted since, the one it deleted is gone; and what it has done is recorded or
  counted from `LogAction` on.

### Enrollment and Pagination (`ServerProofs`)

* **Enrollment**, from `EnrollmentAssumption`: `EnrollmentHolds`. `TokenInv`: a request past
  `ValidateAndConsume` holds a token that is spent, that no other request holds and that no
  device has; hence the transaction that adds the device keeps `OneDevicePerToken`.
  `FileInv`: what a host has written so far is the device of the reply, and the id is
  written last. `QuotaInv`: without overlap one request at a time is between the count and
  the commit, so the count is still right.
* **Pagination**, from `PaginationAssumption`: `WalksExact`. `WalkInv` looks at a walk between
  two pages: a row that stays and was not delivered yet has an id below the cursor
  (`StillToCome`), and one that was delivered has not (`NotAgain`), each unless some cursor's
  row witnesses the contrary. The lemmas about a page are about finite sets in an order:
  what a page leaves out is older than all that is on it (`NewestIsNewest`), its cursor is
  its oldest row (`OldestYoungest`), and fetching one row more tells the last page
  (`FetchedAll`).

### FileUpload and FileTransfer (`FilesProofs`)

* **FileUpload**, from `FileUploadAssumption`: `UploadsHold`. `RowInv` and `StagedInv`: what the
  row promises and what is staged while the upload is open. `CompletionInv`: while
  completions do not overlap, the one at work writes the inode the path names, and what it
  found good is what it wrote. `SealedInv`: a stored file is whole and no completion is about
  to write it again.
* **FileTransfer**, from `FileTransferAssumption`: `TransfersHold`. `JobInv` and `NameInv`: which
  inode a job writes, that no inode has two names, and that a job writes only to inodes of
  its file. `AloneInv`: without overlap, what a job has written and verified is still there
  when it renames. `TempInv`: a temporary file belongs to a job at work unless the agent
  stopped.

### Cdm, Certificates, LocalCA, AgentUpdate and Inventory (`AgentProofs`)

* **Cdm**, from `CdmAssumption`: `CdmTypes`; `WordKept`; and `Refinement`, `CdmSpec =>
  ImplementsCdmMode`. `WordInv`: unless the last decision was answered with an error, both
  the state of a running manager and a file that is not torn agree with what the user was
  told, where a session that is over agrees with "held". The statement about the file alone
  is not inductive: `Enable` copies memory to the file. The refinement maps memory and file
  to their modes (`ModeOf`); each action is a step of `CdmMode` or leaves the modes alone,
  and an expiry noticed by a read is `CdmMode`'s own.
* **Certificates**, from `CertificatesAssumption`: `CertificatesHold`. `OverlapInv`: a renewal
  in its transaction is the only one, and will revoke all that is live. `RevokedInv`: after
  a revocation a certificate comes back only by a renewal, and the status only by a
  check-in, that had passed the middleware before. `FilesInv`: without faults the only
  renewal on the server is the one the agent waits for, and what it has written so far is
  the certificate of the answer.
* **LocalCA**, from `LocalCAAssumption`: `WebCertificateHolds`. `WebInv`: a certificate that can
  be read is one of the CA in the files, which is not made again once both its files are
  there, and what `Serve` is about to load is not due for rotation. `CAInv`: the CA's files
  belong together unless its key was cut off; hence a `Serve` that nothing disturbs fails
  only over a certificate that is not due.
* **AgentUpdate**, from `AgentUpdateAssumption`: `UpdatesHold`. `UpdJobInv`: what a job has
  verified, backed up or put in place is still there. `AloneInv`: that is so while jobs do not
  overlap. `UpdFilesInv`: the binary is a released one unless a torn backup was put in
  place; the record names the version in the backup unless an update was made on top of an
  unsettled one; and a binary nobody has verified yet is recorded, unless a stop or an error
  came between the rename and the record.
* **Inventory**, from `InventoryAssumption`: `InventoryHolds`. `SyncInv`: what the rows have, what
  the statements under way are still to change and what a full inventory is about to insert
  make up the agent's snapshot, from a full inventory that equals it until something on the
  list of `drift` happens.

### Ipc, Releases, UpdatePolicies, Installers, Installation and LocalAccess (`HostProofs`)

* **Ipc**, from `IpcConstants`: `SocketHolds`. `ConnInv`: a connection carries one message at a
  time, in a stream or with its handler, and only while the goroutine that holds the mutex
  waits for it, unless an end is closed. `ServerInv`: the listener is closed before `Serve`
  waits for the handlers.
* **Releases**, without assumptions: `ReleasesHold`. `RelRequestInv`: what a request has inserted and has still to
  insert make up the version; while it holds the version nobody else has published it; and
  an operation on a rollout starts from the status it has read or is late.
* **UpdatePolicies**, from `UpdatePoliciesAssumption`: `PoliciesHold`. `PolicyInv`: a group
  whose policy was there all along a search is still to be asked for.
* **Installers**, from `InstallersAssumption`: `InstallersHold`. `RegistryInv`: rows refer to
  files and keys that are there. `ScriptInv`: the script has the row of its version, and
  what it has downloaded is what was released.
* **Installation**, from `InstallationAssumption`: `InstallationHolds`. `RunInv`: what a run has
  in place before each of its steps, whatever earlier runs left.
* **LocalAccess**, from `LocalAccessAssumption`: `SessionsHold`. `LocalInv`: a session in the
  table was used within its deadlines (`Deadline`), and one that has ended never returns.

### Only model-checked

* All liveness (`SessionDrains`, `DueIsTakenUp`, `OfflineIsReported`, `LogsAndWalksEnd`,
  `AgentProgress`): fairness and `ENABLED` are out of the reach of the provers used here.
  `Alerts` has no other property.
* `Types` of the four MC modules, which only selects, by `part`, the type invariant of the
  component that moves. The inductive invariants contain the types their arguments need,
  which for most components are all of them.
* The disagreements below.


## Disagreements

Where a document, a comment or a test of the repository says more than the code does, the
statement is a property of the module that models the code, with the quotation above it.
Paths are relative to `src/`. Five of them have runs, which end with the counterexample:

* `TerminalStatesAreFinal` (run `final`): The check-in marks the jobs it selected with
  UPDATE ... WHERE id = $3 and no status condition, as do Acknowledge, SubmitResult and
  Cancel, so a job cancelled between the SELECT and the UPDATE becomes dispatched and runs;
  docs/IMPLEMENTATION_PLAN.md:289 says "State transition validation (no skipping states,
  terminal states are final)".
* `DueRuns` (run `schedule`): dispatchScheduledJob inserts every job with created_by =
  "scheduler:" + the schedule's id; jobs.created_by references users
  (server/migrate/sql/001_initial_schema.up.sql:142), where no such row is ever created, so
  the first INSERT fails, no job is created and the schedule stays due;
  docs/HIGH-LEVEL_DESIGN.md:65 says the scheduler "inserts one `queued` job per device. Then
  advances `last_run_at` / `next_run_at` via the cron expression".
* `DisabledDrains` (run `disabled`): cdm_hold jobs are released only by a check-in with CDM
  enabled and a session active; after the user disables CDM the held jobs are never queued
  again; docs/AGENT_CHECKIN_AND_CORE_DESIGN_SPEC.md:174 says "CDM disabled | Jobs dispatched
  normally".
* `TimedOutIsRetried` (run `timedout`): reapStuckInflightJobs sets timed_out and creates no
  retry job, only SubmitResult does; the state diagram of
  docs/AGENT_CHECKIN_AND_CORE_DESIGN_SPEC.md:107 says "TIMED_OUT ──► (retry policy) ──►
  QUEUED".
* `RevokedStaysRevoked` (run `revoked`): The check-in sets devices.status to online
  unconditionally, so a check-in that passed the middleware before RevokeDevice committed
  puts a revoked device back online; docs/AGENT_AUTH_SPEC.md:168 says "Device record is
  marked `revoked`" and docs/REST_API_SPEC.md:284 says "marks device as revoked".

TLC finds the others violated in the same way, in a run of the module that defines them on
an instance of the size the passing runs use; their configurations are not kept here. The
properties that the passing runs check are what remains true instead, for example
`ServedIsVerifiedUnlessOverlap` of `ServedIsVerified`.

**JobLifecycle**

* `HoldLeavesNothingDispatched`: A check-in that reports CDM without a session moves queued
  jobs to cdm_hold and leaves dispatched ones alone;
  docs/AGENT_CHECKIN_AND_CORE_DESIGN_SPEC.md:178 says "Any remaining `DISPATCHED` jobs
  requeue to `CDM_HOLD`", and agent/executor/executor.go:66 says of a job the agent refused
  "it will be requeued to CDM_HOLD on the next check-in when we report no session".

**Cdm**

* `NoJobStartsAfterExpiry`: runJob asks CanExecuteJob before the acknowledge call and starts
  the job after it; when the session ends during that call the job starts after the
  deadline, and the job_executed audit entry (executor.go:88-94) is skipped because the
  session is no longer active. docs/IMPLEMENTATION_PLAN.md:422 says "If session expires
  during execution → in-flight job completes, no new jobs started".

**LocalAccess**

* `ToggleStatesOldState`: The handlers pass fixed strings to LogCDMToggle (server.go:311 and
  323, localcli/ipc.go:112 and 128), so enabling CDM twice, or disabling it while it is off,
  logs a change that did not happen. docs/LOCAL_UI_CLI_SPEC.md:201 lists for the CDM toggle
  entry "timestamp, username, interface, old state, new state".

**LocalCA**

* `NeverServesExpired`: EnsureCert runs once, when Serve starts, and TLSConfig pins the
  loaded certificate; an agent that runs for 90 days serves an expired certificate.
  docs/LOCAL_UI_CLI_SPEC.md:63 says of the localhost certificate "Rotated automatically by
  the agent before expiry".

**FileUpload**

* `ServedIsVerified`: Nothing claims the upload between the SELECT and the UPDATE of
  completed_at (files.go:409), so a retried or concurrent completion opens the same storage
  path with os.Create (storage.go:54) after the first one set signature_verified, and
  Download and ServeFileData hand out the truncated file. files.go:385-387 says "a file with
  a stored signature is guaranteed to be verifiable by the time it is ever served".
* `InUseIsKept`: The active jobs are counted (files.go:535) before and apart from the DELETE
  at files.go:560, so a file_transfer job created in between refers to a file that is gone.
  docs/FILE_TRANSFER_SPEC.md:191 says of the delete "Fails if the file is referenced by any
  pending or active transfer jobs."
* `ExpiredIsNotCompleted`: UploadChunk refuses an expired session (files.go:206) but
  CompleteUpload does not look at expires_at, so a session whose chunks are all there
  completes at any later time. docs/FILE_TRANSFER_SPEC.md:77 says "Upload sessions expire
  after 24 hours of inactivity".
* `RejectedIsDeleted`: A failed checksum or signature deletes the stored data and returns;
  the rows of files and file_uploads stay. docs/FILE_TRANSFER_SPEC.md:128 says "If either
  check fails, the upload is rejected and the file record is deleted."
* `UnsignedIsDownloadable`: InitiateUpload stores NULL for an absent signature (nullIfEmpty,
  files.go:127), and Download, GetFile and ListFiles scan the column into File.Signature, a
  plain string (shared/models/file.go:22), which pgx refuses for NULL; Download then answers
  404. docs/FILE_TRANSFER_SPEC.md:76 says "`signature` and `signature_key_id` are optional".

**Pagination**

* `EachRowOnce`: The cursor compares ids (files.go:451, auditlog.go:87, store/users.go:26,
  store/agent_versions.go:103) while the rows are ordered by created_at, and ids are random
  (shared/models/id.go:13), so following next_cursor skips rows and repeats others.
  docs/REST_API_SPEC.md:37 says "`cursor` is opaque and stable" and "safe to bookmark and
  resume".

**Scheduler**

* `SingleLeader`: The loop that runs ticks never looks at the connection that holds the
  advisory lock again, so a leader whose session is gone goes on next to the one that took
  the lock over. scheduler.go:25 says "Runs exactly one instance per cluster via PG advisory
  lock", docs/HIGH-LEVEL_DESIGN.md:62 "Single active instance via PostgreSQL advisory lock
  (leader election)".
* `NextFollowsCron`: MarkScheduledJobRun writes the next run computed from the expression
  listed at the start of the tick over the one Update has just set
  (api/scheduled_jobs.go:199). docs/HIGH-LEVEL_DESIGN.md:65 says it "advances `last_run_at`
  / `next_run_at` via the cron expression".

**Alerts**

* `ScopedStaysInScope`: The query falls back to all devices when the resolved list is empty
  (scheduler.go:452), which is also what a scope of empty groups, tags or sites resolves to.
  The comment at scheduler.go:435 says "If scope has targets, resolve to device IDs;
  otherwise check all devices for tenant".

**Enrollment**

* `UsedIsEnrolled`: The token is consumed before the quota, the CSR and the scope are looked
  at, and outside the transaction, so a refused enrollment leaves a token that cannot be
  used again. docs/AGENT_AUTH_SPEC.md:61 says "Single-use — invalidated immediately on
  successful enrollment".

**Certificates**

* `RevocationIsFinal`: The check-in handler sets the status to online without looking at the
  status it replaces, and the renewal handler inserts a certificate without looking at the
  device: handlers that passed the middleware before the revocation undo both halves of it.
  SECURITY.md:48 says "A revoked agent must re-enroll with a new enrollment token to regain
  access."
* `GracefulRollover`: The middleware looks up the serial number of the connection's
  certificate on every request, and the agent's client keeps the connection of the renewal
  open after Swap; the check-ins that follow carry the superseded certificate and get 401.
  server/api/renew.go:72-73 says "the revocation only takes effect on the *next* mTLS
  handshake".
* `NoDowntime`: The renewal revokes the prior certificates when it commits, before the agent
  has the new one; a lost reply or a stop before the files are written leaves the agent with
  a revoked certificate and no way to renew. docs/AGENT_AUTH_SPEC.md:138 says "Current cert
  remains valid until expiry — renewal never causes downtime", and SECURITY.md:13 says old
  certificates remain valid.
* `CheckinsRenew`: NeedsRenewal is called once, before the poller starts, and RetryBackoff
  is never used; an agent that runs past the expiry of its certificate is locked out.
  docs/IMPLEMENTATION_PLAN.md:267 says "On each check-in, check if cert expiry is within 30
  days".

**AgentUpdate**

* `InstalledIsVerified`: Jobs run in goroutines of their own and every update uses the same
  staging path: a second update truncates the file between the verification and the rename
  of the first, which then installs an unverified or empty binary.
  docs/AGENT_UPDATE_SPEC.md:188 says "Both checks must pass." and line 388 "no window where
  the agent binary is absent or partially written".
* `RestartFollows`: SubmitResult answers 400 to the status "restarting"
  (server/api/agent_jobs.go:107), submitResult makes that an error, and runJob returns at
  line 107 before the restart. agent/executor/executor.go:115 says "If the update handler
  returned "restarting", trigger a service restart."
* `SettledIsReported`: No code on the agent sets last_update_failed or submits a result
  after the restart, so the job stays running until the reaper ends it.
  agent/cmd/agent/main.go:275 says "Job completion will be reported on next check-in", line
  283 "the poller will report the rollback status".
* `NewerIsAccepted`: p.Version <= version.Version compares strings, and "1.10.0" sorts
  before "1.4.0". docs/AGENT_UPDATE_SPEC.md:168 says "Target version is newer than current
  version (refuses downgrades unless `force: true` in payload)".

**LogShipper**

* `FailureLosesNothing`: agent/logshipper/shipper.go:114 says "Re-buffer on failure so
  entries aren't lost"; entries logged during the failed request fill the buffer, and the
  cut to defaultMaxBuffer then drops the newest of them.
* `FinalAttempt`: agent/logshipper/shipper.go:61 says "On shutdown, it makes one final flush
  attempt."; runDaemon returns with the poller (agent/cmd/agent/main.go:399) and does not
  wait for the shipper's goroutine, so the process can end before the attempt.

**FileTransfer**

* `DeliveredIsVerified`: docs/FILE_TRANSFER_SPEC.md:460 says "SHA-256 verified per chunk
  during upload, and full-file SHA-256 verified by agent after reassembly"; the temporary
  path depends on the file only (:74), so a second job for the file can empty it after the
  first has verified it and before it is renamed: the first reports completed with a torn
  file in place.
* `SignatureRequired`: docs/FILE_TRANSFER_SPEC.md:237 says of integrity.require_signature
  "Agent must verify file signature; fails if file has no signature"; executeFileTransfer
  reads RequireSHA256 only, and completes such a job for an unsigned file.

**Inventory**

* `RefreshIsReported`: agent/executor/package.go:105-106 says "On success, it also triggers
  an inventory refresh so the next check-in includes the package delta."; the call replaces
  the snapshot and drops the delta it returns, so the next check-in finds no change and
  never reports the package.
* `OneRowEach`: docs/IMPLEMENTATION_PLAN.md:401 says "Upsert/insert/delete packages based on
  delta"; every insert has a new identifier and inventory_packages has no other key, so ON
  CONFLICT DO NOTHING never applies: a package a full inventory has stored is inserted again
  by the next delta.
* `SnapshotWasSent`: docs/IMPLEMENTATION_PLAN.md:388 says "Compare current inventory
  snapshot against last-sent snapshot"; ComputeDelta replaces the snapshot before the
  check-in is posted, and a failed check-in leaves a snapshot that was never sent.

**JobCreation**

* `QueueIsLimited`: docs/SEC_VALIDATION.md:410 says "Per-tenant resource limits: max
  devices, max jobs in queue, max file size, max API keys."; the count and the inserts are
  separate statements, so two requests that are checked before either inserts exceed the
  limit together.

**Releases**

* `AbortIsFinal`: docs/AGENT_UPDATE_SPEC.md:317 says "abort; no further batches";
  updateRolloutStatus checks the status it has read (rollouts.go:101-117) and
  UpdateRolloutStatus writes unconditionally, so a pause or resume that read the rollout
  before the abort revives it.
* `RolloutIsReachable`: yank_reason is NULL until a version is yanked
  (server/migrate/sql/001_initial_schema.up.sql:279), and GetAgentVersion scans it into a
  plain string (shared/models/agent_version.go:11), which pgx refuses; pause, resume and
  abort then answer with an error for every version that is offered.
  docs/AGENT_UPDATE_SPEC.md:315 says of the endpoint "pause gradual rollout".

**UpdatePolicies**

* `OneDefault`: server/store/update_policies.go:12-13 says "UpsertUpdatePolicy creates or
  updates an agent update policy. A nil GroupID means the tenant-level default policy."; ON
  CONFLICT (tenant_id, group_id) never fires for a NULL group_id, so each change of the
  default adds a row, and GetUpdatePolicy returns any of them.

**Installers**

* `InstalledIsSigned`: docs/INSTALLER_PACKAGING_SPEC.md:529 says "checksum and signature
  both verified before any installer code runs" (and :356 "Both checks must pass before the
  installer is executed"); the generated script downloads the signature, compares only the
  SHA-256 and runs the installer.
* `ApiKeyIsAccepted`: server/api/installers.go:334-335 says "checkInstallerAuth validates
  that the request carries a valid API key or enrollment token"; its query filters on
  api_keys.revoked_at, a column that no migration creates
  (server/migrate/sql/001_initial_schema.up.sql:34), so the query fails and a live API key
  is answered 401.
* `RegisteredIsUploaded`: server/api/installers.go:123 says "The installer binary must
  already be uploaded via the file upload API."; Create looks only for the record of the
  file, which exists from the start of the upload, so an installer can become the latest
  while there is nothing to download.

**Installation**

* `SuccessIsConfigured`: agent/installer/install_linux.go:75 says "For new installs,
  enrollment token and server URL are required."; an installation is told from an upgrade by
  the presence of the binary, which a first run that breaks off has left, so the next run is
  accepted without both and reports success with no configuration.
* `UpgradesInPlace`: docs/INSTALLER_PACKAGING_SPEC.md:162 says "Checks for existing agent
  installation — upgrades in place if found"; copyFile opens the installed binary for
  writing before the service is stopped, which Linux refuses for a program that runs, so the
  upgrade ends with an error.
* `TokenIsConsumed`: docs/INSTALLER_PACKAGING_SPEC.md:181 says "enrollment.token ←
  enrollment token, consumed on first run (root:moebius-agent, 0600)"; the unit runs the
  daemon as moebius-agent with no capability to override modes, so it can read neither the
  token nor write its identity to the directory that root owns: it exits and is restarted.

**Bootstrap**

* `AdminIsReused`: doCreateAdmin inserts the role and the user ON CONFLICT DO NOTHING with a
  fresh id, but roles and users have no key besides the id
  (server/migrate/sql/001_initial_schema.up.sql:17-32), so the clause never applies and
  every run adds a role and a user. The comments say "Re-read in case it already existed"
  (server/cmd/api/main.go:299 and :318).

**Memberships**

* `RecordedOrCounted`: AddDevicesToGroup inserts one device after the other without a
  transaction; when one is refused the earlier ones stay, the handler returns before
  LogAction, and neither the log nor the counter shows the change. "All administrative
  actions are recorded in the audit log." (docs/User_Guide.md:602)

## Not modelled

* The web UI's pages, the command-line tools and the output of the local command line:
  clients without shared state.
* The assembly of the router, the order of the middleware and the shutdown of the HTTP
  server: wiring of library parts.
* Cryptography: signatures, chains, key checks and password checks are modelled by what
  they accept. The verification of OIDC tokens belongs to a library.
* Wire formats, parsing, wording, metrics and health checks; a response over 1 MB on the
  local socket, which ends the client's scanner, is not told from one that does not parse.
* The hardware row of the inventory; the package managers of the host and the validation of
  their arguments; how a shell command is run and its output cut.
* The Windows installer and the paths of the platforms.
* Single reads and single statements whose result nothing else depends on: getting one row,
  renaming a device, `CheckFileSize`, unpaged lists.
* The audit entries of handlers other than those of groups, sites and tags, which follow the
  same pattern after their last statement.
* Several devices at once, apart from those that compete for a token, a quota or a schedule:
  the handlers of agents name one device's rows only.

`PROJECT.json` gives the status of every component.
