------------------------------ MODULE Bootstrap ------------------------------
(***************************************************************************)
(* The two subcommands that prepare a database: "moebius-api migrate"      *)
(* (server/migrate/migrate.go) and "moebius-api create-admin"              *)
(* (server/cmd/api/main.go).                                               *)
(*                                                                         *)
(* Nothing keeps two of them from running at once: a deployment hook, an   *)
(* operator's shell and a restarted container are different processes,     *)
(* and two releases carry different numbers of migrations.  Every step can *)
(* fail or be the last one of its process.                                 *)
(***************************************************************************)
EXTENDS Naturals, FiniteSets

CONSTANTS Migrators,  \* processes that run migrate
          Admins,     \* processes that run create-admin
          Latest,     \* the newest migration any release carries
          MaxRuns     \* bound: runs of one process

ASSUME BootstrapConstants ==
  /\ Latest \in Nat \ {0}
  /\ MaxRuns \in Nat \ {0}

VARIABLES
  schema,   \* the migrations whose SQL is in effect
  recorded, \* the rows of schema_migrations
  run,      \* each migrator: where it is in Run
  tenant,   \* is there a row of tenants with slug "default"?
  roles,    \* the system roles named "Super Admin"
  users,    \* the users admin@localhost, each with its role_id
  keys,     \* the bootstrap keys, each with its user_id and role_id
  adm       \* each create-admin process

vars == <<schema, recorded, run, tenant, roles, users, keys, adm>>

NotRun == [pc |-> "idle", release |-> 0, next |-> 0, fault |-> FALSE, raced |-> FALSE, runs |-> 0]
NotAdm == [pc |-> "idle", role |-> 0, user |-> 0, fault |-> FALSE, bare |-> FALSE, runs |-> 0]

Active(m) == run[m].pc = "apply"

\* The ids Go draws for new rows never collide: the next unused number.
Fresh(ids) == Cardinality(ids) + 1
UserIds == {u.id : u \in users}

Init ==
  /\ schema = {} /\ recorded = {}
  /\ run = [m \in Migrators |-> NotRun]
  /\ tenant = FALSE /\ roles = {} /\ users = {} /\ keys = {}
  /\ adm = [a \in Admins |-> NotAdm]

-----------------------------------------------------------------------------
(* migrate.Run                                                             *)

\* SELECT COALESCE(MAX(version), 0) FROM schema_migrations.
CurrentVersion == CHOOSE v \in 0..Latest : /\ v \in recorded \cup {0}
                                           /\ \A w \in recorded : w <= v

\* The slip of passing over ver < current only.
FirstPendingInclusive(current) == IF current = 0 THEN 1 ELSE current

\* The first file the loop does not skip: ver <= current is passed over.
FirstPending(current) == current + 1

\* Reads the version once and walks the embedded files from there.  `raced`
\* remembers whether another migrator was at work during this run.
Start(m) ==
  /\ run[m].pc \in {"idle", "done", "failed"}
  /\ run[m].runs < MaxRuns
  /\ \E release \in 1..Latest :
       run' = [n \in Migrators |->
                 IF n = m
                 THEN [pc |-> "apply", release |-> release, next |-> FirstPending(CurrentVersion),
                       fault |-> FALSE, raced |-> \E o \in Migrators : Active(o),
                       runs |-> run[m].runs + 1]
                 ELSE [run[n] EXCEPT !.raced = @ \/ Active(n)]]
  /\ UNCHANGED <<schema, recorded, tenant, roles, users, keys, adm>>

\* What one file's transaction does.  A file that is already in effect fails:
\* its CREATE finds the object there, or the INSERT its version.
Conflicts(v) == v \in schema \/ v \in recorded
Commit(v) == schema' = schema \cup {v} /\ recorded' = recorded \cup {v}
Rollback(v) == UNCHANGED <<schema, recorded>>

\* One file of the loop.  The transaction commits and the loop goes on, or it
\* is rolled back by a conflict, and Run returns the error.
Apply(m) ==
  LET v == run[m].next IN
  /\ Active(m) /\ v <= run[m].release
  /\ \/ ~Conflicts(v) /\ Commit(v) /\ run' = [run EXCEPT ![m].next = v + 1]
     \/ Conflicts(v) /\ Rollback(v) /\ run' = [run EXCEPT ![m].pc = "failed"]
  /\ UNCHANGED <<tenant, roles, users, keys, adm>>

\* A failing statement, a lost connection or the end of the process: before
\* the commit nothing of the file stays, and an answer to COMMIT that is
\* lost leaves all of it although Run returns an error.
Fail(m) ==
  LET v == run[m].next IN
  /\ Active(m) /\ v <= run[m].release
  /\ \/ Rollback(v)
     \/ ~Conflicts(v) /\ Commit(v)
  /\ run' = [run EXCEPT ![m].pc = "failed", ![m].fault = TRUE]
  /\ UNCHANGED <<tenant, roles, users, keys, adm>>

\* The loop has passed its last file.
Finish(m) ==
  /\ Active(m) /\ run[m].next > run[m].release
  /\ run' = [run EXCEPT ![m].pc = "done"]
  /\ UNCHANGED <<schema, recorded, tenant, roles, users, keys, adm>>

-----------------------------------------------------------------------------
(* doCreateAdmin: four pairs of statements, each committed by itself       *)

StartAdmin(a) ==
  /\ adm[a].pc \in {"idle", "done", "failed"}
  /\ adm[a].runs < MaxRuns
  /\ adm' = [adm EXCEPT ![a] = [NotAdm EXCEPT !.pc = "tenant", !.runs = adm[a].runs + 1,
                                              !.bare = 1 \notin schema]]
  /\ UNCHANGED <<schema, recorded, run, tenant, roles, users, keys>>

\* INSERT INTO tenants ... ON CONFLICT (slug) DO UPDATE: a tenant that an
\* earlier run left behind is taken over.  Without the tables it fails.
Tenant(a) ==
  /\ adm[a].pc = "tenant"
  /\ IF 1 \in schema
     THEN tenant' = TRUE /\ adm' = [adm EXCEPT ![a].pc = "role"]
     ELSE adm' = [adm EXCEPT ![a].pc = "failed"] /\ UNCHANGED tenant
  /\ UNCHANGED <<schema, recorded, run, roles, users, keys>>

\* The role has a new id and roles has no other key, so ON CONFLICT never
\* applies; the SELECT that follows has no ORDER BY and returns any match.
Role(a) ==
  /\ adm[a].pc = "role"
  /\ roles' = roles \cup {Fresh(roles)}
  /\ \E r \in roles' : adm' = [adm EXCEPT ![a].pc = "user", ![a].role = r]
  /\ UNCHANGED <<schema, recorded, run, tenant, users, keys>>

\* The same for the user: email is not unique.
User(a) ==
  /\ adm[a].pc = "user"
  /\ users' = users \cup {[id |-> Fresh(UserIds), role |-> adm[a].role]}
  /\ \E u \in users' : adm' = [adm EXCEPT ![a].pc = "key", ![a].user = u.id]
  /\ UNCHANGED <<schema, recorded, run, tenant, roles, keys>>

Key(a) ==
  /\ adm[a].pc = "key"
  /\ keys' = keys \cup {[user |-> adm[a].user, role |-> adm[a].role]}
  /\ adm' = [adm EXCEPT ![a].pc = "done"]
  /\ UNCHANGED <<schema, recorded, run, tenant, roles, users>>

\* The process ends between two statements, or one is refused.
FailAdmin(a) ==
  /\ adm[a].pc \in {"tenant", "role", "user", "key"}
  /\ adm' = [adm EXCEPT ![a].pc = "failed", ![a].fault = TRUE]
  /\ UNCHANGED <<schema, recorded, run, tenant, roles, users, keys>>

Next ==
  \/ \E m \in Migrators : Start(m) \/ Apply(m) \/ Fail(m) \/ Finish(m)
  \/ \E a \in Admins : \/ StartAdmin(a) \/ Tenant(a) \/ Role(a) \/ User(a)
                       \/ Key(a) \/ FailAdmin(a)

Spec == Init /\ [][Next]_vars
-----------------------------------------------------------------------------
\* Migrations, rows and processes have their types; a key has its user and role.
TypeOK ==
  /\ schema \subseteq 1..Latest /\ recorded \subseteq 1..Latest
  /\ run \in [Migrators -> [pc : {"idle", "apply", "done", "failed"}, release : 0..Latest,
                             next : 0..Latest + 1, fault : BOOLEAN, raced : BOOLEAN,
                             runs : 0..MaxRuns]]
  /\ tenant \in BOOLEAN
  /\ \A u \in users : u.role \in roles
  /\ \A k \in keys : k.user \in UserIds /\ k.role \in roles
  /\ adm \in [Admins -> [pc : {"idle", "tenant", "role", "user", "key", "done", "failed"},
                          role : {0} \cup roles, user : {0} \cup UserIds,
                          fault : BOOLEAN, bare : BOOLEAN, runs : 0..MaxRuns]]

\* Whatever runs are cut short or overlap, schema_migrations tells the truth
\* and has no gap: Run trusts MAX(version) and never looks below it, so a
\* gap would stay for ever.
RecordIsTheSchema ==
  /\ recorded = schema
  /\ \E n \in 0..Latest : schema = 1..n

\* A run of migrate that reports success leaves a schema with every
\* migration of its release, although it read the version only once.
SuccessIsCurrent == \A m \in Migrators : run[m].pc = "done" => 1..run[m].release \subseteq schema

\* migrate fails without a fault only when another migrator was at work
\* during the run: repeating it after any failure is safe.
FailsOnlyByFaultUnlessOverlap ==
  \A m \in Migrators : run[m].pc = "failed" => run[m].fault \/ run[m].raced

\* create-admin on a migrated database fails only by a fault, whatever
\* earlier or simultaneous runs left behind between two statements.
AdminRunSucceeds ==
  \A a \in Admins : adm[a].pc = "failed" => adm[a].fault \/ adm[a].bare

\* What the re-reads of doCreateAdmin expect: a run finds the admin user and
\* role of an earlier one, so there is one of each.
AdminIsReused == Cardinality(users) <= 1 /\ Cardinality(roles) <= 1

\* Both subcommands: schema_migrations is the schema, a successful migrate leaves its
\* release's migrations in effect, and either fails only by a fault or an overlap.
BootstrapSafe ==
  /\ RecordIsTheSchema /\ SuccessIsCurrent /\ FailsOnlyByFaultUnlessOverlap
  /\ AdminRunSucceeds

=============================================================================
