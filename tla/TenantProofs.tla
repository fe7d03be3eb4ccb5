------------------------------ MODULE TenantProofs ------------------------------
(***************************************************************************)
(* Theorems about what a tenant's administrators share, for any number of  *)
(* requests.  Migrations, for any processes, releases and runs: the record *)
(* is the schema and has no gap, a run that reports success leaves its     *)
(* release in effect, and a run fails without a fault only when another    *)
(* one was at work.  Groups and tags: what a request was answered for is   *)
(* in place unless undone, and recorded or counted.  Roles, users and      *)
(* keys: what is referred to exists, and the ceilings hold unless raced.   *)
(***************************************************************************)
EXTENDS Bootstrap, Memberships, Accounts, FiniteSetTheorems, TLAPS

-----------------------------------------------------------------------------
(* Migrations *)

RunRecord == [pc : {"idle", "apply", "done", "failed"}, release : 0..Latest,
              next : 0..Latest + 1, fault : BOOLEAN, raced : BOOLEAN, runs : 0..MaxRuns]

RunTypes == run \in [Migrators -> RunRecord]

\* Where the loop of Run stands: the files below next are in effect, and as
\* long as nobody else was at work no file above them is.
LoopInv ==
  /\ \A m \in Migrators : Active(m) => run[m].next >= 1 /\ 1..(run[m].next - 1) \subseteq schema
  /\ \A m \in Migrators : Active(m) /\ ~run[m].raced =>
       /\ schema \subseteq 1..(run[m].next - 1)
       /\ \A o \in Migrators : Active(o) => o = m

MigrateInv == /\ RunTypes /\ RecordIsTheSchema /\ LoopInv
              /\ SuccessIsCurrent /\ FailsOnlyByFaultUnlessOverlap

-----------------------------------------------------------------------------
\* MAX(version) of a record without gaps is its length.
LEMMA Version ==
    ASSUME NEW n \in 0..Latest, recorded = 1..n
    PROVE  CurrentVersion = n
  <1>1. Latest \in Nat
    BY BootstrapConstants, Zenon
  <1>2. n \in recorded \cup {0} /\ \A w \in recorded : w <= n
    BY <1>1
  <1>3. \A v \in 0..Latest : v \in recorded \cup {0} /\ (\A w \in recorded : w <= v) => v = n
    BY <1>1
  <1> QED BY <1>2, <1>3, Zenon DEF CurrentVersion

\* A file the loop may apply is the one after the last in effect.
LEMMA NextFile ==
    ASSUME MigrateInv, NEW m \in Migrators, Active(m),
           run[m].next <= run[m].release, ~Conflicts(run[m].next)
    PROVE  /\ run[m].next \in 1..Latest
           /\ schema = 1..(run[m].next - 1)
           /\ schema \cup {run[m].next} = 1..run[m].next
  <1>1. Latest \in Nat /\ run[m].next \in 0..Latest + 1 /\ run[m].release \in 0..Latest
    BY BootstrapConstants, Zenon DEF MigrateInv, RunTypes, RunRecord
  <1>2. PICK n \in 0..Latest : schema = 1..n
    BY Zenon DEF MigrateInv, RecordIsTheSchema
  <1>3. run[m].next >= 1 /\ 1..(run[m].next - 1) \subseteq 1..n /\ run[m].next \notin 1..n
    BY <1>2, Zenon DEF MigrateInv, LoopInv, Conflicts
  <1>4. run[m].next = n + 1
    <2>1. run[m].next > n
      BY <1>1, <1>2, <1>3
    <2>2. CASE run[m].next = 1
      BY <1>1, <1>2, <2>1, <2>2
    <2>3. CASE run[m].next > 1
      <3>1. run[m].next - 1 \in 1..(run[m].next - 1)
        BY <1>1, <2>3
      <3> QED BY <1>1, <1>2, <1>3, <2>1, <3>1
    <2> QED BY <1>1, <1>3, <2>2, <2>3
  <1> QED BY <1>1, <1>2, <1>4

\* The effect of a committed file on the record.
LEMMA CommitRecord ==
    ASSUME MigrateInv, NEW m \in Migrators, Active(m),
           run[m].next <= run[m].release, ~Conflicts(run[m].next), Commit(run[m].next)
    PROVE  RecordIsTheSchema' /\ schema' = 1..run[m].next /\ schema \subseteq schema'
  <1>1. recorded = schema /\ run[m].next \in 0..Latest
    BY NextFile, BootstrapConstants DEF MigrateInv, RecordIsTheSchema
  <1>2. schema' = 1..run[m].next /\ recorded' = schema' /\ schema \subseteq schema'
    BY <1>1, NextFile, Zenon DEF Commit
  <1> QED BY <1>1, <1>2, Zenon DEF RecordIsTheSchema

\* The invariant is kept by the steps of migrate.
LEMMA MigrateStep ==
    ASSUME MigrateInv, NEW m \in Migrators, Start(m) \/ Apply(m) \/ Fail(m) \/ Finish(m)
    PROVE  MigrateInv'
  <1>n. Latest \in Nat /\ MaxRuns \in Nat /\ run \in [Migrators -> RunRecord]
    BY BootstrapConstants, Zenon DEF MigrateInv, RunTypes
  <1>m. /\ run[m].next \in 0..Latest + 1 /\ run[m].release \in 0..Latest /\ run[m].runs \in 0..MaxRuns
        /\ run[m] \in RunRecord
    BY <1>n, Zenon DEF RunRecord
  <1>1. CASE Start(m)
    <2>1. PICK n \in 0..Latest : schema = 1..n /\ recorded = 1..n
      BY Zenon DEF MigrateInv, RecordIsTheSchema
    <2>2. CurrentVersion = n
      BY <2>1, Version, Zenon
    <2>3. PICK release \in 1..Latest :
            run' = [o \in Migrators |->
                      IF o = m
                      THEN [pc |-> "apply", release |-> release, next |-> n + 1,
                            fault |-> FALSE, raced |-> \E x \in Migrators : Active(x),
                            runs |-> run[m].runs + 1]
                      ELSE [run[o] EXCEPT !.raced = @ \/ Active(o)]]
      BY <1>1, <2>2, Zenon DEF Start, FirstPending
    <2>4. UNCHANGED <<schema, recorded>> /\ run[m].runs < MaxRuns /\ ~Active(m)
      BY <1>1, Zenon DEF Start, Active
    <2>5. /\ run'[m].pc = "apply" /\ run'[m].next = n + 1
          /\ run'[m].raced <=> \E x \in Migrators : Active(x)
          /\ run'[m] \in RunRecord
      BY <1>n, <1>m, <2>3, <2>4 DEF RunRecord
    <2>6. \A o \in Migrators \ {m} :
             /\ run'[o] \in RunRecord
             /\ run'[o].pc = run[o].pc /\ run'[o].next = run[o].next /\ run'[o].release = run[o].release
             /\ run'[o].fault = run[o].fault
             /\ run'[o].raced <=> run[o].raced \/ Active(o)
      BY <1>n, <2>3, Zenon DEF RunRecord
    <2>7. RunTypes'
      BY <2>3, <2>5, <2>6, Zenon DEF RunTypes
    <2>8. \A o \in Migrators \ {m} : Active(o)' <=> Active(o)
      BY <2>6, Zenon DEF Active
    <2>9. LoopInv'
      <3>1. \A o \in Migrators : Active(o)' => run'[o].next >= 1 /\ 1..(run'[o].next - 1) \subseteq schema'
        BY <2>1, <2>4, <2>5, <2>6, <2>8 DEF MigrateInv, LoopInv
      <3>2. \A o \in Migrators : Active(o)' /\ ~run'[o].raced =>
              o = m /\ \A x \in Migrators : ~Active(x)
        BY <2>5, <2>6, <2>8, Zenon
      <3>3. \A o \in Migrators : Active(o)' /\ ~run'[o].raced =>
              /\ schema' \subseteq 1..(run'[o].next - 1)
              /\ \A x \in Migrators : Active(x)' => x = o
        BY <2>1, <2>4, <2>5, <2>8, <3>2
      <3> QED BY <3>1, <3>3, Zenon DEF LoopInv
    <2>10. RecordIsTheSchema' /\ SuccessIsCurrent' /\ FailsOnlyByFaultUnlessOverlap'
      BY <2>4, <2>5, <2>6 DEF MigrateInv, RecordIsTheSchema, SuccessIsCurrent, FailsOnlyByFaultUnlessOverlap
    <2> QED BY <2>7, <2>9, <2>10, Zenon DEF MigrateInv
  <1>2. CASE Apply(m) /\ ~Conflicts(run[m].next)
    <2>1. /\ Active(m) /\ run[m].next <= run[m].release /\ Commit(run[m].next)
          /\ run' = [run EXCEPT ![m].next = run[m].next + 1]
      BY <1>2, Zenon DEF Apply
    <2>2. RecordIsTheSchema' /\ schema' = 1..run[m].next /\ schema \subseteq schema' /\ run[m].next \in 1..Latest
      BY <1>2, <2>1, CommitRecord, NextFile, Zenon
    <2>3. /\ run'[m] \in RunRecord /\ run'[m].pc = "apply" /\ run'[m].next = run[m].next + 1
          /\ run'[m].raced = run[m].raced
          /\ \A o \in Migrators \ {m} : run'[o] = run[o]
      <3>1. run[m].next + 1 \in 0..Latest + 1
        BY <1>n, <2>2
      <3>2. run'[m] = [run[m] EXCEPT !.next = run[m].next + 1] /\ \A o \in Migrators \ {m} : run'[o] = run[o]
        BY <1>n, <2>1, Zenon
      <3> QED BY <1>m, <2>1, <3>1, <3>2 DEF RunRecord, Active
    <2>4. RunTypes'
      BY <1>n, <2>1, <2>3, Zenon DEF RunTypes
    <2>5. \A o \in Migrators : Active(o)' <=> Active(o)
      BY <2>1, <2>3, Zenon DEF Active
    <2>6. LoopInv'
      <3>1. \A o \in Migrators : Active(o)' => run'[o].next >= 1 /\ 1..(run'[o].next - 1) \subseteq schema'
        BY <2>2, <2>3, <2>5 DEF MigrateInv, LoopInv
      <3>2. \A o \in Migrators : Active(o)' /\ ~run'[o].raced => o = m /\ \A x \in Migrators : Active(x)' => x = o
        BY <2>1, <2>3, <2>5, Zenon DEF MigrateInv, LoopInv
      <3> QED BY <2>2, <2>3, <3>1, <3>2 DEF LoopInv
    <2>7. SuccessIsCurrent' /\ FailsOnlyByFaultUnlessOverlap'
      BY <2>2, <2>3, Zenon DEF MigrateInv, SuccessIsCurrent, FailsOnlyByFaultUnlessOverlap
    <2> QED BY <2>2, <2>4, <2>6, <2>7, Zenon DEF MigrateInv
  <1>e. ASSUME Active(m), RecordIsTheSchema', schema \subseteq schema',
               run' \in [Migrators -> RunRecord], run'[m].pc \in {"done", "failed"},
               run'[m].pc = "done" => 1..run'[m].release \subseteq schema',
               run'[m].pc = "failed" => run'[m].fault \/ run'[m].raced,
               \A o \in Migrators \ {m} : run'[o] = run[o]
        PROVE  MigrateInv'
    <2>1. \A o \in Migrators : Active(o)' => o # m /\ Active(o) /\ run'[o] = run[o] /\ run[o].raced
      BY <1>e, Zenon DEF Active, MigrateInv, LoopInv
    <2>2. LoopInv'
      BY <1>e, <2>1, Zenon DEF MigrateInv, LoopInv
    <2>3. SuccessIsCurrent' /\ FailsOnlyByFaultUnlessOverlap'
      BY <1>e, Zenon DEF MigrateInv, SuccessIsCurrent, FailsOnlyByFaultUnlessOverlap
    <2> QED BY <1>e, <2>2, <2>3, Zenon DEF MigrateInv, RunTypes
  <1>3. CASE Apply(m) /\ Conflicts(run[m].next)
    <2>1. /\ Active(m) /\ UNCHANGED <<schema, recorded>>
          /\ run' = [run EXCEPT ![m].pc = "failed"]
      BY <1>3, Zenon DEF Apply, Rollback
    <2>2. /\ run'[m].pc = "failed" /\ run'[m].raced = run[m].raced /\ run' \in [Migrators -> RunRecord]
          /\ \A o \in Migrators \ {m} : run'[o] = run[o]
      BY <1>n, <1>m, <2>1, Zenon DEF RunRecord
    <2>3. run[m].raced
      <3> SUFFICES ASSUME ~run[m].raced PROVE FALSE
        BY Zenon
      <3>1. schema \subseteq 1..(run[m].next - 1) /\ recorded = schema
        BY <2>1, Zenon DEF MigrateInv, LoopInv, RecordIsTheSchema
      <3> QED BY <1>3, <1>m, <1>n, <3>1 DEF Conflicts
    <2>4. RecordIsTheSchema'
      BY <2>1, Zenon DEF MigrateInv, RecordIsTheSchema
    <2> QED BY <1>e, <2>1, <2>2, <2>3, <2>4, Zenon
  <1>4. CASE Fail(m)
    <2>1. /\ Active(m) /\ run[m].next <= run[m].release
          /\ run' = [run EXCEPT ![m].pc = "failed", ![m].fault = TRUE]
      BY <1>4, Zenon DEF Fail
    <2>2. /\ run'[m].pc = "failed" /\ run'[m].fault /\ run' \in [Migrators -> RunRecord]
          /\ \A o \in Migrators \ {m} : run'[o] = run[o]
      <3>1. run' = [run EXCEPT ![m] = [run[m] EXCEPT !.pc = "failed", !.fault = TRUE]]
        BY <2>1, Zenon
      <3>2. LET r == [run[m] EXCEPT !.pc = "failed", !.fault = TRUE]
            IN  r \in RunRecord /\ r.pc = "failed" /\ r.fault
        BY <1>m, Zenon DEF RunRecord
      <3> QED BY <1>n, <3>1, <3>2, Zenon
    <2>3. RecordIsTheSchema' /\ schema \subseteq schema'
      <3>1. CASE Rollback(run[m].next)
        BY <3>1, Zenon DEF Rollback, MigrateInv, RecordIsTheSchema
      <3>2. CASE ~Conflicts(run[m].next) /\ Commit(run[m].next)
        BY <2>1, <3>2, CommitRecord, Zenon
      <3> QED BY <1>4, <3>1, <3>2, Zenon DEF Fail
    <2> QED BY <1>e, <2>1, <2>2, <2>3, Zenon
  <1>5. CASE Finish(m)
    <2>1. /\ Active(m) /\ run[m].next > run[m].release /\ UNCHANGED <<schema, recorded>>
          /\ run' = [run EXCEPT ![m].pc = "done"]
      BY <1>5, Zenon DEF Finish
    <2>2. /\ run'[m].pc = "done" /\ run'[m].release = run[m].release /\ run' \in [Migrators -> RunRecord]
          /\ \A o \in Migrators \ {m} : run'[o] = run[o]
      BY <1>n, <1>m, <2>1, Zenon DEF RunRecord
    <2>3. 1..run[m].release \subseteq schema
      BY <1>m, <1>n, <2>1 DEF MigrateInv, LoopInv
    <2>4. RecordIsTheSchema'
      BY <2>1, Zenon DEF MigrateInv, RecordIsTheSchema
    <2> QED BY <1>e, <2>1, <2>2, <2>3, <2>4, Zenon
  <1>6. Apply(m) => Apply(m) /\ (Conflicts(run[m].next) \/ ~Conflicts(run[m].next))
    BY Zenon
  <1> QED BY <1>1, <1>2, <1>3, <1>4, <1>5, <1>6, Zenon

\* The steps of create-admin leave the migrations alone.
LEMMA AdminSteps ==
    ASSUME NEW a \in Admins,
           \/ StartAdmin(a) \/ Tenant(a) \/ Role(a) \/ User(a) \/ Key(a) \/ FailAdmin(a)
    PROVE  UNCHANGED <<schema, recorded, run>>
  BY Zenon DEF StartAdmin, Tenant, Role, User, Key, FailAdmin

\* The invariant of the migrations, whatever runs overlap or are cut short.
THEOREM Migrations == Spec => []MigrateInv
  <1>1. Init => MigrateInv
    <2> SUFFICES ASSUME Init PROVE MigrateInv
      BY Zenon
    <2>1. Latest \in Nat /\ MaxRuns \in Nat /\ schema = {} /\ recorded = {}
      BY BootstrapConstants, Zenon DEF Init
    <2>2. run \in [Migrators -> RunRecord] /\ \A m \in Migrators : run[m].pc = "idle"
      BY <2>1 DEF Init, NotRun, RunRecord
    <2>3. schema = 1..0 /\ 0 \in 0..Latest
      BY <2>1
    <2> QED BY <2>1, <2>2, <2>3, Zenon DEF MigrateInv, RunTypes, RecordIsTheSchema, LoopInv, SuccessIsCurrent,
                                    FailsOnlyByFaultUnlessOverlap, Active
  <1>2. MigrateInv /\ [Next]_vars => MigrateInv'
    <2> SUFFICES ASSUME MigrateInv, [Next]_vars PROVE MigrateInv'
      BY Zenon
    <2>1. ASSUME UNCHANGED <<schema, recorded, run>> PROVE MigrateInv'
      BY <2>1, Zenon DEF MigrateInv, RunTypes, RecordIsTheSchema, LoopInv, SuccessIsCurrent,
                  FailsOnlyByFaultUnlessOverlap, Active
    <2>2. CASE UNCHANGED vars
      BY <2>1, <2>2, Zenon DEF vars
    <2> QED BY <2>1, <2>2, MigrateStep, AdminSteps, Zenon DEF Next
  <1> QED BY <1>1, <1>2, PTL DEF Spec

\* schema_migrations tells the truth and has no gap (Run commits a file and
\* its row together).
THEOREM RecordHolds == Spec => []RecordIsTheSchema
  BY Migrations, PTL DEF MigrateInv

\* A run that reports success leaves every migration of its release in effect.
THEOREM SuccessHolds == Spec => []SuccessIsCurrent
  BY Migrations, PTL DEF MigrateInv

\* A run fails without a fault only when another migrator was at work.
THEOREM FailureHolds == Spec => []FailsOnlyByFaultUnlessOverlap
  BY Migrations, PTL DEF MigrateInv

-----------------------------------------------------------------------------
(* create-admin *)

AdmRecord(R, U) == [pc : {"idle", "tenant", "role", "user", "key", "done", "failed"},
                    role : {0} \cup R, user : {0} \cup U,
                    fault : BOOLEAN, bare : BOOLEAN, runs : 0..MaxRuns]

\* A run on its way found the tables, or was started without them; a run that
\* failed had a fault, or was started without them.
AdminInv ==
  /\ adm \in [Admins -> AdmRecord(roles, UserIds)]
  /\ \A a \in Admins : adm[a].pc \in {"tenant", "role", "user", "key"} => adm[a].bare \/ 1 \in schema
  /\ AdminRunSucceeds

\* The tables stay: no step takes a migration out of effect.
LEMMA SchemaGrows == [Next]_vars => schema \subseteq schema'
  BY AdminSteps, Zenon DEF Next, vars, Start, Apply, Fail, Finish, Commit, Rollback

\* One process moves, the tables stay, and its record is as the invariant says.
LEMMA AdminMoved ==
    ASSUME AdminInv, schema \subseteq schema', roles \subseteq roles', UserIds \subseteq UserIds',
           NEW a \in Admins, NEW r \in AdmRecord(roles', UserIds'), adm' = [adm EXCEPT ![a] = r],
           r.pc \in {"tenant", "role", "user", "key"} => r.bare \/ 1 \in schema,
           r.pc = "failed" => r.fault \/ r.bare
    PROVE  AdminInv'
  <1>1. AdmRecord(roles, UserIds) \subseteq AdmRecord(roles', UserIds')
    BY Zenon DEF AdmRecord
  <1>2. adm \in [Admins -> AdmRecord(roles', UserIds')]
    BY <1>1, Zenon DEF AdminInv
  <1>3. adm' \in [Admins -> AdmRecord(roles', UserIds')] /\ adm'[a] = r
        /\ \A b \in Admins \ {a} : adm'[b] = adm[b]
    BY <1>2, Zenon
  <1> QED BY <1>3, Zenon DEF AdminInv, AdminRunSucceeds

\* The steps of create-admin keep it.
LEMMA AdminStep ==
    ASSUME AdminInv, NEW a \in Admins,
           \/ StartAdmin(a) \/ Tenant(a) \/ Role(a) \/ User(a) \/ Key(a) \/ FailAdmin(a)
    PROVE  AdminInv'
  <1> DEFINE R == adm[a]
  <1>t. R \in AdmRecord(roles, UserIds) /\ adm \in [Admins -> AdmRecord(roles, UserIds)]
    BY Zenon DEF AdminInv
  <1>i. R.pc \in {"tenant", "role", "user", "key"} => R.bare \/ 1 \in schema
    BY Zenon DEF AdminInv
  <1>s. schema' = schema
    BY AdminSteps, Zenon
  <1>k. UNCHANGED users => UserIds' = UserIds
    BY Zenon DEF UserIds
  <1>1. CASE StartAdmin(a)
    <2> DEFINE b == 1 \notin schema
               r == [NotAdm EXCEPT !.pc = "tenant", !.runs = R.runs + 1, !.bare = b]
    <2>1. R.runs + 1 \in 0..MaxRuns
      BY <1>1, <1>t, BootstrapConstants DEF StartAdmin, AdmRecord
    <2>2. adm' = [adm EXCEPT ![a] = r] /\ UNCHANGED <<roles, users>> /\ (b \/ 1 \in schema) /\ b \in BOOLEAN
      BY <1>1, Zenon DEF StartAdmin
    <2> HIDE DEF b
    <2>3. r \in AdmRecord(roles, UserIds) /\ r.pc = "tenant" /\ r.bare = b
      BY <2>1, <2>2, Zenon DEF AdmRecord, NotAdm
    <2> HIDE DEF r
    <2> QED BY <1>s, <1>k, <2>2, <2>3, AdminMoved, Zenon
  <1>2. CASE Tenant(a)
    <2> DEFINE p == IF 1 \in schema THEN "role" ELSE "failed"
               r == [R EXCEPT !.pc = p]
    <2>1. adm' = [adm EXCEPT ![a] = r] /\ UNCHANGED <<roles, users>> /\ R.pc = "tenant"
      BY <1>2, Zenon DEF Tenant
    <2>2. r \in AdmRecord(roles, UserIds) /\ r.pc = p /\ r.bare = R.bare
      BY <1>t, Zenon DEF AdmRecord
    <2> HIDE DEF r
    <2>3. p = "failed" => R.bare
      BY <1>i, <2>1, Zenon
    <2> QED BY <1>s, <1>k, <1>i, <2>1, <2>2, <2>3, AdminMoved, Zenon
  <1>3. CASE Role(a)
    <2>1. PICK x \in roles' : adm' = [adm EXCEPT ![a].pc = "user", ![a].role = x]
      BY <1>3, Zenon DEF Role
    <2> DEFINE r == [[R EXCEPT !.pc = "user"] EXCEPT !.role = x]
    <2>2. adm' = [adm EXCEPT ![a] = r] /\ UNCHANGED users /\ R.pc = "role" /\ roles \subseteq roles'
      BY <1>3, <2>1, Zenon DEF Role
    <2>3. r \in AdmRecord(roles', UserIds) /\ r.pc = "user" /\ r.bare = R.bare
      BY <1>t, <2>2, Zenon DEF AdmRecord
    <2> HIDE DEF r
    <2> QED BY <1>s, <1>k, <1>i, <2>2, <2>3, AdminMoved, Zenon
  <1>4. CASE User(a)
    <2>1. PICK u \in users' : adm' = [adm EXCEPT ![a].pc = "key", ![a].user = u.id]
      BY <1>4, Zenon DEF User
    <2> DEFINE r == [[R EXCEPT !.pc = "key"] EXCEPT !.user = u.id]
    <2>2. adm' = [adm EXCEPT ![a] = r] /\ UNCHANGED roles /\ R.pc = "user"
      BY <1>4, <2>1, Zenon DEF User
    <2>3. UserIds \subseteq UserIds' /\ u.id \in UserIds'
      BY <1>4, <2>1, Zenon DEF User, UserIds
    <2>4. r \in AdmRecord(roles, UserIds') /\ r.pc = "key" /\ r.bare = R.bare
      BY <1>t, <2>3, Zenon DEF AdmRecord
    <2> HIDE DEF r
    <2> QED BY <1>s, <1>i, <2>2, <2>3, <2>4, AdminMoved, Zenon
  <1>5. CASE Key(a)
    <2> DEFINE r == [R EXCEPT !.pc = "done"]
    <2>1. adm' = [adm EXCEPT ![a] = r] /\ UNCHANGED <<roles, users>>
      BY <1>5, Zenon DEF Key
    <2>2. r \in AdmRecord(roles, UserIds) /\ r.pc = "done"
      BY <1>t, Zenon DEF AdmRecord
    <2> HIDE DEF r
    <2> QED BY <1>s, <1>k, <2>1, <2>2, AdminMoved, Zenon
  <1>6. CASE FailAdmin(a)
    <2> DEFINE r == [[R EXCEPT !.pc = "failed"] EXCEPT !.fault = TRUE]
    <2>1. adm' = [adm EXCEPT ![a] = r] /\ UNCHANGED <<roles, users>>
      BY <1>6, Zenon DEF FailAdmin
    <2>2. r \in AdmRecord(roles, UserIds) /\ r.pc = "failed" /\ r.fault
      BY <1>t, Zenon DEF AdmRecord
    <2> HIDE DEF r
    <2> QED BY <1>s, <1>k, <2>1, <2>2, AdminMoved, Zenon
  <1> QED BY <1>1, <1>2, <1>3, <1>4, <1>5, <1>6, Zenon

\* create-admin on a migrated database fails only by a fault, whatever
\* earlier or simultaneous runs left behind (doCreateAdmin).
THEOREM AdminHolds == Spec => []AdminRunSucceeds
  <1>1. Init => AdminInv
    BY BootstrapConstants DEF Init, NotAdm, AdminInv, AdmRecord, AdminRunSucceeds
  <1>2. AdminInv /\ [Next]_vars => AdminInv'
    <2> SUFFICES ASSUME AdminInv, [Next]_vars PROVE AdminInv'
      BY Zenon
    <2>1. ASSUME UNCHANGED <<roles, users, adm>> PROVE AdminInv'
      BY <2>1, SchemaGrows, Zenon DEF AdminInv, AdminRunSucceeds, UserIds
    <2>2. CASE UNCHANGED vars
      BY <2>1, <2>2, Zenon DEF vars
    <2>3. ASSUME NEW m \in Migrators, Start(m) \/ Apply(m) \/ Fail(m) \/ Finish(m) PROVE AdminInv'
      BY <2>1, <2>3, Zenon DEF Start, Apply, Fail, Finish
    <2> QED BY <2>2, <2>3, AdminStep, Zenon DEF Next
  <1>3. AdminInv => AdminRunSucceeds
    BY Zenon DEF AdminInv
  <1> QED BY <1>1, <1>2, <1>3, PTL DEF Spec

\* All that migrate and create-admin promise, for any number of migrators, releases
\* and faults.
THEOREM BootstrapHolds == Spec => []BootstrapSafe
  <1>1. RecordIsTheSchema /\ SuccessIsCurrent /\ FailsOnlyByFaultUnlessOverlap /\ AdminRunSucceeds
          => BootstrapSafe
    BY Zenon DEF BootstrapSafe
  <1> QED BY <1>1, RecordHolds, SuccessHolds, FailureHolds, AdminHolds, PTL

-----------------------------------------------------------------------------
(* Groups and tags *)

\* what an audit entry or a list names
Shown == Containers \X (Containers \cup Devices \cup Unknown)
MemRecord == [pc : {"new", "add", "audit", "reread", "done"},
              op : {"none", "create", "update", "delete", "remove", "add"},
              on : SUBSET Shown, todo : SUBSET Shown,
              wrote : BOOLEAN, reply : {"none", "ok", "null", "error"}]

\* What the record of a request is after a statement that changed a row.
AfterWrite(op, on) ==
  {[pc |-> "audit", op |-> op, on |-> on, todo |-> {}, wrote |-> TRUE, reply |-> "none"],
   [pc |-> "done", op |-> op, on |-> on, todo |-> {}, wrote |-> TRUE, reply |-> "error"]}

\* What holds of one request: what it is to add is still to do, in place or taken away since; the
\* row it created or renamed is there or was deleted since, the one it deleted is gone; and what it
\* has done is recorded or counted from LogAction on.
RequestInv(q) ==
  LET r == memReq[q] IN
  /\ r.pc = "new" => r = NoRequest
  /\ r.todo \subseteq r.on
  /\ r.pc \in {"audit", "reread"} \/ r.reply \in {"ok", "null"} => r.todo = {}
  /\ r.reply # "none" => r.pc = "done"
  /\ r.pc = "add" => r.op = "add"
  /\ r.op = "add" => r.on \subseteq r.todo \cup undone[q] \cup members
  /\ r.op \in {"create", "update"} => \E c \in Containers : r.on = {<<c, c>>}
  /\ r.op \in {"create", "update"} /\ r.wrote => \A x \in r.on : x[1] \in present \/ x \in undone[q]
  /\ r.op = "delete" /\ r.wrote => \A x \in r.on : x[1] \notin present
  /\ r.op \in {"create", "update", "delete"} =>
       (r.pc \in {"audit", "reread"} \/ r.reply \in {"ok", "null"} => r.wrote)
  /\ r.pc = "reread" => r.op = "update" /\ q \in log \cup counted
  /\ r.reply \in {"ok", "null"} => q \in log \cup counted

MemTypes ==
  /\ present \subseteq Containers /\ members \subseteq present \X Devices
  /\ log \subseteq MemRequests /\ counted \subseteq MemRequests
  /\ memReq \in [MemRequests -> MemRecord] /\ DOMAIN undone = MemRequests

MemInv == MemTypes /\ \A q \in MemRequests : RequestInv(q)

\* What a step of one request may do to the others.
Grown(q) ==
  /\ log \subseteq log' /\ counted \subseteq counted'
  /\ memReq[q].pc # "new" =>
       /\ undone[q] \subseteq undone'[q] /\ members \subseteq members' \cup undone'[q]
       /\ \A c \in present : c \in present' \/ <<c, c>> \in undone'[q]
       /\ \A x \in memReq[q].on : x[1] \in present' => x[1] \in present

\* What others do to the rows leaves a request its part of the invariant.
LEMMA Bystander ==
    ASSUME NEW q \in MemRequests, RequestInv(q), memReq'[q] = memReq[q], Grown(q)
    PROVE  RequestInv(q)'
  <1>1. CASE memReq[q].pc = "new"
    BY <1>1 DEF RequestInv, NoRequest, Grown
  <1>2. CASE memReq[q].pc # "new"
    <2> DEFINE r == memReq[q]
    <2>1. r.op = "add" => r.on \subseteq r.todo \cup undone'[q] \cup members'
      BY <1>2, Zenon DEF RequestInv, Grown
    <2>2. r.op \in {"create", "update"} /\ r.wrote => \A x \in r.on : x[1] \in present' \/ x \in undone'[q]
      <3> SUFFICES ASSUME r.op \in {"create", "update"}, r.wrote, NEW x \in r.on
                   PROVE  x[1] \in present' \/ x \in undone'[q]
        BY Zenon
      <3>1. PICK c \in Containers : r.on = {<<c, c>>}
        BY Zenon DEF RequestInv
      <3>2. x = <<c, c>> /\ x[1] = c
        BY <3>1
      <3>3. c \in present \/ x \in undone[q]
        BY <3>2, Zenon DEF RequestInv
      <3> QED BY <1>2, <3>2, <3>3, Zenon DEF Grown
    <2>3. r.op = "delete" /\ r.wrote => \A x \in r.on : x[1] \notin present'
      BY <1>2, Zenon DEF RequestInv, Grown
    <2> QED BY <2>1, <2>2, <2>3 DEF RequestInv, Grown
  <1> QED BY <1>1, <1>2, Zenon

\* A step of one request keeps the invariant if it keeps the types, its own
\* part, and only takes from the others what they remember.
LEMMA OneRequest ==
    ASSUME MemInv, NEW q \in MemRequests, MemTypes', RequestInv(q)',
           \A p \in MemRequests \ {q} : memReq'[p] = memReq[p] /\ Grown(p)
    PROVE  MemInv'
  BY Bystander, Zenon DEF MemInv

\* Statements that take nothing away.
LEMMA NothingTaken ==
    ASSUME NEW p \in MemRequests, undone' = undone, members \subseteq members', present \subseteq present',
           log \subseteq log', counted \subseteq counted',
           \A x \in memReq[p].on : x[1] \in present' => x[1] \in present
    PROVE  Grown(p)
  BY Zenon DEF Grown

\* Requests are equal if their fields are.
LEMMA SameRequest ==
    ASSUME NEW a \in MemRecord, NEW b \in MemRecord, a.pc = b.pc, a.op = b.op, a.on = b.on,
           a.todo = b.todo, a.wrote = b.wrote, a.reply = b.reply
    PROVE  a = b
  BY DEF MemRecord

\* The record of a request after it has written, or was refused.
LEMMA Settled ==
    ASSUME memReq \in [MemRequests -> MemRecord], NEW q \in MemRequests, NEW r \in MemRecord,
           memReq' = [memReq EXCEPT ![q] = r]
    PROVE  /\ memReq' \in [MemRequests -> MemRecord] /\ memReq'[q] = r
           /\ \A p \in MemRequests \ {q} : memReq'[p] = memReq[p]
  BY Zenon

\* The request after the statement that changes a row: LogAction comes next, or the error answer.
LEMMA WroteIs ==
    ASSUME memReq \in [MemRequests -> MemRecord], NEW q \in MemRequests, NEW op \in {"create", "update", "delete", "remove"},
           NEW on \in SUBSET Shown, Wrote(q, op, on)
    PROVE  /\ memReq' \in [MemRequests -> MemRecord]
           /\ memReq'[q] \in AfterWrite(op, on)
           /\ \A p \in MemRequests \ {q} : memReq'[p] = memReq[p]
  <1>1. PICK lost \in BOOLEAN :
          memReq' = [memReq EXCEPT ![q] = [NoRequest EXCEPT !.pc = IF lost THEN "done" ELSE "audit", !.op = op,
                                           !.on = on, !.wrote = TRUE, !.reply = IF lost THEN "error" ELSE "none"]]
    BY Zenon DEF Wrote
  <1> DEFINE p1 == IF lost THEN "done" ELSE "audit"
             r1 == IF lost THEN "error" ELSE "none"
             r == [pc |-> p1, op |-> op, on |-> on, todo |-> {}, wrote |-> TRUE, reply |-> r1]
             x == [NoRequest EXCEPT !.pc = p1, !.op = op, !.on = on, !.wrote = TRUE, !.reply = r1]
  <1>0. p1 \in {"done", "audit"} /\ r1 \in {"error", "none"} /\ r \in AfterWrite(op, on)
    BY Zenon DEF AfterWrite
  <1>a. memReq' = [memReq EXCEPT ![q] = x]
    BY <1>1
  <1> HIDE DEF p1, r1
  <1>2. r \in MemRecord
    BY <1>0, Zenon DEF MemRecord, Shown
  <1>3. /\ x \in MemRecord
        /\ x.pc = r.pc /\ x.op = op /\ x.on = on /\ x.todo = {} /\ x.wrote = r.wrote /\ x.reply = r.reply
    BY <1>0, Zenon DEF NoRequest, MemRecord, Shown
  <1>e. x = r
    BY <1>2, <1>3, SameRequest, Zenon
  <1> QED BY <1>0, <1>2, <1>a, <1>e, Settled, Zenon

\* A refused request is answered with an error and has written nothing.
LEMMA RefusedIs ==
    ASSUME memReq \in [MemRequests -> MemRecord], NEW q \in MemRequests, NEW op \in {"create", "update", "delete", "remove"},
           NEW on \in SUBSET Shown, Refused(q, op, on)
    PROVE  /\ memReq' \in [MemRequests -> MemRecord]
           /\ memReq'[q] = [pc |-> "done", op |-> op, on |-> on, todo |-> {}, wrote |-> FALSE, reply |-> "error"]
           /\ \A p \in MemRequests \ {q} : memReq'[p] = memReq[p]
  <1> DEFINE r == [pc |-> "done", op |-> op, on |-> on, todo |-> {}, wrote |-> FALSE, reply |-> "error"]
  <1>1. r \in MemRecord
    BY Zenon DEF MemRecord, Shown
  <1> DEFINE x == [NoRequest EXCEPT !.pc = "done", !.op = op, !.on = on, !.reply = "error"]
  <1>3. /\ x \in MemRecord
        /\ x.pc = r.pc /\ x.op = op /\ x.on = on /\ x.todo = {} /\ x.wrote = r.wrote /\ x.reply = r.reply
    BY Zenon DEF NoRequest, MemRecord, Shown
  <1>e. x = r
    BY <1>1, <1>3, SameRequest, Zenon
  <1>2. memReq' = [memReq EXCEPT ![q] = r]
    BY <1>e, Zenon DEF Refused
  <1> QED BY <1>1, <1>2, Settled, Zenon

\* An answered request keeps what it did.
LEMMA AnswerIs ==
    ASSUME memReq \in [MemRequests -> MemRecord], NEW q \in MemRequests, NEW a \in {"ok", "null", "error"}, Answer(q, a)
    PROVE  /\ memReq' \in [MemRequests -> MemRecord]
           /\ memReq'[q] = [memReq[q] EXCEPT !.pc = "done", !.reply = a]
           /\ \A p \in MemRequests \ {q} : memReq'[p] = memReq[p]
  <1> DEFINE r == [memReq[q] EXCEPT !.pc = "done", !.reply = a]
  <1>0. \A x \in MemRecord : [x EXCEPT !.pc = "done", !.reply = a] \in MemRecord
    BY Zenon DEF MemRecord
  <1>1. r \in MemRecord
    BY <1>0, Zenon
  <1>2. memReq' = [memReq EXCEPT ![q] = r]
    BY Zenon DEF Answer
  <1> QED BY <1>1, <1>2, Settled, Zenon

\* What Take leaves with the others.
LEMMA Taken ==
    ASSUME NEW gone, Take(gone), NEW p \in MemRequests, DOMAIN undone = MemRequests
    PROVE  /\ DOMAIN undone' = MemRequests
           /\ memReq[p].pc # "new" => undone[p] \subseteq undone'[p] /\ gone \subseteq undone'[p]
  BY Zenon DEF Take

\* Every statement of the group and tag handlers keeps the invariant.
LEMMA MemStep == MemInv /\ [MemNext]_memVars => MemInv'
  <1> SUFFICES ASSUME MemInv, [MemNext]_memVars PROVE MemInv'
    BY Zenon
  <1> USE DEF MemInv
  <1>t. MemTypes /\ memReq \in [MemRequests -> MemRecord] /\ DOMAIN undone = MemRequests
    BY Zenon DEF MemTypes
  <1>e. \A c \in Containers : {<<c, c>>} \in SUBSET Shown
    BY DEF Shown
  <1>o. ASSUME NEW q \in MemRequests, memReq' \in [MemRequests -> MemRecord],
               \A p \in MemRequests \ {q} : memReq'[p] = memReq[p],
               RequestInv(q)', UNCHANGED <<present, undone>>, members \subseteq members',
               members' \subseteq present \X Devices, log \subseteq log', counted \subseteq counted',
               log' \subseteq MemRequests, counted' \subseteq MemRequests
        PROVE  MemInv'
    <2>1. \A p \in MemRequests \ {q} : Grown(p)
      BY <1>o, NothingTaken, Zenon
    <2> QED BY <1>o, <1>t, <2>1, OneRequest, Zenon DEF MemTypes
  <1>r. ASSUME NEW q \in MemRequests, NEW op \in {"create", "update", "delete", "remove"}, NEW on \in SUBSET Shown,
               op \in {"create", "update"} => \E c \in Containers : on = {<<c, c>>},
               Refused(q, op, on), UNCHANGED <<present, members, log, counted, undone>>
        PROVE  MemInv'
    <2>1. /\ memReq' \in [MemRequests -> MemRecord]
          /\ memReq'[q] = [pc |-> "done", op |-> op, on |-> on, todo |-> {}, wrote |-> FALSE, reply |-> "error"]
          /\ \A p \in MemRequests \ {q} : memReq'[p] = memReq[p]
      BY <1>r, <1>t, RefusedIs, Zenon
    <2>2. RequestInv(q)'
      BY <1>r, <2>1 DEF RequestInv
    <2> QED BY <1>r, <1>o, <1>t, <2>1, <2>2, Zenon DEF MemTypes
  <1>1. ASSUME NEW q \in MemRequests, Create(q) PROVE MemInv'
    <2>1. PICK c \in Containers \ present :
            /\ \A p \in MemRequests : \A x \in memReq[p].on : x[1] # c
            /\ \/ present' = present \cup {c} /\ Wrote(q, "create", {<<c, c>>})
               \/ Refused(q, "create", {<<c, c>>}) /\ UNCHANGED present
      BY <1>1, Zenon DEF Create
    <2>u. UNCHANGED <<members, log, counted, undone>>
      BY <1>1, Zenon DEF Create
    <2>2. CASE present' = present \cup {c} /\ Wrote(q, "create", {<<c, c>>})
      <3>1. /\ memReq' \in [MemRequests -> MemRecord] /\ memReq'[q] \in AfterWrite("create", {<<c, c>>})
            /\ \A p \in MemRequests \ {q} : memReq'[p] = memReq[p]
        BY <1>t, <1>e, <2>2, WroteIs, Zenon
      <3>2. MemTypes'
        BY <1>t, <2>2, <2>u, <3>1, Zenon DEF MemTypes
      <3>3. RequestInv(q)'
        BY <2>2, <3>1 DEF RequestInv, AfterWrite
      <3>4. \A p \in MemRequests \ {q} : Grown(p)
        BY <2>1, <2>2, <2>u, NothingTaken, Zenon
      <3> QED BY <3>1, <3>2, <3>3, <3>4, OneRequest, Zenon
    <2>3. CASE Refused(q, "create", {<<c, c>>}) /\ UNCHANGED present
      BY <1>e, <1>r, <2>3, <2>u, Zenon
    <2> QED BY <2>1, <2>2, <2>3, Zenon
  <1>2. ASSUME NEW q \in MemRequests, Update(q) PROVE MemInv'
    <2>1. PICK c \in Containers : \/ c \in present /\ Wrote(q, "update", {<<c, c>>})
                                 \/ Refused(q, "update", {<<c, c>>})
      BY <1>2, Zenon DEF Update
    <2>2. UNCHANGED <<present, members, log, counted, undone>>
      BY <1>2, Zenon DEF Update
    <2>4. CASE c \in present /\ Wrote(q, "update", {<<c, c>>})
      <3>1. /\ memReq' \in [MemRequests -> MemRecord] /\ memReq'[q] \in AfterWrite("update", {<<c, c>>})
            /\ \A p \in MemRequests \ {q} : memReq'[p] = memReq[p]
        BY <1>t, <1>e, <2>4, WroteIs, Zenon
      <3>2. RequestInv(q)'
        BY <2>2, <2>4, <3>1 DEF RequestInv, AfterWrite
      <3> QED BY <1>o, <1>t, <2>2, <3>1, <3>2, Zenon DEF MemTypes
    <2>5. CASE Refused(q, "update", {<<c, c>>})
      BY <1>e, <1>r, <2>2, <2>5, Zenon
    <2> QED BY <2>1, <2>4, <2>5, Zenon
  <1>3. ASSUME NEW q \in MemRequests, Delete(q) PROVE MemInv'
    <2>u. UNCHANGED <<log, counted>>
      BY <1>3, Zenon DEF Delete
    <2>1. ASSUME NEW c \in present,
                 present' = present \ {c}, members' = members \ {p \in members : p[1] = c},
                 Take({p \in members : p[1] = c} \cup {<<c, c>>}), Wrote(q, "delete", {<<c, c>>})
          PROVE  MemInv'
      <3>1. /\ memReq' \in [MemRequests -> MemRecord] /\ memReq'[q] \in AfterWrite("delete", {<<c, c>>})
            /\ \A p \in MemRequests \ {q} : memReq'[p] = memReq[p]
        BY <1>t, <1>e, <2>1, WroteIs, Zenon DEF MemTypes
      <3>2. RequestInv(q)'
        BY <2>1, <3>1 DEF RequestInv, AfterWrite
      <3>3. members' \subseteq present' \X Devices
        BY <1>t, <2>1, Zenon DEF MemTypes
      <3>4. MemTypes'
        BY <1>t, <2>1, <2>u, <3>1, <3>3, Taken, Zenon DEF MemTypes, Take
      <3>5. \A p \in MemRequests \ {q} : Grown(p)
        BY <1>t, <2>1, <2>u, Taken DEF Grown
      <3> QED BY <3>1, <3>2, <3>4, <3>5, OneRequest, Zenon
    <2>2. ASSUME NEW c \in Containers, Refused(q, "delete", {<<c, c>>}),
                 UNCHANGED <<present, members, undone>>
          PROVE  MemInv'
      BY <1>e, <1>r, <2>2, <2>u, Zenon
    <2> QED BY <1>3, <2>1, <2>2, Zenon DEF Delete
  <1>4. ASSUME NEW q \in MemRequests, Remove(q) PROVE MemInv'
    <2>1. PICK x \in Pairs : \/ members' = members \ {x} /\ Take({x}) /\ Wrote(q, "remove", {x})
                             \/ Refused(q, "remove", {x}) /\ UNCHANGED <<members, undone>>
      BY <1>4, Zenon DEF Remove
    <2>u. UNCHANGED <<present, log, counted>>
      BY <1>4, Zenon DEF Remove
    <2>2. {x} \in SUBSET Shown
      BY Zenon DEF Pairs, Shown
    <2>3. CASE members' = members \ {x} /\ Take({x}) /\ Wrote(q, "remove", {x})
      <3>1. /\ memReq' \in [MemRequests -> MemRecord] /\ memReq'[q] \in AfterWrite("remove", {x})
            /\ \A p \in MemRequests \ {q} : memReq'[p] = memReq[p]
        BY <1>t, <2>2, <2>3, WroteIs, Zenon
      <3>2. RequestInv(q)'
        BY <3>1 DEF RequestInv, AfterWrite
      <3>3. MemTypes'
        BY <1>t, <2>3, <2>u, <3>1, Taken, Zenon DEF MemTypes, Take
      <3>4. \A p \in MemRequests \ {q} : Grown(p)
        BY <1>t, <2>3, <2>u, Taken, Zenon DEF Grown
      <3> QED BY <3>1, <3>2, <3>3, <3>4, OneRequest, Zenon
    <2>4. CASE Refused(q, "remove", {x}) /\ UNCHANGED <<members, undone>>
      <3>1. "remove" \notin {"create", "update"}
        BY SMT
      <3> QED BY <1>r, <2>2, <2>4, <2>u, <3>1, Zenon
    <2> QED BY <2>1, <2>3, <2>4, Zenon
  <1>5. ASSUME NEW q \in MemRequests, Add(q) PROVE MemInv'
    <2>1. PICK l \in Lists : memReq' = [memReq EXCEPT ![q] = [NoRequest EXCEPT !.pc = "add", !.op = "add",
                                                                               !.on = l, !.todo = l]]
      BY <1>5, Zenon DEF Add
    <2> DEFINE r == [pc |-> "add", op |-> "add", on |-> l, todo |-> l, wrote |-> FALSE, reply |-> "none"]
    <2>2. r \in MemRecord
      BY Zenon DEF MemRecord, Shown, Lists, Pairs
    <2> DEFINE x == [NoRequest EXCEPT !.pc = "add", !.op = "add", !.on = l, !.todo = l]
    <2>x. /\ x \in MemRecord
          /\ x.pc = r.pc /\ x.op = r.op /\ x.on = l /\ x.todo = l /\ x.wrote = r.wrote /\ x.reply = r.reply
      BY Zenon DEF NoRequest, MemRecord, Shown, Lists, Pairs
    <2>e. x = r
      BY <2>2, <2>x, SameRequest, Zenon
    <2>3. memReq' = [memReq EXCEPT ![q] = r]
      BY <2>1, <2>e, Zenon
    <2>4. /\ memReq' \in [MemRequests -> MemRecord] /\ memReq'[q] = r
          /\ \A p \in MemRequests \ {q} : memReq'[p] = memReq[p]
      BY <1>t, <2>2, <2>3, Settled, Zenon
    <2>5. RequestInv(q)'
      BY <2>4 DEF RequestInv
    <2> QED BY <1>5, <1>o, <1>t, <2>4, <2>5, Zenon DEF Add, MemTypes
  <1>6. ASSUME NEW q \in MemRequests, Insert(q) PROVE MemInv'
    <2>2. RequestInv(q) /\ memReq[q] \in MemRecord /\ memReq[q].pc = "add" /\ UNCHANGED <<present, log, counted, undone>>
      BY <1>6, <1>t, Zenon DEF Insert
    <2>3. ASSUME NEW x \in memReq[q].todo, NEW lost \in BOOLEAN, x[1] \in present, x[2] \in Devices,
                 members' = members \cup {x},
                 memReq' = [memReq EXCEPT ![q].todo = @ \ {x}, ![q].wrote = @ \/ x \notin members,
                                          ![q].pc = IF lost THEN "done" ELSE @,
                                          ![q].reply = IF lost THEN "error" ELSE @]
          PROVE  MemInv'
      <3> DEFINE p1 == IF lost THEN "done" ELSE memReq[q].pc
                 r1 == IF lost THEN "error" ELSE memReq[q].reply
                 r == [memReq[q] EXCEPT !.todo = @ \ {x}, !.wrote = @ \/ x \notin members, !.pc = p1, !.reply = r1]
      <3>0. (p1 = "done" /\ r1 = "error") \/ (p1 = "add" /\ r1 = memReq[q].reply)
        BY <2>2, Zenon
      <3>2. memReq' = [memReq EXCEPT ![q] = r]
        BY <2>3, Zenon
      <3> HIDE DEF p1, r1
      <3>1. r \in MemRecord
        BY <2>2, <3>0, Zenon DEF MemRecord
      <3>3. /\ memReq' \in [MemRequests -> MemRecord] /\ memReq'[q] = r
            /\ \A p \in MemRequests \ {q} : memReq'[p] = memReq[p]
        BY <1>t, <3>1, <3>2, Settled, Zenon
      <3>4. x \in present \X Devices
        BY <2>2, <2>3, Zenon DEF MemRecord, Shown
      <3>5. /\ r.pc = p1 /\ r.op = memReq[q].op /\ r.on = memReq[q].on /\ r.todo = memReq[q].todo \ {x}
            /\ r.reply = r1 /\ r.op = "add"
        BY <2>2, Zenon DEF MemRecord, RequestInv
      <3> HIDE DEF r
      <3>a. /\ r.todo \subseteq r.on
            /\ r.on \subseteq r.todo \cup undone'[q] \cup members'
        BY <2>2, <2>3, <3>5, Zenon DEF RequestInv
      <3>b. memReq[q].reply = "none"
        BY <2>2 DEF RequestInv
      <3>7. RequestInv(q)'
        BY <3>0, <3>3, <3>5, <3>a, <3>b, SMT DEF RequestInv
      <3> QED BY <1>o, <1>t, <2>2, <2>3, <3>3, <3>4, <3>7, Zenon DEF MemTypes
    <2>4. CASE Answer(q, "error") /\ UNCHANGED members
      <3>1. /\ memReq' \in [MemRequests -> MemRecord]
            /\ memReq'[q] = [memReq[q] EXCEPT !.pc = "done", !.reply = "error"]
            /\ \A p \in MemRequests \ {q} : memReq'[p] = memReq[p]
        BY <1>t, <2>4, AnswerIs, Zenon
      <3>2. RequestInv(q)'
        BY <2>2, <2>4, <3>1 DEF RequestInv, MemRecord
      <3> QED BY <1>o, <1>t, <2>2, <2>4, <3>1, <3>2, Zenon DEF MemTypes
    <2>5. \/ \E x \in memReq[q].todo : \E lost \in BOOLEAN :
                /\ x[1] \in present /\ x[2] \in Devices /\ members' = members \cup {x}
                /\ memReq' = [memReq EXCEPT ![q].todo = @ \ {x}, ![q].wrote = @ \/ x \notin members,
                                            ![q].pc = IF lost THEN "done" ELSE @,
                                            ![q].reply = IF lost THEN "error" ELSE @]
          \/ Answer(q, "error") /\ UNCHANGED members
      BY <1>6, Zenon DEF Insert
    <2> QED BY <2>3, <2>4, <2>5, Zenon
  <1>7. ASSUME NEW q \in MemRequests, Inserted(q) PROVE MemInv'
    <2> DEFINE r == [memReq[q] EXCEPT !.pc = "audit"]
    <2>1. RequestInv(q) /\ memReq[q] \in MemRecord /\ memReq[q].pc = "add" /\ memReq[q].todo = {}
      BY <1>7, <1>t, Zenon DEF Inserted
    <2>2. r \in MemRecord
      BY <2>1, Zenon DEF MemRecord
    <2>3. memReq' = [memReq EXCEPT ![q] = r]
      BY <1>7, Zenon DEF Inserted
    <2>4. /\ memReq' \in [MemRequests -> MemRecord] /\ memReq'[q] = r
          /\ \A p \in MemRequests \ {q} : memReq'[p] = memReq[p]
      BY <1>t, <2>2, <2>3, Settled, Zenon
    <2>5. members' = members /\ present' = present /\ undone' = undone /\ log' = log /\ counted' = counted
      BY <1>7, Zenon DEF Inserted
    <2>6. RequestInv(q)'
      <3>1. r.pc = "audit" /\ r.op = memReq[q].op /\ r.on = memReq[q].on /\ r.todo = {}
            /\ r.reply = "none" /\ r.op = "add"
        BY <2>1, Zenon DEF MemRecord, RequestInv
      <3> HIDE DEF r
      <3>2. r.on \subseteq undone'[q] \cup members'
        BY <2>1, <2>5, <3>1, Zenon DEF RequestInv
      <3> QED BY <2>4, <3>1, <3>2, SMT DEF RequestInv
    <2> QED BY <1>o, <1>t, <2>4, <2>5, <2>6, Zenon DEF MemTypes
  <1>9. ASSUME NEW q \in MemRequests, LogAction(q) PROVE MemInv'
    <2>1. RequestInv(q) /\ memReq[q] \in MemRecord /\ memReq[q].pc = "audit"
      BY <1>9, <1>t, Zenon DEF LogAction
    <2>2. /\ members' = members /\ present' = present /\ undone' = undone
          /\ log \subseteq log' /\ counted \subseteq counted' /\ q \in log' \cup counted'
          /\ log' \subseteq MemRequests /\ counted' \subseteq MemRequests
      BY <1>9, <1>t, Zenon DEF LogAction, MemTypes
    <2>3. CASE memReq[q].op = "update"
      <3> DEFINE r == [memReq[q] EXCEPT !.pc = "reread"]
      <3>1. r \in MemRecord
        BY <2>1, Zenon DEF MemRecord
      <3>2. memReq' = [memReq EXCEPT ![q] = r]
        BY <1>9, <2>3, Zenon DEF LogAction
      <3>3. /\ memReq' \in [MemRequests -> MemRecord] /\ memReq'[q] = r
            /\ \A p \in MemRequests \ {q} : memReq'[p] = memReq[p]
        BY <1>t, <3>1, <3>2, Settled, Zenon
      <3>4. r.pc = "reread" /\ r.op = "update" /\ r.on = memReq[q].on /\ r.todo = {} /\ r.reply = "none"
        BY <2>1, <2>3, Zenon DEF MemRecord, RequestInv
      <3>w. r.wrote = memReq[q].wrote
        BY <2>1, Zenon DEF MemRecord
      <3> HIDE DEF r
      <3>5. r.wrote /\ (\A x \in r.on : x[1] \in present' \/ x \in undone'[q])
            /\ \E c \in Containers : r.on = {<<c, c>>}
        BY <2>1, <2>2, <2>3, <3>4, <3>w, SMT DEF RequestInv
      <3>6. RequestInv(q)'
        BY <2>2, <3>3, <3>4, <3>5, SMT DEF RequestInv
      <3> QED BY <1>o, <1>t, <2>2, <3>3, <3>6, Zenon DEF MemTypes
    <2>4. CASE memReq[q].op # "update"
      <3>1. /\ memReq' \in [MemRequests -> MemRecord]
            /\ memReq'[q] = [memReq[q] EXCEPT !.pc = "done", !.reply = "ok"]
            /\ \A p \in MemRequests \ {q} : memReq'[p] = memReq[p]
        BY <1>9, <1>t, <2>4, AnswerIs, Zenon DEF LogAction
      <3>2. RequestInv(q)'
        BY <2>1, <2>2, <2>4, <3>1 DEF RequestInv, MemRecord
      <3> QED BY <1>o, <1>t, <2>2, <3>1, <3>2, Zenon DEF MemTypes
    <2> QED BY <2>3, <2>4, Zenon
  <1>10. ASSUME NEW q \in MemRequests, Reread(q) PROVE MemInv'
    <2>1. RequestInv(q) /\ memReq[q] \in MemRecord /\ memReq[q].pc = "reread"
      BY <1>10, <1>t, Zenon DEF Reread
    <2>2. members' = members /\ present' = present /\ undone' = undone /\ log' = log /\ counted' = counted
      BY <1>10, Zenon DEF Reread
    <2>3. PICK a \in {"ok", "null", "error"} : Answer(q, a)
      BY <1>10, Zenon DEF Reread
    <2>4. /\ memReq' \in [MemRequests -> MemRecord]
          /\ memReq'[q] = [memReq[q] EXCEPT !.pc = "done", !.reply = a]
          /\ \A p \in MemRequests \ {q} : memReq'[p] = memReq[p]
      BY <1>t, <2>3, AnswerIs, Zenon
    <2>5. RequestInv(q)'
      BY <2>1, <2>2, <2>4 DEF RequestInv, MemRecord
    <2> QED BY <1>o, <1>t, <2>2, <2>4, <2>5, Zenon DEF MemTypes
  <1>11. CASE UNCHANGED memVars
    BY <1>11 DEF memVars, MemTypes, RequestInv
  <1> QED BY <1>1, <1>2, <1>3, <1>4, <1>5, <1>6, <1>7, <1>9, <1>10, <1>11, Zenon DEF MemNext

\* The invariant holds before the first request.
LEMMA MemInitially == MemInit => MemInv
  <1> SUFFICES ASSUME MemInit PROVE MemInv
    BY Zenon
  <1>1. NoRequest \in MemRecord
    BY Zenon DEF NoRequest, MemRecord
  <1>2. MemTypes
    BY <1>1, Zenon DEF MemInit, MemTypes
  <1>3. \A q \in MemRequests : RequestInv(q)
    BY Zenon DEF MemInit, RequestInv, NoRequest
  <1> QED BY <1>2, <1>3, Zenon DEF MemInv

\* The invariant of Memberships holds in every state.
THEOREM MembershipsInv == MemSpec => []MemInv
  BY MemInitially, MemStep, PTL DEF MemSpec

\* What a request on groups, sites and tags was answered for with success has happened unless it
\* was undone since, and is in the audit log or counted as lost, for any requests, containers and
\* devices.
THEOREM MembershipsHold == MemSpec => []MembershipsSafe
  <1>1. ASSUME MemInv, NEW q \in MemRequests, Answered(q)
        PROVE  /\ memReq[q].op = "add" => memReq[q].on \ undone[q] \subseteq members
               /\ memReq[q].op \in {"create", "update"} => \A x \in memReq[q].on \ undone[q] : x[1] \in present
               /\ memReq[q].op = "delete" => \A x \in memReq[q].on : x[1] \notin present
               /\ q \in log \cup counted
    <2>1. RequestInv(q) /\ memReq[q].reply \in {"ok", "null"}
      BY <1>1, Zenon DEF MemInv, Answered
    <2> QED BY <2>1 DEF RequestInv
  <1>2. MemInv => MembershipsSafe
    BY <1>1, Zenon DEF MembershipsSafe, DoneUnlessUndone, RecordedOrCountedIfAnswered
  <1> QED BY <1>2, MembershipsInv, PTL

-----------------------------------------------------------------------------
(* Roles, users and keys *)

FullRow == [name : Names, permissions : Permissions]
UserRow == [invited : BOOLEAN, role : Roles \cup {"none"}, subject : Subjects \cup {"none"}]
AccountRequest == [pc : {"idle", "update", "delete", "assign", "quota", "key"}, id : Roles \cup {"none"},
                   user : Users \cup {"none"}, read : FullRow \cup {NoRole}, patch : Patches, stale : BOOLEAN]
Creating(q) == req[q].pc \in {"quota", "key"}

\* What a request may rely on when it writes: an update that no other has
\* overtaken holds the row as it is, and a creation alone has room for its key.
AccountRequestInv(q) ==
  /\ req[q].pc \in {"delete", "assign", "key"} => req[q].id \in Roles
  /\ req[q].pc = "assign" => req[q].user \in Users
  /\ req[q].pc = "update" =>
       /\ req[q].id \in Custom \cap spent /\ req[q].read \in FullRow
       /\ ~req[q].stale /\ role[req[q].id] # NoRole => req[q].read = role[req[q].id]

\* Creations of keys that do not overlap stay within the ceiling.
KeyInv ==
  ~raced => /\ \A p, q \in Requests : Creating(p) /\ Creating(q) => p = q
            /\ Cardinality(Live) <= MaxAPIKeys
            /\ (\E q \in Requests : Creating(q)) => Cardinality(Live) + 1 <= MaxAPIKeys

AccountInv ==
  /\ role \in [Roles -> FullRow \cup {NoRole}] /\ user \in [Users -> UserRow]
  /\ accountKeys \in [Keys -> Roles \cup {"none"}] /\ req \in [Requests -> AccountRequest]
  /\ \A r \in Custom : role[r] # NoRole => r \in spent
  /\ \A q \in Requests : AccountRequestInv(q)
  /\ AssignedExists /\ OneUserPerSubject /\ KeyInv

\* Rows, requests and what the writes make of them.
LEMMA AccountRecords ==
  /\ Idle \in AccountRequest /\ Idle.pc = "idle" /\ NoUser \in UserRow /\ NoUser.subject = "none"
  /\ Seeded \in FullRow /\ NoRole \notin FullRow
  /\ \A n \in Names, p \in Permissions : [name |-> n, permissions |-> p] \in FullRow
  /\ \A patch \in Patches, row \in FullRow : Over(patch, row) \in FullRow
  <1>1. "none" \notin Names /\ "none" \notin Permissions /\ "none" \notin Subjects /\ "none" \notin Roles
        /\ Names # {} /\ Permissions # {}
    BY AccountsAssumption, Zenon DEF Roles
  <1>2. Seeded \in FullRow
    BY <1>1, Zenon DEF Seeded, FullRow
  <1>3. NoRole \notin FullRow /\ NoRole \in Patches
    BY <1>1, Zenon DEF NoRole, FullRow, Patches
  <1>4. Idle \in AccountRequest /\ Idle.pc = "idle"
    BY <1>3, Zenon DEF Idle, AccountRequest
  <1>5. NoUser \in UserRow /\ NoUser.subject = "none"
    BY Zenon DEF NoUser, UserRow
  <1>6. \A patch \in Patches, row \in FullRow : Over(patch, row) \in FullRow
    BY Zenon DEF Patches, FullRow, Over
  <1> QED BY <1>2, <1>3, <1>4, <1>5, <1>6, Zenon DEF FullRow

\* The keys there are: how many a creation and a deletion leave.
LEMMA LiveCount ==
  ASSUME NEW k \in Keys, NEW x \in Roles \cup {"none"}, accountKeys \in [Keys -> Roles \cup {"none"}],
         accountKeys' = [accountKeys EXCEPT ![k] = x]
  PROVE  /\ Cardinality(Live) \in Nat /\ Cardinality(Live') \in Nat
         /\ Cardinality(Live') <= Cardinality(Live) + 1
         /\ x = "none" => Cardinality(Live') <= Cardinality(Live)
  <1>1. IsFiniteSet(Keys)
    BY AccountsAssumption, Zenon
  <1>2. Live \subseteq Keys /\ Live' \subseteq Keys
    BY Zenon DEF Live
  <1>3. IsFiniteSet(Live) /\ IsFiniteSet(Live')
    BY <1>1, <1>2, FS_Subset, Zenon
  <1>4. Cardinality(Live) \in Nat /\ Cardinality(Live') \in Nat
    BY <1>3, FS_CardinalityType, Zenon
  <1>5. Live' \subseteq Live \cup {k} /\ (x = "none" => Live' \subseteq Live)
    BY Zenon DEF Live
  <1>6. IsFiniteSet(Live \cup {k}) /\ Cardinality(Live \cup {k}) \in {Cardinality(Live), Cardinality(Live) + 1}
    BY <1>3, FS_AddElement, Zenon
  <1>7. Cardinality(Live') <= Cardinality(Live \cup {k})
    BY <1>5, <1>6, FS_Subset, Zenon
  <1>8. x = "none" => Cardinality(Live') <= Cardinality(Live)
    BY <1>3, <1>5, FS_Subset, Zenon
  <1> QED BY <1>4, <1>6, <1>7, <1>8

\* A step that neither makes keys nor starts to create them.
LEMMA KeysKeep ==
  ASSUME KeyInv, UNCHANGED <<accountKeys, raced>>, \A q \in Requests : Creating(q)' => Creating(q)
  PROVE  KeyInv'
  <1>1. Live' = Live
    BY Zenon DEF Live
  <1> QED BY <1>1, Zenon DEF KeyInv

\* A step that sets the state of one request and leaves the tables.
LEMMA RequestKeeps ==
  ASSUME AccountInv, NEW q \in Requests, NEW rec \in AccountRequest, req' = [req EXCEPT ![q] = rec],
         UNCHANGED <<role, spent, user, accountKeys>>, KeyInv',
         rec.pc \in {"delete", "assign", "key"} => rec.id \in Roles,
         rec.pc = "assign" => rec.user \in Users,
         rec.pc = "update" => /\ rec.id \in Custom \cap spent /\ rec.read \in FullRow
                              /\ rec.read = role[rec.id]
  PROVE  AccountInv'
  <1>1. req' \in [Requests -> AccountRequest] /\ req'[q] = rec /\ \A p \in Requests \ {q} : req'[p] = req[p]
    BY Zenon DEF AccountInv
  <1>2. AccountRequestInv(q)'
    BY <1>1, Zenon DEF AccountRequestInv
  <1>3. \A p \in Requests \ {q} : AccountRequestInv(p)'
    BY <1>1, Zenon DEF AccountInv, AccountRequestInv
  <1>4. AssignedExists' /\ OneUserPerSubject'
    BY Zenon DEF AccountInv, AssignedExists, Assigned, OneUserPerSubject
  <1> QED BY <1>1, <1>2, <1>3, <1>4, Zenon DEF AccountInv

\* The reads of the handlers.
LEMMA ReadsKeep ==
  ASSUME AccountInv, NEW q \in Requests, NEW r \in Roles,
         \/ \E patch \in Patches : ReadRole(q, r, patch)
         \/ CountAssigned(q, r) \/ GetRole(q, r) \/ \E u \in Users : LookUpRole(q, u, r)
  PROVE  AccountInv'
  <1>0. req \in [Requests -> AccountRequest] /\ KeyInv
    BY Zenon DEF AccountInv
  <1>1. ASSUME NEW rec \in AccountRequest, req' = [req EXCEPT ![q] = rec], UNCHANGED <<accountKeys, raced>>,
               rec.pc \notin {"quota", "key"} \/ Creating(q)
        PROVE  KeyInv'
    <2>1. \A p \in Requests : Creating(p)' => Creating(p)
      BY <1>0, <1>1, Zenon DEF Creating
    <2> QED BY <1>0, <1>1, <2>1, KeysKeep, Zenon
  <1>2. ASSUME NEW patch \in Patches, ReadRole(q, r, patch) PROVE AccountInv'
    <2> DEFINE rec == [Idle EXCEPT !.pc = "update", !.id = r, !.read = role[r], !.patch = patch]
    <2>1. req' = [req EXCEPT ![q] = rec] /\ UNCHANGED <<role, spent, user, accountKeys, raced>>
          /\ r \in Custom /\ role[r] # NoRole
      BY <1>2, Zenon DEF ReadRole
    <2>2. role[r] \in FullRow /\ r \in spent
      BY <2>1, Zenon DEF AccountInv
    <2>3. rec \in AccountRequest /\ rec.pc = "update" /\ rec.id = r /\ rec.read = role[r]
      BY <2>2, AccountRecords, Zenon DEF Idle, AccountRequest
    <2> HIDE DEF rec
    <2>4. KeyInv'
      BY <1>1, <2>1, <2>3, Zenon
    <2> QED BY <2>1, <2>2, <2>3, <2>4, RequestKeeps, Zenon
  <1>3. CASE CountAssigned(q, r)
    <2> DEFINE rec == [Idle EXCEPT !.pc = "delete", !.id = r]
    <2>1. req' = [req EXCEPT ![q] = rec] /\ UNCHANGED <<role, spent, user, accountKeys, raced>>
      BY <1>3, Zenon DEF CountAssigned
    <2>2. rec \in AccountRequest /\ rec.pc = "delete" /\ rec.id = r
      BY AccountRecords, Zenon DEF Idle, AccountRequest
    <2> HIDE DEF rec
    <2>3. KeyInv'
      BY <1>1, <2>1, <2>2, Zenon
    <2> QED BY <2>1, <2>2, <2>3, RequestKeeps, Zenon
  <1>4. ASSUME NEW u \in Users, LookUpRole(q, u, r) PROVE AccountInv'
    <2> DEFINE rec == [Idle EXCEPT !.pc = "assign", !.id = r, !.user = u]
    <2>1. req' = [req EXCEPT ![q] = rec] /\ UNCHANGED <<role, spent, user, accountKeys, raced>>
      BY <1>4, Zenon DEF LookUpRole
    <2>2. rec \in AccountRequest /\ rec.pc = "assign" /\ rec.id = r /\ rec.user = u
      BY AccountRecords, Zenon DEF Idle, AccountRequest
    <2> HIDE DEF rec
    <2>3. KeyInv'
      BY <1>1, <2>1, <2>2, Zenon
    <2> QED BY <2>1, <2>2, <2>3, RequestKeeps, Zenon
  <1>5. CASE GetRole(q, r)
    <2>1. PICK rec : /\ req' = [req EXCEPT ![q] = rec]
                     /\ rec = Idle \/ rec = [Idle EXCEPT !.pc = "key", !.id = r]
      BY <1>5, Zenon DEF GetRole
    <2>2. UNCHANGED <<role, spent, user, accountKeys, raced>> /\ Creating(q)
      BY <1>5, Zenon DEF GetRole, Creating
    <2>3. rec \in AccountRequest /\ rec.pc \in {"idle", "key"} /\ (rec.pc = "key" => rec.id = r)
      BY <2>1, AccountRecords DEF Idle, AccountRequest
    <2>4. KeyInv'
      BY <1>1, <2>1, <2>2, <2>3, Zenon
    <2> QED BY <2>1, <2>2, <2>3, <2>4, RequestKeeps, Zenon
  <1> QED BY <1>2, <1>3, <1>4, <1>5, Zenon

\* The count of keys: a creation that finds another one under way races it.
LEMMA CountKeeps ==
  ASSUME AccountInv, NEW q \in Requests, CheckAPIKeys(q)
  PROVE  AccountInv'
  <1> DEFINE rec == [Idle EXCEPT !.pc = "quota"]
  <1>1. /\ req' = [req EXCEPT ![q] = rec] /\ UNCHANGED <<role, spent, user, accountKeys>>
        /\ raced' = (raced \/ \E p \in Requests : Creating(p))
        /\ Cardinality(Live) + 1 <= MaxAPIKeys
    BY Zenon DEF CheckAPIKeys, Creating
  <1>2. rec \in AccountRequest /\ rec.pc = "quota"
    BY AccountRecords, Zenon DEF Idle, AccountRequest
  <1> HIDE DEF rec
  <1>3. \A p \in Requests \ {q} : req'[p] = req[p]
    BY <1>1, Zenon DEF AccountInv
  <1>4. ASSUME ~raced' PROVE \A p \in Requests : Creating(p)' => p = q
    BY <1>1, <1>3, <1>4, Zenon DEF Creating
  <1>5. KeyInv'
    <2>1. Live' = Live
      BY <1>1, Zenon DEF Live
    <2>2. ~raced' => ~raced
      BY <1>1, Zenon
    <2>3. ~raced => Cardinality(Live) <= MaxAPIKeys
      BY Zenon DEF AccountInv, KeyInv
    <2> QED BY <1>1, <1>4, <2>1, <2>2, <2>3, Zenon DEF KeyInv
  <1> QED BY <1>1, <1>2, <1>5, RequestKeeps, Zenon

\* The writes of roles: an update marks the ones it overtakes, and a deletion
\* counts once more.
LEMMA RolesKeep ==
  ASSUME AccountInv,
         \/ \E r \in Custom, n \in Names, p \in Permissions : CreateRole(r, n, p)
         \/ \E q \in Requests : UpdateRole(q) \/ DeleteRole(q)
  PROVE  AccountInv'
  <1>0. /\ role \in [Roles -> FullRow \cup {NoRole}] /\ req \in [Requests -> AccountRequest]
        /\ \A r \in Custom : role[r] # NoRole => r \in spent
        /\ \A q \in Requests : AccountRequestInv(q)
        /\ AssignedExists /\ OneUserPerSubject /\ KeyInv /\ NoRole \notin FullRow /\ Custom \subseteq Roles
    BY AccountRecords, Zenon DEF AccountInv, Roles
  <1>1. ASSUME NEW r \in Roles, NEW row \in FullRow \cup {NoRole}, role' = [role EXCEPT ![r] = row],
               row # NoRole \/ ~Assigned(r), UNCHANGED <<user, accountKeys>>
        PROVE  /\ AssignedExists' /\ OneUserPerSubject' /\ role' \in [Roles -> FullRow \cup {NoRole}]
               /\ role'[r] = row /\ \A s \in Roles \ {r} : role'[s] = role[s]
    <2>1. role' \in [Roles -> FullRow \cup {NoRole}] /\ role'[r] = row /\ \A s \in Roles \ {r} : role'[s] = role[s]
      BY <1>0, <1>1, Zenon
    <2>2. AssignedExists' /\ OneUserPerSubject'
      BY <1>0, <1>1, <2>1, Zenon DEF AssignedExists, Assigned, OneUserPerSubject
    <2> QED BY <2>1, <2>2, Zenon
  <1>2. ASSUME NEW r \in Custom, NEW n \in Names, NEW p \in Permissions, CreateRole(r, n, p) PROVE AccountInv'
    <2> DEFINE row == [name |-> n, permissions |-> p]
    <2>1. r \notin spent /\ spent' = spent \cup {r} /\ role' = [role EXCEPT ![r] = row]
          /\ UNCHANGED <<user, accountKeys, req, raced>>
      BY <1>2, Zenon DEF CreateRole
    <2>2. row \in FullRow
      BY AccountRecords, Zenon
    <2> HIDE DEF row
    <2>3. /\ AssignedExists' /\ OneUserPerSubject' /\ role' \in [Roles -> FullRow \cup {NoRole}]
          /\ role'[r] = row /\ \A s \in Roles \ {r} : role'[s] = role[s]
      BY <1>0, <1>1, <2>1, <2>2, Zenon
    <2>4. ASSUME NEW q \in Requests PROVE AccountRequestInv(q)'
      <3>1. req[q].pc = "update" => req[q].id \in Roles \ {r}
        BY <1>0, <2>1, Zenon DEF AccountRequestInv
      <3>2. AccountRequestInv(q) /\ UNCHANGED req /\ spent \subseteq spent'
        BY <1>0, <2>1, Zenon
      <3> QED BY <2>3, <3>1, <3>2, Zenon DEF AccountRequestInv
    <2>5. KeyInv'
      BY <1>0, <2>1, KeysKeep, Zenon DEF Creating
    <2>6. \A s \in Custom : role'[s] # NoRole => s \in spent'
      BY <1>0, <2>1, <2>3, Zenon
    <2> QED BY <2>1, <2>3, <2>4, <2>5, <2>6, Zenon DEF AccountInv
  <1>3. ASSUME NEW q \in Requests, UpdateRole(q) PROVE AccountInv'
    <2> DEFINE r == req[q].id
               row == Over(req[q].patch, req[q].read)
    <2>1. /\ req[q].pc = "update" /\ req' = Stales(q, r) /\ UNCHANGED <<spent, user, accountKeys, raced>>
          /\ role' = IF role[r] = NoRole THEN role ELSE [role EXCEPT ![r] = row]
      BY <1>3, Zenon DEF UpdateRole
    <2>2. r \in Custom /\ r \in Roles /\ req[q].read \in FullRow /\ req[q].patch \in Patches
      BY <1>0, <2>1, Zenon DEF AccountRequestInv, AccountRequest
    <2>3. row \in FullRow
      BY <2>2, AccountRecords, Zenon
    <2> HIDE DEF row, r
    <2>4. /\ AssignedExists' /\ OneUserPerSubject' /\ role' \in [Roles -> FullRow \cup {NoRole}]
          /\ role'[r] # NoRole => role[r] # NoRole
          /\ \A s \in Roles \ {r} : role'[s] = role[s]
      <3>1. CASE role[r] = NoRole
        <4>1. role' = role
          BY <2>1, <3>1, Zenon
        <4> QED BY <1>0, <2>1, <4>1, Zenon DEF AssignedExists, Assigned, OneUserPerSubject
      <3>2. CASE role[r] # NoRole
        <4>1. role' = [role EXCEPT ![r] = row]
          BY <2>1, <3>2, Zenon
        <4> QED BY <1>0, <1>1, <2>1, <2>2, <2>3, <3>2, <4>1, Zenon
      <3> QED BY <3>1, <3>2, Zenon
    <2>5. req' \in [Requests -> AccountRequest]
          /\ \A p \in Requests : \/ req'[p] = Idle
                                 \/ req'[p] = [req[p] EXCEPT !.stale = TRUE]
                                 \/ req'[p] = req[p] /\ ~(req[p].pc = "update" /\ req[p].id = r)
      <3>1. req' = [p \in Requests |-> IF p = q THEN Idle
                                       ELSE IF req[p].pc = "update" /\ req[p].id = r THEN [req[p] EXCEPT !.stale = TRUE]
                                       ELSE req[p]]
        BY <2>1, Zenon DEF Stales
      <3>2. \A p \in Requests : [req[p] EXCEPT !.stale = TRUE] \in AccountRequest
        BY <1>0 DEF AccountRequest
      <3> QED BY <1>0, <3>1, <3>2, AccountRecords, Zenon
    <2>6. ASSUME NEW p \in Requests PROVE AccountRequestInv(p)' /\ (Creating(p)' => Creating(p))
      <3>1. CASE req'[p] = Idle
        BY <3>1, AccountRecords, Zenon DEF AccountRequestInv, Creating
      <3>2. CASE req'[p] = [req[p] EXCEPT !.stale = TRUE]
        <4>1. /\ req'[p].pc = req[p].pc /\ req'[p].id = req[p].id /\ req'[p].user = req[p].user
              /\ req'[p].read = req[p].read /\ req'[p].stale = TRUE
          BY <1>0, <3>2 DEF AccountRequest
        <4> QED BY <1>0, <2>1, <4>1, Zenon DEF AccountRequestInv, Creating
      <3>3. CASE req'[p] = req[p] /\ ~(req[p].pc = "update" /\ req[p].id = r)
        <4>1. req[p].pc = "update" => role'[req[p].id] = role[req[p].id]
          BY <1>0, <2>4, <3>3, Zenon DEF AccountRequestInv
        <4> QED BY <1>0, <2>1, <3>3, <4>1, Zenon DEF AccountRequestInv, Creating
      <3> QED BY <2>5, <3>1, <3>2, <3>3, Zenon
    <2>7. KeyInv'
      BY <1>0, <2>1, <2>6, KeysKeep, Zenon
    <2>8. \A s \in Custom : role'[s] # NoRole => s \in spent'
      BY <1>0, <2>1, <2>4, Zenon
    <2> QED BY <2>1, <2>4, <2>5, <2>6, <2>7, <2>8, Zenon DEF AccountInv
  <1>4. ASSUME NEW q \in Requests, DeleteRole(q) PROVE AccountInv'
    <2> DEFINE r == req[q].id
    <2>1. /\ req[q].pc = "delete" /\ req' = [req EXCEPT ![q] = Idle] /\ UNCHANGED <<spent, user, accountKeys, raced>>
          /\ role' = IF r \in System \/ Assigned(r) THEN role ELSE [role EXCEPT ![r] = NoRole]
      BY <1>4, Zenon DEF DeleteRole
    <2>2. r \in Roles
      BY <1>0, <2>1, Zenon DEF AccountRequestInv
    <2> HIDE DEF r
    <2>3. /\ AssignedExists' /\ OneUserPerSubject' /\ role' \in [Roles -> FullRow \cup {NoRole}]
          /\ \A s \in Roles : role'[s] \in {role[s], NoRole}
      <3>1. CASE r \in System \/ Assigned(r)
        <4>1. role' = role
          BY <2>1, <3>1, Zenon
        <4> QED BY <1>0, <2>1, <4>1, Zenon DEF AssignedExists, Assigned, OneUserPerSubject
      <3>2. CASE ~(r \in System \/ Assigned(r))
        <4>1. role' = [role EXCEPT ![r] = NoRole]
          BY <2>1, <3>2, Zenon
        <4> QED BY <1>0, <1>1, <2>1, <2>2, <3>2, <4>1, Zenon
      <3> QED BY <3>1, <3>2, Zenon
    <2>4. req' \in [Requests -> AccountRequest] /\ req'[q] = Idle /\ \A p \in Requests \ {q} : req'[p] = req[p]
      BY <1>0, <2>1, AccountRecords, Zenon
    <2>5. ASSUME NEW p \in Requests PROVE AccountRequestInv(p)' /\ (Creating(p)' => Creating(p))
      <3>1. CASE p = q
        BY <2>4, <3>1, AccountRecords, Zenon DEF AccountRequestInv, Creating
      <3>2. CASE p # q
        <4>1. req'[p] = req[p] /\ AccountRequestInv(p)
          BY <1>0, <2>4, <3>2, Zenon
        <4>2. req[p].pc = "update" => role'[req[p].id] \in {role[req[p].id], NoRole}
          BY <1>0, <2>3, <4>1, Zenon DEF AccountRequestInv
        <4> QED BY <2>1, <4>1, <4>2, Zenon DEF AccountRequestInv, Creating
      <3> QED BY <3>1, <3>2, Zenon
    <2>6. KeyInv'
      BY <1>0, <2>1, <2>5, KeysKeep, Zenon
    <2>7. \A s \in Custom : role'[s] # NoRole => s \in spent'
      BY <1>0, <2>1, <2>3, Zenon
    <2> QED BY <2>1, <2>3, <2>4, <2>5, <2>6, <2>7, Zenon DEF AccountInv
  <1> QED BY <1>2, <1>3, <1>4, Zenon

\* The writes of users: the references hold at the write, and the index keeps
\* subjects apart.
LEMMA UsersKeep ==
  ASSUME AccountInv,
         \/ \E q \in Requests : UpdateUserRole(q)
         \/ \E u \in Users : \/ \E r \in Roles : Invite(u, r)
                             \/ \E s \in Subjects \cup {"none"} : SetUserSSOSubject(u, s)
                             \/ DeactivateUser(u)
  PROVE  AccountInv'
  <1>0. user \in [Users -> UserRow] /\ req \in [Requests -> AccountRequest] /\ AssignedExists /\ OneUserPerSubject
        /\ KeyInv /\ \A q \in Requests : AccountRequestInv(q)
    BY Zenon DEF AccountInv
  <1>1. ASSUME NEW u \in Users, NEW row \in UserRow, user' = [user EXCEPT ![u] = row],
               row.role = "none" \/ row.role = user[u].role \/ (row.role \in Roles /\ role[row.role] # NoRole),
               row.subject = "none" \/ \A v \in Users \ {u} : user[v].subject # row.subject,
               UNCHANGED <<role, accountKeys>>
        PROVE  user' \in [Users -> UserRow] /\ AssignedExists' /\ OneUserPerSubject'
    <2>1. user' \in [Users -> UserRow] /\ user'[u] = row /\ \A v \in Users \ {u} : user'[v] = user[v]
      BY <1>0, <1>1, Zenon
    <2>2. "none" \notin Roles
      BY AccountsAssumption, Zenon DEF Roles
    <2>3. AssignedExists'
      BY <1>0, <1>1, <2>1, <2>2, Zenon DEF AssignedExists, Assigned
    <2>4. OneUserPerSubject'
      BY <1>0, <1>1, <2>1, Zenon DEF OneUserPerSubject
    <2> QED BY <2>1, <2>3, <2>4, Zenon
  <1>2. ASSUME user' \in [Users -> UserRow], AssignedExists', OneUserPerSubject',
               UNCHANGED <<role, spent, accountKeys, req, raced>>
        PROVE  AccountInv'
    <2>1. \A q \in Requests : AccountRequestInv(q)'
      BY <1>0, <1>2, Zenon DEF AccountRequestInv
    <2>2. KeyInv'
      BY <1>0, <1>2, KeysKeep, Zenon DEF Creating
    <2> QED BY <1>2, <2>1, <2>2, Zenon DEF AccountInv
  <1>3. ASSUME NEW u \in Users, NEW r \in Roles, Invite(u, r) PROVE AccountInv'
    <2> DEFINE row == [NoUser EXCEPT !.invited = TRUE, !.role = r]
    <2>1. role[r] # NoRole /\ user' = [user EXCEPT ![u] = row] /\ UNCHANGED <<role, spent, accountKeys, req, raced>>
      BY <1>3, Zenon DEF Invite
    <2>2. row \in UserRow /\ row.role = r /\ row.subject = "none"
      BY Zenon DEF NoUser, UserRow
    <2> HIDE DEF row
    <2>3. user' \in [Users -> UserRow] /\ AssignedExists' /\ OneUserPerSubject'
      BY <1>1, <2>1, <2>2, Zenon
    <2> QED BY <1>2, <2>1, <2>3, Zenon
  <1>4. ASSUME NEW u \in Users, NEW s \in Subjects \cup {"none"}, SetUserSSOSubject(u, s) PROVE AccountInv'
    <2> DEFINE row == [user[u] EXCEPT !.subject = s]
    <2>1. /\ s = "none" \/ \A v \in Users \ {u} : user[v].subject # s
          /\ user' = [user EXCEPT ![u] = row] /\ UNCHANGED <<role, spent, accountKeys, req, raced>>
      BY <1>4, Zenon DEF SetUserSSOSubject
    <2>2. row \in UserRow /\ row.role = user[u].role /\ row.subject = s
      BY <1>0, Zenon DEF UserRow
    <2> HIDE DEF row
    <2>3. user' \in [Users -> UserRow] /\ AssignedExists' /\ OneUserPerSubject'
      BY <1>1, <2>1, <2>2, Zenon
    <2> QED BY <1>2, <2>1, <2>3, Zenon
  <1>5. ASSUME NEW u \in Users, NEW x \in Roles \cup {"none"}, user' = [user EXCEPT ![u].role = x],
               x = "none" \/ (x \in Roles /\ role[x] # NoRole), UNCHANGED <<role, accountKeys>>
        PROVE  user' \in [Users -> UserRow] /\ AssignedExists' /\ OneUserPerSubject'
    <2> DEFINE row == [user[u] EXCEPT !.role = x]
    <2>1. user' = [user EXCEPT ![u] = row]
      BY <1>5, Zenon
    <2>2. row \in UserRow /\ row.role = x /\ row.subject = user[u].subject
      BY <1>0, Zenon DEF UserRow
    <2>3. row.subject = "none" \/ \A v \in Users \ {u} : user[v].subject # row.subject
      BY <1>0, <2>2, Zenon DEF OneUserPerSubject
    <2> HIDE DEF row
    <2> QED BY <1>1, <1>5, <2>1, <2>2, <2>3, Zenon
  <1>6. ASSUME NEW u \in Users, DeactivateUser(u) PROVE AccountInv'
    BY <1>2, <1>5, <1>6, Zenon DEF DeactivateUser
  <1>7. ASSUME NEW q \in Requests, UpdateUserRole(q) PROVE AccountInv'
    <2>1. /\ req[q].pc = "assign" /\ req' = [req EXCEPT ![q] = Idle] /\ UNCHANGED <<role, spent, accountKeys, raced>>
          /\ user' = IF user[req[q].user].invited /\ role[req[q].id] # NoRole
                     THEN [user EXCEPT ![req[q].user].role = req[q].id] ELSE user
      BY <1>7, Zenon DEF UpdateUserRole
    <2>2. req[q].user \in Users /\ req[q].id \in Roles
      BY <1>0, <2>1, Zenon DEF AccountRequestInv
    <2>3. user' \in [Users -> UserRow] /\ AssignedExists' /\ OneUserPerSubject'
      <3>1. CASE user[req[q].user].invited /\ role[req[q].id] # NoRole
        BY <1>5, <2>1, <2>2, <3>1, Zenon
      <3>2. CASE ~(user[req[q].user].invited /\ role[req[q].id] # NoRole)
        <4>1. user' = user
          BY <2>1, <3>2, Zenon
        <4> QED BY <1>0, <2>1, <4>1, Zenon DEF AssignedExists, Assigned, OneUserPerSubject
      <3> QED BY <3>1, <3>2, Zenon
    <2>4. req' \in [Requests -> AccountRequest] /\ req'[q] = Idle /\ \A p \in Requests \ {q} : req'[p] = req[p]
      BY <1>0, <2>1, AccountRecords, Zenon
    <2>5. ASSUME NEW p \in Requests PROVE AccountRequestInv(p)' /\ (Creating(p)' => Creating(p))
      <3>1. CASE p = q
        BY <2>4, <3>1, AccountRecords, Zenon DEF AccountRequestInv, Creating
      <3>2. CASE p # q
        BY <1>0, <2>1, <2>4, <3>2, Zenon DEF AccountRequestInv, Creating
      <3> QED BY <3>1, <3>2, Zenon
    <2>6. KeyInv'
      BY <1>0, <2>1, <2>5, KeysKeep, Zenon
    <2> QED BY <2>1, <2>3, <2>4, <2>5, <2>6, Zenon DEF AccountInv
  <1> QED BY <1>3, <1>4, <1>6, <1>7, Zenon

\* The writes of keys: a creation that nobody raced has counted the keys there
\* are.
LEMMA KeyWritesKeep ==
  ASSUME AccountInv,
         \/ \E q \in Requests, k \in Keys : CreateAPIKey(q, k)
         \/ \E k \in Keys : DeleteAPIKey(k)
  PROVE  AccountInv'
  <1>0. accountKeys \in [Keys -> Roles \cup {"none"}] /\ req \in [Requests -> AccountRequest] /\ AssignedExists
        /\ OneUserPerSubject /\ KeyInv /\ \A q \in Requests : AccountRequestInv(q)
    BY Zenon DEF AccountInv
  <1>1. ASSUME NEW k \in Keys, NEW x \in Roles \cup {"none"}, accountKeys' = [accountKeys EXCEPT ![k] = x],
               x = "none" \/ role[x] # NoRole, UNCHANGED <<role, user>>
        PROVE  accountKeys' \in [Keys -> Roles \cup {"none"}] /\ AssignedExists' /\ OneUserPerSubject'
    <2>1. accountKeys' \in [Keys -> Roles \cup {"none"}] /\ accountKeys'[k] = x
          /\ \A j \in Keys \ {k} : accountKeys'[j] = accountKeys[j]
      BY <1>0, <1>1, Zenon
    <2>2. "none" \notin Roles
      BY AccountsAssumption, Zenon DEF Roles
    <2> QED BY <1>0, <1>1, <2>1, <2>2, Zenon DEF AssignedExists, Assigned, OneUserPerSubject
  <1>2. ASSUME NEW k \in Keys, DeleteAPIKey(k) PROVE AccountInv'
    <2>1. accountKeys' = [accountKeys EXCEPT ![k] = "none"] /\ UNCHANGED <<role, spent, user, req, raced>>
      BY <1>2, Zenon DEF DeleteAPIKey
    <2>2. accountKeys' \in [Keys -> Roles \cup {"none"}] /\ AssignedExists' /\ OneUserPerSubject'
      BY <1>1, <2>1, Zenon
    <2>3. KeyInv'
      <3>1. Cardinality(Live) \in Nat /\ Cardinality(Live') \in Nat /\ Cardinality(Live') <= Cardinality(Live)
        BY <1>0, <2>1, LiveCount, Zenon
      <3>2. \A a, b, c \in Nat : (a <= b /\ b <= c => a <= c) /\ (a <= b /\ b + 1 <= c => a + 1 <= c)
        OBVIOUS
      <3>3. MaxAPIKeys \in Nat
        BY AccountsAssumption, Zenon
      <3> QED BY <1>0, <2>1, <3>1, <3>2, <3>3, Zenon DEF KeyInv, Creating
    <2>4. \A q \in Requests : AccountRequestInv(q)'
      BY <1>0, <2>1, Zenon DEF AccountRequestInv
    <2> QED BY <2>1, <2>2, <2>3, <2>4, Zenon DEF AccountInv
  <1>3. ASSUME NEW q \in Requests, NEW k \in Keys, CreateAPIKey(q, k) PROVE AccountInv'
    <2>1. /\ req[q].pc = "key" /\ req' = [req EXCEPT ![q] = Idle] /\ UNCHANGED <<role, spent, user, raced>>
          /\ accountKeys' = IF role[req[q].id] = NoRole THEN accountKeys ELSE [accountKeys EXCEPT ![k] = req[q].id]
      BY <1>3, Zenon DEF CreateAPIKey
    <2>2. req[q].id \in Roles /\ Creating(q)
      BY <1>0, <2>1, Zenon DEF AccountRequestInv, Creating
    <2>3. req' \in [Requests -> AccountRequest] /\ req'[q] = Idle /\ \A p \in Requests \ {q} : req'[p] = req[p]
      BY <1>0, <2>1, AccountRecords, Zenon
    <2>4. ASSUME NEW p \in Requests PROVE AccountRequestInv(p)' /\ (Creating(p)' => Creating(p) /\ p # q)
      <3>1. CASE p = q
        BY <2>3, <3>1, AccountRecords, Zenon DEF AccountRequestInv, Creating
      <3>2. CASE p # q
        BY <1>0, <2>1, <2>3, <3>2, Zenon DEF AccountRequestInv, Creating
      <3> QED BY <3>1, <3>2, Zenon
    <2>5. CASE role[req[q].id] = NoRole
      <3>1. accountKeys' = accountKeys
        BY <2>1, <2>5, Zenon
      <3>2. KeyInv'
        BY <1>0, <2>1, <2>4, <3>1, KeysKeep, Zenon
      <3>3. AssignedExists' /\ OneUserPerSubject'
        BY <1>0, <2>1, <3>1, Zenon DEF AssignedExists, Assigned, OneUserPerSubject
      <3> QED BY <2>1, <2>3, <2>4, <3>1, <3>2, <3>3, Zenon DEF AccountInv
    <2>6. CASE role[req[q].id] # NoRole
      <3>1. accountKeys' = [accountKeys EXCEPT ![k] = req[q].id]
        BY <2>1, <2>6, Zenon
      <3>2. accountKeys' \in [Keys -> Roles \cup {"none"}] /\ AssignedExists' /\ OneUserPerSubject'
        BY <1>1, <2>1, <2>2, <2>6, <3>1, Zenon
      <3>3. KeyInv'
        <4>1. Cardinality(Live) \in Nat /\ Cardinality(Live') \in Nat /\ Cardinality(Live') <= Cardinality(Live) + 1
          BY <1>0, <2>2, <3>1, LiveCount, Zenon
        <4>2. ASSUME ~raced' PROVE Cardinality(Live) + 1 <= MaxAPIKeys /\ \A p \in Requests : ~Creating(p)'
          BY <1>0, <2>1, <2>2, <2>4, <4>2, Zenon DEF KeyInv
        <4>3. MaxAPIKeys \in Nat
          BY AccountsAssumption, Zenon
        <4>4. ~raced' => Cardinality(Live') <= MaxAPIKeys
          BY <4>1, <4>2, <4>3
        <4> QED BY <4>2, <4>4, Zenon DEF KeyInv
      <3> QED BY <2>1, <2>3, <2>4, <3>2, <3>3, Zenon DEF AccountInv
    <2> QED BY <2>5, <2>6, Zenon
  <1> QED BY <1>2, <1>3, Zenon

\* The inductive invariant of roles, users and keys, for any of them and any
\* requests.
THEOREM AccountsInvariant == AccountSpec => []AccountInv
  <1>1. AccountInit => AccountInv
    <2> SUFFICES ASSUME AccountInit PROVE AccountInv
      BY Zenon
    <2>1. /\ role \in [Roles -> FullRow \cup {NoRole}] /\ user \in [Users -> UserRow]
          /\ accountKeys \in [Keys -> Roles \cup {"none"}] /\ req \in [Requests -> AccountRequest]
          /\ \A q \in Requests : req[q] = Idle
          /\ \A u \in Users : user[u] = NoUser
          /\ \A k \in Keys : accountKeys[k] = "none"
      BY AccountRecords, Zenon DEF AccountInit
    <2>2. \A q \in Requests : AccountRequestInv(q) /\ ~Creating(q)
      BY <2>1, AccountRecords, Zenon DEF AccountRequestInv, Creating
    <2>3. "none" \notin Roles
      BY AccountsAssumption, Zenon DEF Roles
    <2>4. NoUser.role = "none" /\ NoUser.subject = "none"
      BY Zenon DEF NoUser
    <2>5. AssignedExists /\ OneUserPerSubject
      BY <2>1, <2>3, <2>4, Zenon DEF AssignedExists, Assigned, OneUserPerSubject
    <2>6. KeyInv
      <3>1. Live = {}
        BY <2>1, Zenon DEF Live
      <3>2. Cardinality(Live) = 0
        BY <3>1, FS_EmptySet, Zenon
      <3>3. 0 <= MaxAPIKeys
        BY AccountsAssumption
      <3> QED BY <2>2, <3>2, <3>3, Zenon DEF KeyInv
    <2>7. \A r \in Custom : role[r] # NoRole => r \in spent
      <3>1. ASSUME NEW r \in Custom, role[r] # NoRole PROVE r \in System
        BY <3>1, Zenon DEF AccountInit, Roles
      <3> QED BY <3>1, AccountsAssumption, Zenon
    <2> QED BY <2>1, <2>2, <2>5, <2>6, <2>7, Zenon DEF AccountInv
  <1>2. AccountInv /\ [AccountNext]_accountVars => AccountInv'
    <2> SUFFICES ASSUME AccountInv, [AccountNext]_accountVars PROVE AccountInv'
      BY Zenon
    <2>1. CASE UNCHANGED accountVars
      BY <2>1, Zenon DEF accountVars, AccountInv, AccountRequestInv, KeyInv, Creating, Live, AssignedExists, Assigned,
         OneUserPerSubject
    <2> QED
      BY <2>1, ReadsKeep, CountKeeps, RolesKeep, UsersKeep, KeyWritesKeep, Zenon DEF AccountNext
  <1> QED BY <1>1, <1>2, PTL DEF AccountSpec

\* Roles in use exist, a subject is one user, keys stay within the ceiling unless
\* creations overlap, and a patch leaves what it does not name (roles.go,
\* users.go, apikeys.go), for any of them and any requests.
THEOREM AccountsHold == AccountSpec => AccountsSound
  <1>1. AccountInv => AssignedExists /\ OneUserPerSubject /\ KeysWithinQuotaUnlessRaced
    BY Zenon DEF AccountInv, KeyInv, KeysWithinQuotaUnlessRaced
  <1>2. AccountInv /\ [AccountNext]_accountVars =>
          [\A q \in Requests, r \in Custom :
             (req[q].pc = "update" /\ req[q].id = r /\ ~req[q].stale /\ role'[r] # role[r] /\ role'[r] # NoRole
                /\ req'[q] = Idle)
             => role'[r] = Over(req[q].patch, role[r])]_accountVars
    <2> SUFFICES ASSUME AccountInv, AccountNext, NEW q \in Requests, NEW r \in Custom,
                        req[q].pc = "update", req[q].id = r, ~req[q].stale, role'[r] # role[r], req'[q] = Idle
                 PROVE  role'[r] = Over(req[q].patch, role[r])
      BY Zenon
    <2>0. req \in [Requests -> AccountRequest] /\ role \in [Roles -> FullRow \cup {NoRole}] /\ r \in Roles
          /\ AccountRequestInv(q) /\ Idle.pc = "idle"
      BY AccountRecords, Zenon DEF AccountInv, Roles
    <2>1. req'[q].pc # req[q].pc
      BY <2>0, Zenon
    <2>2. (\E p \in Requests : UpdateRole(p) \/ DeleteRole(p)) \/ UNCHANGED req \/ UNCHANGED role
      BY Zenon DEF AccountNext, CreateRole, ReadRole, CountAssigned, Invite, LookUpRole, UpdateUserRole,
         SetUserSSOSubject, DeactivateUser, CheckAPIKeys, GetRole, CreateAPIKey, DeleteAPIKey
    <2>3. PICK p \in Requests : UpdateRole(p) \/ DeleteRole(p)
      BY <2>1, <2>2, Zenon
    <2>4. p = q
      <3>1. CASE DeleteRole(p)
        BY <2>0, <2>1, <3>1, Zenon DEF DeleteRole
      <3>2. CASE UpdateRole(p) /\ p # q
        <4>1. req'[q] = req[q] \/ req'[q] = [req[q] EXCEPT !.stale = TRUE]
          BY <3>2, Zenon DEF UpdateRole, Stales
        <4>2. [req[q] EXCEPT !.stale = TRUE].pc = req[q].pc
          BY <2>0, Zenon DEF AccountRequest
        <4> QED BY <2>1, <4>1, <4>2, Zenon
      <3> QED BY <2>3, <3>1, <3>2, Zenon
    <2>5. UpdateRole(q)
      BY <2>3, <2>4, Zenon DEF DeleteRole
    <2>6. role[r] # NoRole /\ role' = [role EXCEPT ![r] = Over(req[q].patch, req[q].read)]
      BY <2>5, Zenon DEF UpdateRole
    <2>7. req[q].read = role[r]
      BY <2>0, <2>6, Zenon DEF AccountRequestInv
    <2> QED BY <2>0, <2>6, <2>7, Zenon
  <1> QED
    BY <1>1, <1>2, AccountsInvariant, PTL
    DEF AccountSpec, AccountsSound, PatchKeepsTheRestUnlessOverlap

=============================================================================
