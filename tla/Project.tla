------------------------------- MODULE Project ------------------------------
(***************************************************************************)
(* The Project controller: the gate on the database and on Migrations, and *)
(* the two Jobs that bring JWT settings and passwords into the database,   *)
(* with the hashes that decide whether they have to run again.             *)
(*                                                                         *)
(* One Project, its database and its Migration.  The Migration controller  *)
(* (module Migration) and the SingleDatabase controller are reduced to     *)
(* what the Project sees of them.  As in Migration, every call of          *)
(* Reconcile that reads a cache or writes to the API server is an action.  *)
(***************************************************************************)
EXTENDS Naturals, FiniteSets, Ensure

CONSTANTS
  Exps,       \* values of spec.jwtExpSec
  NoExp,      \* no value of it
  MaxPw,      \* bound: passwords the database Secret may have, 1..MaxPw
  Faults,     \* the kinds of edit and disturbance that may happen
  MaxFaults,  \* bound: how many of them may happen, of whatever kind
  MaxStale    \* bound: caches that are behind when a reconciliation starts

ASSUME ProjectAssumption ==
  /\ Exps /= {} /\ NoExp \notin Exps
  /\ MaxPw \in Nat \ {0}
  /\ Faults \subseteq {"rotate", "edit", "toggle", "migration",
                       "flap", "restart", "api", "crash", "evict"}
  /\ MaxFaults \in Nat
  /\ MaxStale \in 0..5

VARIABLES
  \* the API server
  proj,      \* the Project: spec.jwtExpSec, spec.migrations.enable, status
  migration, \* the Migration <project>-migration-1
  pw,        \* the password in the Secret of the database
  job,       \* job[k]: the Job <project>-sync-<k>
  \* the informer caches, and the events on their way to them
  cProj, cMigration, cPw, cJob, cDb, pend,
  \* the controller
  q,         \* the Project is in the work queue
  w,         \* the worker: the reconciliation in progress
  \* the kubelet
  pod,       \* pod[k]: the running container of the Job
  runner,    \* the container of the Migration's Job: the file of the batch it
             \* is about to execute, or the record it is about to make
  \* the database
  db,        \* up: it accepts connections; admin, users: passwords of its
             \* roles; jwt: app.settings.jwt_exp; schema: _supavisor exists;
             \* batch: the last file of the Migration that was executed;
             \* migrated: the hash of the Migration is recorded
  synced,    \* history: the expiries sync Jobs have brought into the database
  \* the environment
  budget     \* how many faults may still happen

api    == <<proj, migration, pw, job>>
caches == <<cProj, cMigration, cPw, cJob, cDb>>
vars   == <<api, caches, pend, q, w, pod, runner, db, synced, budget>>

Kinds     == {"jwt", "password"}
Passwords == 1..MaxPw
NoPw      == 0
Events    == {"project", "migration", "secret"} \cup Kinds

\* Reasons of the Ready condition; "Failed" is one for every call that fails.
Reasons == {"None", "Ready", "DatabaseNotReady", "MigrationsNotReady",
            "JobInProgress", "Failed"}

\* The hashes in the status are identified with what they are computed from:
\* ComputePasswordSyncHash with the password, and ComputeJWTSyncHash with the
\* password and the expiry.
JwtHash(p, e) == [pw |-> p, exp |-> e]
NoJwtHash == JwtHash(NoPw, NoExp)
JwtHashes == {NoJwtHash} \cup [pw : Passwords, exp : Exps]

Status == [jwt : JwtHashes, password : {NoPw} \cup Passwords, cond : Reasons]
NoStatus == [jwt |-> NoJwtHash, password |-> NoPw, cond |-> "None"]
ProjObject == [exp : Exps, enable : BOOLEAN, status : Status]
NoProj == [exp |-> NoExp, enable |-> FALSE, status |-> NoStatus]

\* "unready": the Ready condition of an applied Migration was set to False; the
\* Migration controller never sets it back (see ReasonIsCurrent in Migration).
Migrations == {"absent", "pending", "ready", "unready"}

\* The files of its batch that create what the Project's scripts need; "record",
\* the INSERT of the hash, also stands for webhooks.sql before it.
Files == {"supabase", "pooler"}
Steps == Files \cup {"record"}

\* exp: JWT_EXP in the template of the Job, which cannot be changed.
Job == [phase : {"absent", "active", "complete", "failed"},
        failed : BOOLEAN, exp : Exps \cup {NoExp}]
NewJob(k, e) == [phase |-> "active", failed |-> FALSE,
                 exp |-> IF k = "jwt" THEN e ELSE NoExp]
NoJob == [phase |-> "absent", failed |-> FALSE, exp |-> NoExp]

\* pw: PGPASSWORD, read from the Secret when the container is created.
Pod == [pc : {"none", "connect", "drop", "create"},
        pw : {NoPw} \cup Passwords]
NoPod == [pc |-> "none", pw |-> NoPw]

\* status: the one Reconcile will publish; pw: the password it has read; kind:
\* the Job it deals with; next: what follows the update of the status.
Worker == [pc : {"idle", "migration", "list", "ensure", "get", "status"},
           proj : ProjObject \cup {NoProj}, pw : {NoPw} \cup Passwords, kind : Kinds,
           next : {"return", "again", "continue"}]
Idle == [pc |-> "idle", proj |-> NoProj, pw |-> NoPw, kind |-> "jwt",
         next |-> "return"]

Database == [up : BOOLEAN, admin : Passwords, users : {NoPw} \cup Passwords,
             jwt : {NoExp} \cup Exps, batch : {"none"} \cup Files,
             schema : BOOLEAN, migrated : BOOLEAN]

TypeOK ==
  /\ proj \in ProjObject /\ cProj \in ProjObject
  /\ migration \in Migrations /\ cMigration \in Migrations
  /\ pw \in Passwords /\ cPw \in Passwords
  /\ job \in [Kinds -> Job] /\ cJob \in [Kinds -> Job]
  /\ cDb \in BOOLEAN
  /\ pend \subseteq Events
  /\ q \in BOOLEAN
  /\ w \in Worker
  /\ pod \in [Kinds -> Pod]
  /\ runner \in {"none"} \cup Steps
  /\ db \in Database
  /\ synced \subseteq Exps
  /\ budget \in Nat

\* The operator has listed a Project that was just created.
Init ==
  /\ proj \in {[exp |-> e, enable |-> TRUE, status |-> NoStatus] : e \in Exps}
  /\ cProj = proj
  /\ migration = "absent" /\ cMigration = migration
  /\ pw = 1 /\ cPw = pw
  /\ job = [k \in Kinds |-> NoJob] /\ cJob = job
  /\ cDb = TRUE
  /\ pend = {}
  /\ q = TRUE
  /\ w = Idle
  /\ pod = [k \in Kinds |-> NoPod]
  /\ runner = "none"
  /\ db = [up |-> TRUE, admin |-> pw, users |-> NoPw, jwt |-> NoExp,
           batch |-> "none", schema |-> FALSE, migrated |-> FALSE]
  /\ synced = {}
  /\ budget = MaxFaults

Fault(f) == f \in Faults /\ budget > 0 /\ budget' = budget - 1

\* The API server changed the object of kind e; its watch event is on its way.
Changed(e) == pend' = pend \cup {e}

-----------------------------------------------------------------------------
(***************************************************************************)
(* The user.                                                               *)
(***************************************************************************)

\* The new password may be one that the Secret had before.
RotatePassword ==
  /\ Fault("rotate")
  /\ \E p \in Passwords \ {pw} : pw' = p
  /\ Changed("secret")
  /\ UNCHANGED <<proj, migration, job, caches, q, w, pod, runner, db, synced>>

EditJWTExpSec ==
  /\ Fault("edit")
  /\ \E e \in Exps \ {proj.exp} : proj' = [proj EXCEPT !.exp = e]
  /\ Changed("project")
  /\ UNCHANGED <<migration, pw, job, caches, q, w, pod, runner, db, synced>>

\* Toggle spec.migrations.enable.
ToggleMigrations ==
  /\ Fault("toggle")
  /\ proj' = [proj EXCEPT !.enable = ~@]
  /\ Changed("project")
  /\ UNCHANGED <<migration, pw, job, caches, q, w, pod, runner, db, synced>>

-----------------------------------------------------------------------------
(***************************************************************************)
(* Informers.  SetupWithManager watches everything Reconcile reads, so     *)
(* each event enqueues the Project.                                        *)
(***************************************************************************)

\* Faulty variant: Secrets are not watched.
WakesButSecrets(e) == q' = (q \/ e /= "secret")

\* The event enqueues the Project.
Wakes(e) == q' = TRUE

Deliver(e) ==
  /\ e \in pend
  /\ pend' = pend \ {e}
  /\ Wakes(e)
  /\ cProj' = IF e = "project" THEN proj ELSE cProj
  /\ cMigration' = IF e = "migration" THEN migration ELSE cMigration
  /\ cPw' = IF e = "secret" THEN pw ELSE cPw
  /\ cJob' = [k \in Kinds |-> IF e = k THEN job[k] ELSE cJob[k]]
  /\ UNCHANGED <<api, cDb, w, pod, runner, db, synced, budget>>

DeliverDatabase ==
  /\ cDb /= db.up
  /\ cDb' = db.up
  /\ q' = TRUE
  /\ UNCHANGED <<api, cProj, cMigration, cPw, cJob, pend, w, pod, runner, db, synced, budget>>

RestartOperator ==
  /\ Fault("restart")
  /\ cProj' = proj /\ cMigration' = migration /\ cPw' = pw /\ cJob' = job
  /\ cDb' = db.up
  /\ pend' = {}
  /\ q' = TRUE
  /\ w' = Idle
  /\ UNCHANGED <<api, pod, runner, db, synced>>

-----------------------------------------------------------------------------
(***************************************************************************)
(* Reconcile.                                                              *)
(***************************************************************************)

\* A call to the API server returns an error, for the reason given or because
\* the request itself fails.
Errs(reason) == IF reason THEN UNCHANGED budget ELSE Fault("api")

\* SetNotReady and the way to UpdateStatus; every such path of Reconcile ends
\* with an error or a RequeueAfter.
NotReady(wk, reason) ==
  [wk EXCEPT !.pc = "status", !.proj.status.cond = reason, !.next = "again"]

\* Get of the Project and database.ResolveRef, both from the cache.
Reconcile ==
  /\ w.pc = "idle" /\ q
  /\ Cardinality(pend) <= MaxStale
  /\ q' = FALSE
  /\ LET start == [Idle EXCEPT !.pc = "migration", !.proj = cProj]
     IN  w' = IF cDb THEN start ELSE NotReady(start, "DatabaseNotReady")
  /\ UNCHANGED <<api, caches, pend, pod, runner, db, synced, budget>>

Exists(there) == IF there THEN 1 ELSE Absent

\* ensureMigration1: create the Migration, or delete it by name if Migrations
\* are disabled.
EnsureMigration ==
  /\ w.pc = "migration"
  /\ LET seen    == Exists(cMigration /= "absent")
         there   == Exists(migration /= "absent")
         fails   == w.proj.enable
                    /\ EnsureFails(seen, there, 1, FALSE, "migration" \in pend)
         changed == IF w.proj.enable THEN EnsureCreates(seen, there)
                                     ELSE there /= Absent
     IN  \/ /\ Errs(fails)
            /\ w' = NotReady(w, "Failed")
            /\ UNCHANGED <<migration, pend>>
         \/ /\ ~fails
            /\ IF changed
               THEN /\ migration' = IF w.proj.enable THEN "pending" ELSE "absent"
                    /\ Changed("migration")
               ELSE UNCHANGED <<migration, pend>>
            /\ w' = [w EXCEPT !.pc = "list"]
            /\ UNCHANGED budget
  /\ UNCHANGED <<proj, pw, job, caches, q, pod, runner, db, synced>>

\* What Reconcile turns to, given the hashes in the status it has read or set.
NextSync(wk) ==
  LET s == wk.proj.status
  IN  IF s.jwt /= JwtHash(wk.pw, wk.proj.exp)
      THEN [wk EXCEPT !.pc = "ensure", !.kind = "jwt"]
      ELSE IF s.password /= wk.pw
      THEN [wk EXCEPT !.pc = "ensure", !.kind = "password"]
      ELSE [wk EXCEPT !.pc = "status", !.proj.status.cond = "Ready", !.next = "return"]

\* migrationsReady: no Migration that the cache lists for this database, the
\* Project's own being the one modelled, is short of Ready.
MigrationsReady == cMigration \in {"absent", "ready"}

\* migrationsReady, then ensureJWTSecret and ensureKeysSecret, of which only a
\* failure matters here, then getDBPasswordValue.
ReadConfiguration ==
  /\ w.pc = "list"
  /\ \/ /\ ~MigrationsReady
        /\ w' = NotReady(w, "MigrationsNotReady")
        /\ UNCHANGED budget
     \/ /\ MigrationsReady
        /\ Fault("api")
        /\ w' = NotReady(w, "Failed")
     \/ /\ MigrationsReady
        /\ w' = NextSync([w EXCEPT !.pw = cPw])
        /\ UNCHANGED budget
  /\ UNCHANGED <<api, caches, pend, q, pod, runner, db, synced>>

\* ensureSyncJWTJob, ensureSyncPasswordJob.  The Update that is sent for an
\* existing Job is rejected if it changes the template.
EnsureSyncJob ==
  /\ w.pc = "ensure"
  /\ LET k     == w.kind
         new   == NewJob(k, w.proj.exp)
         seen  == Exists(cJob[k].phase /= "absent")
         there == Exists(job[k].phase /= "absent")
         fails == \/ EnsureFails(seen, there, 1, TRUE, k \in pend)
                  \/ seen = 1 /\ cJob[k].exp /= new.exp
     IN  \/ /\ Errs(fails)
            /\ w' = NotReady(w, "Failed")
            /\ UNCHANGED <<job, pend>>
         \/ /\ ~fails
            /\ IF EnsureCreates(seen, there)
               THEN job' = [job EXCEPT ![k] = new] /\ Changed(k)
               ELSE UNCHANGED <<job, pend>>
            /\ w' = [w EXCEPT !.pc = "get"]
            /\ UNCHANGED budget
  /\ UNCHANGED <<proj, migration, pw, caches, q, pod, runner, db, synced>>

\* Faulty variant: the hash is computed before the password is read.
SyncedTooEarly(wk) ==
  [wk EXCEPT !.proj.status.jwt = JwtHash(NoPw, wk.proj.exp),
             !.pc = "status", !.next = "continue"]

\* The hash of the configuration is set in the status of the object read.
Synced(wk) ==
  LET hashed == IF wk.kind = "jwt"
                THEN [wk EXCEPT !.proj.status.jwt = JwtHash(wk.pw, wk.proj.exp)]
                ELSE [wk EXCEPT !.proj.status.password = wk.pw]
  IN  [hashed EXCEPT !.pc = "status", !.next = "continue"]

\* The end of a reconciliation; asks for another one if `again`.
Return(again) ==
  /\ w' = Idle
  /\ q' = (q \/ again)

\* Faulty variant: the check of status.succeeded is missing.
NotYetFailed(j) == j.phase /= "absent"

HasSucceeded(j) == j.phase = "complete"

\* Get of the Job, from the cache, and the verdict on it.  A Job that is not
\* found is an error, without an update of the status.
JudgeSyncJob ==
  /\ w.pc = "get"
  /\ LET j == cJob[w.kind]
     IN  IF j.phase = "absent" THEN Return(TRUE)
         ELSE /\ w' = IF j.failed THEN NotReady(w, "Failed")
                      ELSE IF ~HasSucceeded(j) THEN NotReady(w, "JobInProgress")
                      ELSE Synced(w)
              /\ UNCHANGED q
  /\ UNCHANGED <<api, caches, pend, pod, runner, db, synced, budget>>

\* What Reconcile does after an update of the status without error.
Proceed ==
  IF w.next = "continue" THEN w' = NextSync(w) /\ UNCHANGED q
  ELSE Return(w.next = "again")

\* UpdateStatus, see Migration; Reconcile returns the errors of the updates it
\* makes for a hash and for Ready, and asks for another reconciliation anyhow
\* after the others.
UpdateStatus ==
  /\ w.pc = "status"
  /\ LET skips == cProj.status = w.proj.status
         conflict == "project" \in pend
     IN  \/ /\ ~skips
            /\ Errs(conflict)
            /\ Return(TRUE)
            /\ UNCHANGED <<proj, pend>>
         \/ /\ skips
            /\ Proceed
            /\ UNCHANGED <<proj, pend, budget>>
         \/ /\ ~skips /\ ~conflict
            /\ proj' = [proj EXCEPT !.status = w.proj.status]
            /\ Changed("project")
            /\ Proceed
            /\ UNCHANGED budget
  /\ UNCHANGED <<migration, pw, job, caches, pod, runner, db, synced>>

-----------------------------------------------------------------------------
(***************************************************************************)
(* The Job controller, the kubelet, and the scripts project-sync-jwt.sh    *)
(* and project-sync-password.sh.                                           *)
(***************************************************************************)

PodStart(k) ==
  /\ job[k].phase = "active" /\ pod[k].pc = "none"
  /\ pod' = [pod EXCEPT ![k] = [pc |-> "connect", pw |-> pw]]
  /\ UNCHANGED <<api, caches, pend, q, w, runner, db, synced, budget>>

\* An attempt of the Job failed: it is made again in a new container, or the
\* backoffLimit is reached, the attempts not being counted here.  An evicted
\* Pod counts in status.failed, a container restarted in its Pod does not.
Attempt(k, evicted) ==
  /\ pod' = [pod EXCEPT ![k] = NoPod]
  /\ \/ /\ job' = [job EXCEPT ![k].phase = "failed", ![k].failed = TRUE]
        /\ Changed(k)
     \/ /\ evicted
        /\ job' = [job EXCEPT ![k].failed = TRUE]
        /\ Changed(k)
     \/ /\ ~evicted
        /\ UNCHANGED <<job, pend>>

ScriptFails(k) == Attempt(k, FALSE) /\ UNCHANGED <<db, synced>>

\* psql connects as the administrator with PGPASSWORD, once pg_isready.
LoggedIn(k) == pod[k].pw = db.admin

\* The script ends without error, and the Job with it.
ScriptSucceeds(k) ==
  /\ pod' = [pod EXCEPT ![k] = NoPod]
  /\ job' = [job EXCEPT ![k].phase = "complete"]
  /\ Changed(k)

\* ALTER DATABASE ... SET "app.settings.jwt_exp", a single statement.
SyncJwt ==
  /\ pod["jwt"].pc = "connect" /\ db.up
  /\ IF ~LoggedIn("jwt") THEN ScriptFails("jwt")
     ELSE /\ db' = [db EXCEPT !.jwt = job["jwt"].exp]
          /\ synced' = synced \cup {job["jwt"].exp}
          /\ ScriptSucceeds("jwt")

\* psql connects to the database _supabase, then come the ALTER USER
\* statements, those of the administrators included.
AlterUsers ==
  /\ pod["password"].pc = "connect" /\ db.up
  /\ LET p == pod["password"].pw
     IN  IF ~LoggedIn("password") \/ db.batch = "none" THEN ScriptFails("password")
         ELSE /\ db' = [db EXCEPT !.users = p, !.admin = p]
              /\ pod' = [pod EXCEPT !["password"].pc = "drop"]
              /\ UNCHANGED <<job, pend, synced>>

\* Faulty variant: DROP SCHEMA IF EXISTS.
DropIfExists ==
  /\ pod["password"].pc = "drop" /\ db.up
  /\ db' = [db EXCEPT !.schema = FALSE]
  /\ pod' = [pod EXCEPT !["password"].pc = "create"]
  /\ UNCHANGED <<job, pend, synced>>

\* DROP SCHEMA _supavisor CASCADE, without IF EXISTS.
DropSchema ==
  /\ pod["password"].pc = "drop"
  /\ IF ~db.up \/ ~db.schema THEN ScriptFails("password")
     ELSE /\ db' = [db EXCEPT !.schema = FALSE]
          /\ pod' = [pod EXCEPT !["password"].pc = "create"]
          /\ UNCHANGED <<job, pend, synced>>

\* CREATE SCHEMA _supavisor, its owner and the update of _analytics.
CreateSchema ==
  /\ pod["password"].pc = "create"
  /\ IF ~db.up THEN ScriptFails("password")
     ELSE /\ db' = [db EXCEPT !.schema = TRUE]
          /\ ScriptSucceeds("password")
          /\ UNCHANGED synced

Script(k) ==
  /\ IF k = "jwt" THEN SyncJwt ELSE AlterUsers \/ DropSchema \/ CreateSchema
  /\ UNCHANGED <<proj, migration, pw, caches, q, w, runner, budget>>

Running(k) == pod[k].pc /= "none"

\* The container is killed between two statements.
Crash(k) ==
  /\ Running(k) /\ Fault("crash")
  /\ ScriptFails(k)
  /\ UNCHANGED <<proj, migration, pw, caches, q, w, runner>>

\* The Pod is lost (eviction, node failure).
Evict(k) ==
  /\ Running(k) /\ Fault("evict")
  /\ Attempt(k, TRUE)
  /\ UNCHANGED <<proj, migration, pw, caches, q, w, runner, db, synced>>

\* Faulty variant: the Job has no ttlSecondsAfterFinished.
JobStays(k) == FALSE /\ UNCHANGED vars

\* ttlSecondsAfterFinished has passed.
JobExpires(k) ==
  /\ job[k].phase \in {"complete", "failed"}
  /\ job' = [job EXCEPT ![k] = NoJob]
  /\ Changed(k)
  /\ UNCHANGED <<proj, migration, pw, caches, q, w, pod, runner, db, synced, budget>>

-----------------------------------------------------------------------------
(***************************************************************************)
(* The Migration, see module Migration, and its script migration-apply.sh. *)
(***************************************************************************)

\* The Job of a Migration whose hash is not recorded gets to its batch.
RunnerStart ==
  /\ migration = "pending" /\ runner = "none"
  /\ db.up /\ ~db.migrated
  /\ runner' = "supabase"
  /\ UNCHANGED <<api, caches, pend, q, w, pod, db, synced, budget>>

\* psql executes a file of the batch, without a transaction around the files.
\* supabase.sql, CREATE DATABASE _supabase, cannot be executed a second time;
\* pooler.sql creates the schema in that database.
Execute(file, next) ==
  /\ runner = file
  /\ IF ~db.up \/ (file = "supabase" /\ db.batch /= "none")
     THEN runner' = "none" /\ UNCHANGED db
     ELSE /\ runner' = next
          /\ db' = [db EXCEPT !.batch = file, !.schema = @ \/ file = "pooler"]

\* The rest of the batch, and INSERT of the hash by another psql.
RecordHash ==
  /\ runner = "record"
  /\ runner' = "none"
  /\ db' = [db EXCEPT !.migrated = @ \/ db.up]

ApplyBatch ==
  /\ \/ Execute("supabase", "pooler")
     \/ Execute("pooler", "record")
     \/ RecordHash
  /\ UNCHANGED <<api, caches, pend, q, w, pod, synced, budget>>

\* The container is killed, or its Pod is lost.  The Pod of a Migration that
\* was deleted is terminated, sooner or later.
RunnerStops ==
  /\ runner /= "none"
  /\ runner' = "none"
  /\ \/ migration = "absent" /\ UNCHANGED budget
     \/ \E f \in {"crash", "evict"} : Fault(f)
  /\ UNCHANGED <<api, caches, pend, q, w, pod, db, synced>>

\* The Job succeeds, at once if it finds the hash recorded, and the Migration
\* controller takes note of it.
MigrationApplied ==
  /\ migration = "pending" /\ db.migrated
  /\ migration' = "ready"
  /\ Changed("migration")
  /\ UNCHANGED <<proj, pw, job, caches, q, w, pod, runner, db, synced, budget>>

MigrationUnready ==
  /\ migration = "ready" /\ Fault("migration")
  /\ migration' = "unready"
  /\ Changed("migration")
  /\ UNCHANGED <<proj, pw, job, caches, q, w, pod, runner, db, synced>>

-----------------------------------------------------------------------------
(***************************************************************************)
(* The database and its controller: the Pod is replaced when the Secret it *)
(* was started with has changed, and singledatabase-password-sync.sh then  *)
(* sets the administrators' passwords before the server starts.            *)
(***************************************************************************)

RollDatabase ==
  /\ db.up /\ db.admin /= pw
  /\ db' = [db EXCEPT !.up = FALSE]
  /\ UNCHANGED <<api, caches, pend, q, w, pod, runner, synced, budget>>

DatabaseDown ==
  /\ db.up /\ Fault("flap")
  /\ db' = [db EXCEPT !.up = FALSE]
  /\ UNCHANGED <<api, caches, pend, q, w, pod, runner, synced>>

\* A server that stops ends the sessions of psql, and the scripts notice before
\* the server is back.
DatabaseUp ==
  /\ ~db.up
  /\ pod["password"].pc \notin {"drop", "create"}
  /\ runner /= "pooler"
  /\ db' = [db EXCEPT !.up = TRUE, !.admin = pw]
  /\ UNCHANGED <<api, caches, pend, q, w, pod, runner, synced, budget>>

-----------------------------------------------------------------------------
Controller ==
  \/ Reconcile \/ EnsureMigration \/ ReadConfiguration
  \/ EnsureSyncJob \/ JudgeSyncJob \/ UpdateStatus

Cluster ==
  \/ \E e \in Events : Deliver(e)
  \/ DeliverDatabase
  \/ \E k \in Kinds : PodStart(k) \/ Script(k) \/ JobExpires(k)
  \/ RunnerStart \/ ApplyBatch \/ MigrationApplied
  \/ RollDatabase \/ DatabaseUp

Environment ==
  \/ RotatePassword \/ EditJWTExpSec \/ ToggleMigrations
  \/ RestartOperator \/ RunnerStops \/ MigrationUnready \/ DatabaseDown
  \/ \E k \in Kinds : Crash(k) \/ Evict(k)

Next == Controller \/ Cluster \/ Environment

Spec == Init /\ [][Next]_vars

\* The worker serves a queued Project, informers deliver every event, Pods run,
\* the Migration and SingleDatabase controllers act.  Edits and faults are free
\* not to happen.
Fairness ==
  /\ WF_vars(Controller)
  /\ \A e \in Events : WF_vars(Deliver(e))
  /\ WF_vars(DeliverDatabase)
  /\ \A k \in Kinds : WF_vars(PodStart(k) \/ Script(k) \/ JobExpires(k))
  /\ WF_vars(RunnerStart \/ ApplyBatch) /\ WF_vars(MigrationApplied)
  /\ WF_vars(RollDatabase \/ DatabaseUp)

FairSpec == Spec /\ Fairness
-----------------------------------------------------------------------------
(***************************************************************************)
(* Properties.                                                             *)
(***************************************************************************)

\* JWTSyncHash never claims an expiry that no sync Job has brought into the
\* database.  The claim goes through the template of a Job that an edit cannot
\* change, Jobs that expire, the Job cache and copies of whole statuses.
JwtHashSound == proj.status.jwt.exp \in synced \cup {NoExp}

\* No Project is Ready on a database where the batch of its Migration has not got
\* past pooler.sql and whose roles never got the password.  The gate of
\* migrationsReady does not see to it: its list may lack the Migration just
\* created, and Migrations may be disabled while a batch runs.  What does is that
\* sync-password needs the database and the schema that these files create.
ReadyIsPrepared ==
  proj.status.cond = "Ready" => db.batch = "pooler" /\ db.users /= NoPw

\* The controller never forgets the Project: one that is not Ready, or whose
\* hashes are not those of its present configuration, is queued, being
\* reconciled, or has an event on its way that enqueues it.
InSync ==
  /\ proj.status.cond = "Ready"
  /\ proj.status.jwt = JwtHash(pw, proj.exp)
  /\ proj.status.password = pw

NoLostWakeup == InSync \/ q \/ w.pc /= "idle" \/ pend /= {}

\* A successful Job for the present configuration expires before its hash is
\* known to the controller: its cache, or the reconciliation in progress, does
\* not have it yet.
Lacks(status, k) == IF k = "jwt" THEN status.jwt /= JwtHash(pw, proj.exp)
                                 ELSE status.password /= pw
ExpiresUnseen(k) ==
  /\ job[k].phase = "complete" /\ ~job[k].failed
  /\ job'[k] = NoJob
  /\ k = "jwt" => job[k].exp = proj.exp
  /\ Lacks(cProj.status, k) \/ (w.pc /= "idle" /\ Lacks(w.proj.status, k))

\* A reconciliation starts from a status that was overwritten meanwhile.
StartsStale == w.pc = "idle" /\ w'.pc /= "idle" /\ "project" \in pend

\* From some time on the TTL of 30 seconds is longer than the delivery of the
\* events and a reconciliation, and the controller's own updates reach its
\* cache before the next reconciliation.
PromptController ==
  <>[][~StartsStale /\ \A k \in Kinds : ~ExpiresUnseen(k)]_vars

\* A batch that was interrupted between its first file and the record of its
\* hash: it cannot be executed again.
Interrupted == runner = "none" /\ db.batch /= "none" /\ ~db.migrated

\* From some time on the Migration, if there is one, is neither unready nor in
\* front of an interrupted batch.
MigrationCompletes ==
  <>[](migration /= "unready" /\ (Interrupted => migration = "absent"))

\* After the last edit and fault, the Project becomes Ready for its present
\* configuration and stays so: Jobs of an earlier configuration, which reject
\* the new one, expire, and Jobs that met the old password are repeated.  Not
\* if the Migration cannot complete or the schema is lost for good.
EventuallyInSync ==
  PromptController /\ MigrationCompletes /\ []<>db.schema => <>[]InSync
-----------------------------------------------------------------------------
(***************************************************************************)
(* What comments of the code say of it, and the code does not do.          *)
(***************************************************************************)

\* "PasswordSyncHash is the hash of the password configuration last
\* successfully applied by the sync job".
PasswordHashIsApplied ==
  [][proj'.status.password \in {proj.status.password, NoPw, db.users}]_vars

\* "JWTSyncHash is the hash of the JWT configuration last successfully applied
\* by the sync job": a Project at rest has the expiry that its database has.
JwtHashIsLast == <>[]InSync => []<>(db.jwt = proj.status.jwt.exp)

\* The operator "waits for migrations before completing project setup": a Project
\* that is Ready has a database to which the Migration was applied.
ReadyIsMigrated == proj.status.cond = "Ready" => db.migrated

\* The hash "is used to decide whether the job needs to run again": once the
\* Migration is applied, a new configuration is applied in the end, however the
\* Job was interrupted.
RunsAgain == PromptController /\ <>[](migration = "ready") => <>[]InSync
=============================================================================
