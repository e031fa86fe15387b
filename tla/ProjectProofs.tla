---------------------------- MODULE ProjectProofs ---------------------------
(***************************************************************************)
(* Proofs about Project, for every set of expiries, number of passwords    *)
(* and bounds on faults and stale caches.                                  *)
(***************************************************************************)
EXTENDS Project, TLAPS

\* What the types leave out: what the worker has read by the time it needs it,
\* that a container runs for an active Job only, and that a Job for the JWT
\* settings has an expiry.
WorkerReady ==
  /\ w.pc /= "idle" => w.proj \in ProjObject
  /\ w.pc \in {"ensure", "get"} \/ w.next = "continue" => w.pw \in Passwords

PodsHaveJobs ==
  /\ \A k \in Kinds : pod[k].pc /= "none" => job[k].phase = "active"
  /\ job["jwt"].phase /= "absent" => job["jwt"].exp \in Exps

TypeInv == TypeOK /\ WorkerReady /\ PodsHaveJobs

-----------------------------------------------------------------------------
(***************************************************************************)
(* The values the actions build are well typed.                            *)
(***************************************************************************)

LEMMA NoStatusType == NoStatus \in Status
BY DEF NoStatus, Status, NoJwtHash, JwtHashes, Reasons

LEMMA NoJobType == NoJob \in Job
BY DEF NoJob, Job

LEMMA IdleType == Idle \in Worker /\ Idle.pc = "idle" /\ Idle.next = "return"
BY DEF Idle, Worker, Kinds

\* A Project keeps its type when its status gets a reason or a hash.
LEMMA ReasonType ==
  ASSUME NEW p \in ProjObject, NEW reason \in Reasons
  PROVE  [p EXCEPT !.status.cond = reason] \in ProjObject
BY DEF ProjObject, Status

LEMMA HashTypes ==
  ASSUME NEW p \in ProjObject, NEW n \in Passwords
  PROVE  /\ [p EXCEPT !.status.jwt = JwtHash(n, p.exp)] \in ProjObject
         /\ [p EXCEPT !.status.password = n] \in ProjObject
<1>1. JwtHash(n, p.exp) \in JwtHashes
  BY DEF JwtHash, JwtHashes, ProjObject
<1> QED
  BY <1>1 DEF ProjObject, Status

\* The worker on its way to an update of the status: a reconciliation that
\* fails, one that has a hash to store, and what it turns to afterwards.
LEMMA NotReadyTypes ==
  ASSUME NEW wk \in Worker, wk.proj \in ProjObject, NEW reason \in Reasons
  PROVE  /\ NotReady(wk, reason) \in Worker
         /\ NotReady(wk, reason).proj \in ProjObject
         /\ NotReady(wk, reason).pc = "status"
         /\ NotReady(wk, reason).next = "again"
<1> DEFINE p == [wk.proj EXCEPT !.status.cond = reason]
<1>1. p \in ProjObject
  BY ReasonType
<1>2. NotReady(wk, reason) = [wk EXCEPT !.pc = "status", !.proj = p, !.next = "again"]
  BY DEF NotReady, Worker
<1> HIDE DEF p
<1> QED
  BY <1>1, <1>2 DEF Worker

LEMMA SyncedTypes ==
  ASSUME NEW wk \in Worker, wk.proj \in ProjObject, wk.pw \in Passwords
  PROVE  /\ Synced(wk) \in Worker
         /\ Synced(wk).proj \in ProjObject
         /\ Synced(wk).pc = "status"
         /\ Synced(wk).pw = wk.pw
<1> DEFINE p == IF wk.kind = "jwt"
                THEN [wk.proj EXCEPT !.status.jwt = JwtHash(wk.pw, wk.proj.exp)]
                ELSE [wk.proj EXCEPT !.status.password = wk.pw]
<1>1. p \in ProjObject
  BY HashTypes
<1>2. Synced(wk) = [wk EXCEPT !.proj = p, !.pc = "status", !.next = "continue"]
  BY DEF Synced, Worker
<1> HIDE DEF p
<1> QED
  BY <1>1, <1>2 DEF Worker

LEMMA NextSyncTypes ==
  ASSUME NEW wk \in Worker, wk.proj \in ProjObject, wk.pw \in Passwords
  PROVE  /\ NextSync(wk) \in Worker
         /\ NextSync(wk).proj \in ProjObject
         /\ NextSync(wk).pc \in {"ensure", "status"}
         /\ NextSync(wk).pw = wk.pw
<1> DEFINE p == [wk.proj EXCEPT !.status.cond = "Ready"]
<1>1. p \in ProjObject
  BY ReasonType DEF Reasons
<1>2. NextSync(wk) \in {[wk EXCEPT !.pc = "ensure", !.kind = "jwt"],
                        [wk EXCEPT !.pc = "ensure", !.kind = "password"],
                        [wk EXCEPT !.pc = "status", !.proj = p, !.next = "return"]}
  BY DEF NextSync, Worker
<1> HIDE DEF p
<1> QED
  BY <1>1, <1>2 DEF Worker, Kinds

LEMMA ChangedTypes ==
  ASSUME TypeInv, NEW e \in Events, Changed(e) \/ UNCHANGED pend
  PROVE  pend' \subseteq Events
BY DEF TypeInv, TypeOK, Changed

LEMMA FaultTypes ==
  ASSUME TypeInv, NEW f, Fault(f) \/ UNCHANGED budget
  PROVE  budget' \in Nat
BY DEF TypeInv, TypeOK, Fault

-----------------------------------------------------------------------------
(***************************************************************************)
(* TypeInv holds initially and is kept by every action.                    *)
(***************************************************************************)

LEMMA InitTypes == Init => TypeInv
<1> SUFFICES ASSUME Init PROVE TypeInv
  OBVIOUS
<1>1. proj \in ProjObject
  <2>1. PICK e \in Exps : proj = [exp |-> e, enable |-> TRUE, status |-> NoStatus]
    BY DEF Init
  <2> QED
    BY <2>1, NoStatusType DEF ProjObject
<1>2. pw \in Passwords
  BY ProjectAssumption DEF Init, Passwords
<1>3. NoPod \in Pod
  BY DEF NoPod, Pod
<1>4. db \in Database
  BY <1>2 DEF Init, Database
<1>5. TypeOK
  BY <1>1, <1>2, <1>3, <1>4, NoJobType, IdleType, ProjectAssumption
  DEF Init, TypeOK, Migrations, Events
<1>6. WorkerReady
  BY IdleType DEF Init, WorkerReady, Idle
<1>7. PodsHaveJobs
  BY DEF Init, PodsHaveJobs, NoPod, NoJob, Kinds
<1> QED
  BY <1>5, <1>6, <1>7 DEF TypeInv

LEMMA UserTypes ==
  ASSUME TypeInv, RotatePassword \/ EditJWTExpSec \/ ToggleMigrations
  PROVE  TypeInv'
<1>1. budget' \in Nat
  BY FaultTypes DEF RotatePassword, EditJWTExpSec, ToggleMigrations
<1>2. pend' \subseteq Events
  BY ChangedTypes DEF RotatePassword, EditJWTExpSec, ToggleMigrations, Events
<1>3. proj' \in ProjObject
  BY DEF TypeInv, TypeOK, RotatePassword, EditJWTExpSec, ToggleMigrations, ProjObject
<1>4. pw' \in Passwords
  BY ProjectAssumption DEF TypeInv, TypeOK, RotatePassword, EditJWTExpSec,
       ToggleMigrations, Passwords
<1>5. UNCHANGED <<migration, job, caches, q, w, pod, runner, db, synced>>
  BY DEF RotatePassword, EditJWTExpSec, ToggleMigrations
<1> QED
  BY <1>1, <1>2, <1>3, <1>4, <1>5
  DEF TypeInv, TypeOK, WorkerReady, PodsHaveJobs, caches

LEMMA InformerTypes ==
  ASSUME TypeInv, (\E e \in Events : Deliver(e)) \/ DeliverDatabase \/ RestartOperator
  PROVE  TypeInv'
<1>1. ASSUME NEW e \in Events, Deliver(e)
      PROVE  TypeInv'
  BY <1>1 DEF Deliver, Wakes, TypeInv, TypeOK, WorkerReady, PodsHaveJobs, api
<1>2. CASE DeliverDatabase
  <2>1. db.up \in BOOLEAN
    BY DEF TypeInv, TypeOK, Database
  <2> QED
    BY <1>2, <2>1 DEF DeliverDatabase, TypeInv, TypeOK, WorkerReady, PodsHaveJobs, api
<1>3. CASE RestartOperator
  <2>1. db.up \in BOOLEAN
    BY DEF TypeInv, TypeOK, Database
  <2>2. budget' \in Nat
    BY <1>3, FaultTypes DEF RestartOperator
  <2> QED
    BY <1>3, <2>1, <2>2, IdleType
    DEF RestartOperator, TypeInv, TypeOK, WorkerReady, PodsHaveJobs, api
<1> QED
  BY <1>1, <1>2, <1>3

LEMMA ReconcileTypes ==
  ASSUME TypeInv, Reconcile
  PROVE  TypeInv'
<1> DEFINE start == [Idle EXCEPT !.pc = "migration", !.proj = cProj]
<1>1. start \in Worker /\ start.proj \in ProjObject
      /\ start.pc = "migration" /\ start.next = "return"
  BY IdleType DEF TypeInv, TypeOK, Worker
<1>2. w' \in {start, NotReady(start, "DatabaseNotReady")}
  BY DEF Reconcile
<1> HIDE DEF start
<1>3. w' \in Worker /\ WorkerReady'
  BY <1>1, <1>2, NotReadyTypes DEF WorkerReady, Reasons
<1> QED
  BY <1>3 DEF Reconcile, TypeInv, TypeOK, PodsHaveJobs, api, caches

LEMMA EnsureMigrationTypes ==
  ASSUME TypeInv, EnsureMigration
  PROVE  TypeInv'
<1>1. w \in Worker /\ w.proj \in ProjObject /\ w.pc = "migration"
  BY DEF EnsureMigration, TypeInv, TypeOK, WorkerReady
<1>2. w' \in {NotReady(w, "Failed"), [w EXCEPT !.pc = "list"]}
  BY DEF EnsureMigration
<1>3. w' \in Worker /\ WorkerReady'
  <2>1. CASE w' = NotReady(w, "Failed")
    BY <1>1, <2>1, NotReadyTypes DEF WorkerReady, Reasons
  <2>2. CASE w' = [w EXCEPT !.pc = "list"]
    BY <1>1, <2>2 DEF WorkerReady, Worker, TypeInv
  <2> QED
    BY <1>2, <2>1, <2>2
<1>4. migration' \in Migrations
  BY DEF EnsureMigration, Migrations, TypeInv, TypeOK
<1>5. pend' \subseteq Events
  BY ChangedTypes DEF EnsureMigration, Events
<1>6. budget' \in Nat
  BY FaultTypes DEF EnsureMigration, Errs
<1> QED
  BY <1>3, <1>4, <1>5, <1>6 DEF EnsureMigration, TypeInv, TypeOK, PodsHaveJobs, caches

LEMMA ReadConfigurationTypes ==
  ASSUME TypeInv, ReadConfiguration
  PROVE  TypeInv'
<1> DEFINE read == [w EXCEPT !.pw = cPw]
<1>1. w \in Worker /\ w.proj \in ProjObject /\ w.pc = "list"
  BY DEF ReadConfiguration, TypeInv, TypeOK, WorkerReady
<1>2. read \in Worker /\ read.proj \in ProjObject /\ read.pw \in Passwords
  BY <1>1 DEF TypeInv, TypeOK, Worker
<1>3. w' \in {NotReady(w, "MigrationsNotReady"), NotReady(w, "Failed"), NextSync(read)}
  BY DEF ReadConfiguration
<1> HIDE DEF read
<1>4. w' \in Worker /\ WorkerReady'
  <2>1. CASE w' \in {NotReady(w, "MigrationsNotReady"), NotReady(w, "Failed")}
    BY <1>1, <2>1, NotReadyTypes DEF WorkerReady, Reasons
  <2>2. CASE w' = NextSync(read)
    BY <1>2, <2>2, NextSyncTypes DEF WorkerReady
  <2> QED
    BY <1>3, <2>1, <2>2
<1>5. budget' \in Nat
  BY FaultTypes DEF ReadConfiguration
<1> QED
  BY <1>4, <1>5 DEF ReadConfiguration, TypeInv, TypeOK, PodsHaveJobs, api, caches

LEMMA EnsureSyncJobTypes ==
  ASSUME TypeInv, EnsureSyncJob
  PROVE  TypeInv'
<1>1. /\ w \in Worker /\ w.proj \in ProjObject
      /\ w.pw \in Passwords /\ w.pc = "ensure" /\ w.kind \in Kinds
  BY DEF EnsureSyncJob, TypeInv, TypeOK, WorkerReady, Worker
<1>2. w' \in {NotReady(w, "Failed"), [w EXCEPT !.pc = "get"]}
  BY DEF EnsureSyncJob
<1>3. w' \in Worker /\ WorkerReady'
  <2>1. CASE w' = NotReady(w, "Failed")
    BY <1>1, <2>1, NotReadyTypes DEF WorkerReady, Reasons
  <2>2. CASE w' = [w EXCEPT !.pc = "get"]
    BY <1>1, <2>2 DEF WorkerReady, Worker
  <2> QED
    BY <1>2, <2>1, <2>2
<1>4. NewJob(w.kind, w.proj.exp) \in Job
  BY <1>1 DEF NewJob, Job, ProjObject
<1>5. \/ job' = job
      \/ /\ job[w.kind].phase = "absent"
         /\ job' = [job EXCEPT ![w.kind] = NewJob(w.kind, w.proj.exp)]
  <2>1. ASSUME NEW seen, EnsureCreates(seen, Exists(job[w.kind].phase /= "absent"))
        PROVE  job[w.kind].phase = "absent"
    BY <2>1 DEF EnsureCreates, Exists, Absent
  <2> QED
    BY <2>1 DEF EnsureSyncJob
<1>6. job' \in [Kinds -> Job]
  BY <1>1, <1>4, <1>5 DEF TypeInv, TypeOK
<1>7. PodsHaveJobs'
  BY <1>1, <1>5 DEF EnsureSyncJob, TypeInv, TypeOK, PodsHaveJobs, NewJob, ProjObject,
       Kinds
<1>8. pend' \subseteq Events
  <2>1. Changed(w.kind) \/ UNCHANGED pend
    BY DEF EnsureSyncJob
  <2> QED
    BY <1>1, <2>1, ChangedTypes DEF Events
<1>9. budget' \in Nat
  BY FaultTypes DEF EnsureSyncJob, Errs
<1> QED
  BY <1>3, <1>6, <1>7, <1>8, <1>9 DEF EnsureSyncJob, TypeInv, TypeOK, caches

LEMMA JudgeSyncJobTypes ==
  ASSUME TypeInv, JudgeSyncJob
  PROVE  TypeInv'
<1>1. w \in Worker /\ w.proj \in ProjObject /\ w.pw \in Passwords
  BY DEF JudgeSyncJob, TypeInv, TypeOK, WorkerReady
<1>2. w' \in {Idle, NotReady(w, "Failed"), NotReady(w, "JobInProgress"), Synced(w)}
  BY DEF JudgeSyncJob, Return
<1>3. w' \in Worker /\ WorkerReady'
  <2>1. CASE w' = Idle
    BY <2>1, IdleType DEF WorkerReady
  <2>2. CASE w' \in {NotReady(w, "Failed"), NotReady(w, "JobInProgress")}
    BY <1>1, <2>2, NotReadyTypes DEF WorkerReady, Reasons
  <2>3. CASE w' = Synced(w)
    BY <1>1, <2>3, SyncedTypes DEF WorkerReady
  <2> QED
    BY <1>2, <2>1, <2>2, <2>3
<1>4. q' \in BOOLEAN
  BY DEF JudgeSyncJob, Return, TypeInv, TypeOK
<1> QED
  BY <1>3, <1>4 DEF JudgeSyncJob, TypeInv, TypeOK, PodsHaveJobs, api, caches

LEMMA UpdateStatusTypes ==
  ASSUME TypeInv, UpdateStatus
  PROVE  TypeInv'
<1>1. w \in Worker /\ w.proj \in ProjObject
  BY DEF UpdateStatus, TypeInv, TypeOK, WorkerReady
<1>2. w' = Idle \/ (w.next = "continue" /\ w' = NextSync(w))
  BY DEF UpdateStatus, Proceed, Return
<1>3. w' \in Worker /\ WorkerReady'
  <2>1. CASE w' = Idle
    BY <2>1, IdleType DEF WorkerReady
  <2>2. CASE w.next = "continue" /\ w' = NextSync(w)
    BY <1>1, <2>2, NextSyncTypes DEF WorkerReady, TypeInv
  <2> QED
    BY <1>2, <2>1, <2>2
<1>4. q' \in BOOLEAN
  BY DEF UpdateStatus, Proceed, Return, TypeInv, TypeOK
<1>5. proj' \in ProjObject
  BY <1>1 DEF UpdateStatus, TypeInv, TypeOK, ProjObject
<1>6. pend' \subseteq Events
  BY ChangedTypes DEF UpdateStatus, Events
<1>7. budget' \in Nat
  BY FaultTypes DEF UpdateStatus, Errs
<1> QED
  BY <1>3, <1>4, <1>5, <1>6, <1>7 DEF UpdateStatus, TypeInv, TypeOK, PodsHaveJobs,
       caches

LEMMA PodStartTypes ==
  ASSUME TypeInv, NEW k \in Kinds, PodStart(k)
  PROVE  TypeInv'
<1>1. [pc |-> "connect", pw |-> pw] \in Pod
  BY DEF TypeInv, TypeOK, Pod
<1> QED
  BY <1>1 DEF PodStart, TypeInv, TypeOK, WorkerReady, PodsHaveJobs, api, caches

\* What an attempt that fails leaves behind, for the Pod and for the Job.
LEMMA AttemptTypes ==
  ASSUME TypeInv, NEW k \in Kinds, Running(k), NEW evicted \in BOOLEAN, Attempt(k, evicted)
  PROVE  /\ pod' \in [Kinds -> Pod] /\ job' \in [Kinds -> Job]
         /\ pend' \subseteq Events /\ PodsHaveJobs'
<1>1. NoPod \in Pod /\ NoPod.pc = "none" /\ pod' = [pod EXCEPT ![k] = NoPod]
  BY DEF Attempt, NoPod, Pod
<1>2. PICK j \in Job : j.exp = job[k].exp
                       /\ j.phase \in {"active", "failed"}
                       /\ job' = [job EXCEPT ![k] = j]
  <2>1. job[k] \in Job /\ job[k].phase = "active"
    BY DEF TypeInv, TypeOK, PodsHaveJobs, Running
  <2>2. CASE job' = [job EXCEPT ![k].phase = "failed", ![k].failed = TRUE]
    <3> DEFINE j == [job[k] EXCEPT !.phase = "failed", !.failed = TRUE]
    <3>1. j \in Job /\ j.exp = job[k].exp /\ j.phase = "failed"
      BY <2>1 DEF Job
    <3>2. job' = [job EXCEPT ![k] = j]
      BY <2>2 DEF TypeInv, TypeOK
    <3> QED
      BY <3>1, <3>2
  <2>3. CASE job' = [job EXCEPT ![k].failed = TRUE]
    <3> DEFINE j == [job[k] EXCEPT !.failed = TRUE]
    <3>1. j \in Job /\ j.exp = job[k].exp /\ j.phase = "active"
      BY <2>1 DEF Job
    <3> QED
      BY <2>3, <3>1
  <2>4. CASE UNCHANGED job
    <3>1. job' = [job EXCEPT ![k] = job[k]]
      BY <2>4 DEF TypeInv, TypeOK
    <3> QED
      BY <2>1, <3>1
  <2> QED
    BY <2>2, <2>3, <2>4 DEF Attempt
<1>3. pend' \subseteq Events
  BY ChangedTypes DEF Attempt, Events
<1>4. PodsHaveJobs'
  BY <1>1, <1>2 DEF TypeInv, TypeOK, PodsHaveJobs, Running
<1> QED
  BY <1>1, <1>2, <1>3, <1>4 DEF TypeInv, TypeOK

LEMMA SuccessTypes ==
  ASSUME TypeInv, NEW k \in Kinds, Running(k), ScriptSucceeds(k)
  PROVE  /\ pod' \in [Kinds -> Pod] /\ job' \in [Kinds -> Job]
         /\ pend' \subseteq Events /\ PodsHaveJobs'
<1>1. NoPod \in Pod /\ NoPod.pc = "none" /\ pod' = [pod EXCEPT ![k] = NoPod]
  BY DEF ScriptSucceeds, NoPod, Pod
<1> DEFINE j == [job[k] EXCEPT !.phase = "complete"]
<1>2. j \in Job /\ j.exp = job[k].exp /\ j.phase = "complete" /\ job[k].phase = "active"
  BY DEF TypeInv, TypeOK, PodsHaveJobs, Running, Job
<1>3. job' = [job EXCEPT ![k] = j]
  BY DEF ScriptSucceeds
<1> HIDE DEF j
<1>4. pend' \subseteq Events
  BY ChangedTypes DEF ScriptSucceeds, Events
<1>5. PodsHaveJobs'
  BY <1>1, <1>2, <1>3 DEF TypeInv, TypeOK, PodsHaveJobs
<1> QED
  BY <1>1, <1>2, <1>3, <1>4, <1>5 DEF TypeInv, TypeOK

\* The database and the history after a step of a script.
LEMMA DatabaseTypes ==
  ASSUME TypeInv,
         \/ \E p \in Passwords : db' = [db EXCEPT !.users = p, !.admin = p]
         \/ \E e \in Exps : db' = [db EXCEPT !.jwt = e]
         \/ \E b \in BOOLEAN : db' = [db EXCEPT !.schema = b]
         \/ UNCHANGED db
  PROVE  db' \in Database
BY DEF TypeInv, TypeOK, Database

LEMMA JwtScriptTypes ==
  ASSUME TypeInv, Script("jwt")
  PROVE  TypeInv'
<1>1. Running("jwt") /\ "jwt" \in Kinds /\ SyncJwt
  BY DEF Script, SyncJwt, Running, Kinds
<1>2. job["jwt"].exp \in Exps
  BY <1>1 DEF TypeInv, PodsHaveJobs, Running
<1>3. /\ pod' \in [Kinds -> Pod] /\ job' \in [Kinds -> Job]
      /\ pend' \subseteq Events /\ PodsHaveJobs'
  BY <1>1, AttemptTypes, SuccessTypes DEF SyncJwt, ScriptFails
<1>4. db' \in Database
  BY <1>1, <1>2, DatabaseTypes DEF SyncJwt, ScriptFails
<1>5. synced' \subseteq Exps
  BY <1>1, <1>2 DEF SyncJwt, ScriptFails, TypeInv, TypeOK
<1> QED
  BY <1>3, <1>4, <1>5 DEF Script, TypeInv, TypeOK, WorkerReady, caches

LEMMA PasswordScriptTypes ==
  ASSUME TypeInv, Script("password")
  PROVE  TypeInv'
<1>1. /\ Running("password") /\ "password" \in Kinds
      /\ AlterUsers \/ DropSchema \/ CreateSchema
  BY DEF Script, AlterUsers, DropSchema, CreateSchema, Running, Kinds
<1>2. /\ pod' \in [Kinds -> Pod] /\ job' \in [Kinds -> Job]
      /\ pend' \subseteq Events /\ PodsHaveJobs'
  <2>1. CASE ScriptFails("password") \/ ScriptSucceeds("password")
    BY <1>1, <2>1, AttemptTypes, SuccessTypes DEF ScriptFails
  <2>2. CASE \E pc \in {"drop", "create"} :
               /\ pod' = [pod EXCEPT !["password"].pc = pc]
               /\ UNCHANGED <<job, pend>>
    <3>1. PICK pc \in {"drop", "create"} :
                 /\ pod' = [pod EXCEPT !["password"].pc = pc]
                 /\ UNCHANGED <<job, pend>>
      BY <2>2
    <3> DEFINE p == [pod["password"] EXCEPT !.pc = pc]
    <3>2. p \in Pod /\ pod' = [pod EXCEPT !["password"] = p]
      BY <1>1, <3>1 DEF TypeInv, TypeOK, Pod
    <3> HIDE DEF p
    <3>3. pod' \in [Kinds -> Pod]
      BY <3>2 DEF TypeInv, TypeOK
    <3>4. \A k \in Kinds : pod'[k].pc /= "none" => pod[k].pc /= "none"
      BY <1>1, <3>2 DEF TypeInv, TypeOK, Running
    <3> QED
      BY <3>1, <3>3, <3>4 DEF TypeInv, TypeOK, PodsHaveJobs
  <2> QED
    BY <1>1, <2>1, <2>2 DEF AlterUsers, DropSchema, CreateSchema
<1>3. db' \in Database
  <2>1. db.admin \in Passwords
    BY DEF TypeInv, TypeOK, Database
  <2> QED
    BY <1>1, <2>1, DatabaseTypes
    DEF AlterUsers, DropSchema, CreateSchema, ScriptFails, LoggedIn
<1>4. UNCHANGED synced
  BY <1>1 DEF AlterUsers, DropSchema, CreateSchema, ScriptFails
<1> QED
  BY <1>2, <1>3, <1>4 DEF Script, TypeInv, TypeOK, WorkerReady, caches

LEMMA FaultyPodTypes ==
  ASSUME TypeInv, NEW k \in Kinds, Crash(k) \/ Evict(k)
  PROVE  TypeInv'
<1>1. Running(k) /\ (Attempt(k, FALSE) \/ Attempt(k, TRUE))
      /\ UNCHANGED <<proj, migration, pw, caches, q, w, runner, db, synced>>
  BY DEF Crash, Evict, ScriptFails
<1>2. /\ pod' \in [Kinds -> Pod] /\ job' \in [Kinds -> Job]
      /\ pend' \subseteq Events /\ PodsHaveJobs'
  BY <1>1, AttemptTypes
<1>3. budget' \in Nat
  BY FaultTypes DEF Crash, Evict
<1> QED
  BY <1>1, <1>2, <1>3 DEF TypeInv, TypeOK, WorkerReady, caches

LEMMA JobExpiresTypes ==
  ASSUME TypeInv, NEW k \in Kinds, JobExpires(k)
  PROVE  TypeInv'
<1>1. job[k].phase /= "active" /\ job' = [job EXCEPT ![k] = NoJob]
  BY DEF JobExpires
<1>2. pend' \subseteq Events
  BY ChangedTypes DEF JobExpires, Events
<1>3. PodsHaveJobs'
  BY <1>1 DEF JobExpires, TypeInv, TypeOK, PodsHaveJobs, NoJob
<1> QED
  BY <1>1, <1>2, <1>3, NoJobType DEF JobExpires, TypeInv, TypeOK, WorkerReady, caches

\* What a step of the Migration's script makes of the database.
LEMMA BatchTypes ==
  ASSUME TypeInv, ApplyBatch
  PROVE  /\ db' \in Database /\ runner' \in {"none"} \cup Steps
         /\ db'.users = db.users /\ db'.admin = db.admin
         /\ db'.batch = db.batch \/ db'.batch = "pooler"
            \/ (db'.batch = "supabase" /\ db.batch = "none")
         /\ db'.schema => db.schema \/ db'.batch = "pooler"
<1>1. db \in Database
  BY DEF TypeInv, TypeOK
<1>2. CASE Execute("supabase", "pooler")
  BY <1>1, <1>2 DEF Execute, Database, Files, Steps
<1>3. CASE Execute("pooler", "record")
  BY <1>1, <1>3 DEF Execute, Database, Files, Steps
<1>4. CASE RecordHash
  <2>1. db.migrated \in BOOLEAN /\ db.up \in BOOLEAN
    BY <1>1 DEF Database
  <2>2. (db.migrated \/ db.up) \in BOOLEAN
    OBVIOUS
  <2> QED
    BY <1>1, <1>4, <2>2 DEF RecordHash, Database
<1> QED
  BY <1>2, <1>3, <1>4 DEF ApplyBatch

LEMMA RunnerTypes ==
  ASSUME TypeInv, RunnerStart \/ ApplyBatch \/ RunnerStops
  PROVE  TypeInv'
<1>1. db' \in Database /\ runner' \in {"none"} \cup Steps
  BY BatchTypes DEF RunnerStart, RunnerStops, Steps, Files, TypeInv, TypeOK
<1>2. budget' \in Nat
  BY FaultTypes DEF RunnerStart, ApplyBatch, RunnerStops
<1>3. UNCHANGED <<api, caches, pend, q, w, pod, synced>>
  BY DEF RunnerStart, ApplyBatch, RunnerStops
<1> QED
  BY <1>1, <1>2, <1>3 DEF TypeInv, TypeOK, WorkerReady, PodsHaveJobs, api, caches

LEMMA ServerTypes ==
  ASSUME TypeInv,
         MigrationApplied \/ MigrationUnready \/ RollDatabase \/ DatabaseDown \/ DatabaseUp
  PROVE  TypeInv'
<1>1. db' \in Database
  BY DEF MigrationApplied, MigrationUnready, RollDatabase, DatabaseDown, DatabaseUp,
         TypeInv, TypeOK, Database
<1>2. migration' \in Migrations
  BY DEF MigrationApplied, MigrationUnready, RollDatabase, DatabaseDown, DatabaseUp,
         TypeInv, TypeOK, Migrations, api
<1>3. pend' \subseteq Events
  BY ChangedTypes DEF MigrationApplied, MigrationUnready, RollDatabase, DatabaseDown,
       DatabaseUp, Events
<1>4. budget' \in Nat
  BY FaultTypes DEF MigrationApplied, MigrationUnready, RollDatabase, DatabaseDown,
       DatabaseUp
<1>5. UNCHANGED <<proj, pw, job, caches, q, w, pod, runner, synced>>
  BY DEF MigrationApplied, MigrationUnready, RollDatabase, DatabaseDown, DatabaseUp, api
<1> QED
  BY <1>1, <1>2, <1>3, <1>4, <1>5 DEF TypeInv, TypeOK, WorkerReady, PodsHaveJobs, caches

LEMMA NextTypes == TypeInv /\ [Next]_vars => TypeInv'
<1> SUFFICES ASSUME TypeInv, [Next]_vars
             PROVE  TypeInv'
  OBVIOUS
<1>1. CASE Controller
  BY <1>1, ReconcileTypes, EnsureMigrationTypes, ReadConfigurationTypes,
     EnsureSyncJobTypes, JudgeSyncJobTypes, UpdateStatusTypes DEF Controller
<1>2. CASE Cluster
  BY <1>2, InformerTypes, PodStartTypes, JwtScriptTypes, PasswordScriptTypes,
     JobExpiresTypes, RunnerTypes, ServerTypes DEF Cluster, Kinds
<1>3. CASE Environment
  BY <1>3, UserTypes, InformerTypes, RunnerTypes, ServerTypes, FaultyPodTypes
  DEF Environment
<1>4. CASE UNCHANGED vars
  BY <1>4 DEF TypeInv, TypeOK, WorkerReady, PodsHaveJobs, vars, api, caches
<1> QED
  BY <1>1, <1>2, <1>3, <1>4 DEF Next

\* Every variable keeps its type: in particular no hash is ever stored before
\* the password it is computed from was read.
THEOREM TypeCorrect == Spec => []TypeOK
<1>1. TypeInv => TypeOK
  BY DEF TypeInv
<1> QED
  BY <1>1, InitTypes, NextTypes, PTL DEF Spec

-----------------------------------------------------------------------------
(***************************************************************************)
(* What a status claims is true.  The claim travels: from the expiry the   *)
(* worker has read into the template of the Job, from a complete Job into  *)
(* the cache, and from there into the worker's copy of the status, the API *)
(* server and its cache.  JwtInv follows it.                               *)
(***************************************************************************)

Claims(s) == s.jwt.exp \in synced \cup {NoExp}

StatusesClaim == Claims(proj.status) /\ Claims(cProj.status) /\ Claims(w.proj.status)

\* A complete Job has brought its expiry into the database.
JobClaims(j) == j.phase = "complete" => j.exp \in synced

JobsClaim == JobClaims(job["jwt"]) /\ JobClaims(cJob["jwt"])

CacheCurrent == "jwt" \notin pend => cJob["jwt"] = job["jwt"]

\* The Job the worker is about to judge is for the expiry it will claim: the
\* Update of EnsureResource was rejected otherwise, and while the worker does
\* not create a Job nobody does.
Fits(j) == j.phase /= "absent" => j.exp = w.proj.exp

JobFits == w.pc = "get" /\ w.kind = "jwt" => Fits(job["jwt"]) /\ Fits(cJob["jwt"])

JwtInv == StatusesClaim /\ JobsClaim /\ CacheCurrent /\ JobFits

LEMMA InitJwt == Init => JwtInv
BY DEF Init, JwtInv, StatusesClaim, JobsClaim, CacheCurrent, JobFits, Claims, JobClaims,
       NoStatus, NoJwtHash, JwtHash, NoJob, Idle, NoProj, Kinds

\* Steps that touch neither a status, nor the Job, nor its cache.
LEMMA UnrelatedJwt ==
  ASSUME JwtInv,
         UNCHANGED <<w, cProj, cJob, synced>>,
         proj'.status = proj.status, job'["jwt"] = job["jwt"],
         "jwt" \in pend => "jwt" \in pend'
  PROVE  JwtInv'
BY DEF JwtInv, StatusesClaim, JobsClaim, CacheCurrent, JobFits, Claims, JobClaims, Fits

\* Steps of the worker that leave the Job alone and end somewhere else than
\* before the verdict on it.
LEMMA WorkerJwt ==
  ASSUME JwtInv,
         UNCHANGED <<cProj, job, cJob, synced>>,
         Claims(proj'.status), Claims(w'.proj.status), w'.pc /= "get",
         "jwt" \in pend => "jwt" \in pend'
  PROVE  JwtInv'
BY DEF JwtInv, StatusesClaim, JobsClaim, CacheCurrent, JobFits, Claims, JobClaims

\* Steps of the Job: one that was there keeps its expiry, and if it is complete
\* its expiry was brought into the database.
LEMMA JobJwt ==
  ASSUME JwtInv,
         UNCHANGED <<proj, w, cProj, cJob>>, synced \subseteq synced',
         job'["jwt"].phase /= "absent" =>
            job["jwt"].phase /= "absent" /\ job'["jwt"].exp = job["jwt"].exp,
         job'["jwt"].phase = "complete" => job'["jwt"].exp \in synced',
         "jwt" \in pend'
  PROVE  JwtInv'
BY DEF JwtInv, StatusesClaim, JobsClaim, CacheCurrent, JobFits, Claims, JobClaims, Fits

-----------------------------------------------------------------------------
(***************************************************************************)
(* The claims of the copies of the status the worker makes.                *)
(***************************************************************************)

LEMMA NotReadyClaims ==
  ASSUME NEW wk \in Worker, wk.proj \in ProjObject, NEW reason
  PROVE  NotReady(wk, reason).proj.status.jwt = wk.proj.status.jwt
BY DEF NotReady, Worker, ProjObject, Status

LEMMA NextSyncClaims ==
  ASSUME NEW wk \in Worker, wk.proj \in ProjObject
  PROVE  NextSync(wk).proj.status.jwt = wk.proj.status.jwt
BY DEF NextSync, Worker, ProjObject, Status

LEMMA SyncedClaims ==
  ASSUME NEW wk \in Worker, wk.proj \in ProjObject
  PROVE  Synced(wk).proj.status.jwt.exp \in
           {wk.proj.status.jwt.exp} \cup (IF wk.kind = "jwt" THEN {wk.proj.exp} ELSE {})
BY DEF Synced, JwtHash, Worker, ProjObject, Status

-----------------------------------------------------------------------------
LEMMA ReconcileJwt ==
  ASSUME TypeInv, JwtInv, Reconcile
  PROVE  JwtInv'
<1> DEFINE start == [Idle EXCEPT !.pc = "migration", !.proj = cProj]
<1>1. start \in Worker /\ start.proj = cProj /\ start.pc = "migration" /\ cProj \in ProjObject
  BY IdleType DEF TypeInv, TypeOK, Worker
<1>2. w' \in {start, NotReady(start, "DatabaseNotReady")}
  BY DEF Reconcile
<1> HIDE DEF start
<1>3. w'.pc /= "get" /\ w'.proj.status.jwt = cProj.status.jwt
  BY <1>1, <1>2, NotReadyTypes, NotReadyClaims DEF Reasons
<1> QED
  BY <1>3, WorkerJwt DEF Reconcile, JwtInv, StatusesClaim, Claims, api, caches

LEMMA EnsureMigrationJwt ==
  ASSUME TypeInv, JwtInv, EnsureMigration
  PROVE  JwtInv'
<1>1. w \in Worker /\ w.proj \in ProjObject
  BY DEF EnsureMigration, TypeInv, TypeOK, WorkerReady
<1>2. w' \in {NotReady(w, "Failed"), [w EXCEPT !.pc = "list"]}
  BY DEF EnsureMigration
<1>3. w'.pc /= "get" /\ w'.proj.status.jwt = w.proj.status.jwt
  BY <1>1, <1>2, NotReadyTypes, NotReadyClaims DEF Reasons, Worker
<1>4. "jwt" \in pend => "jwt" \in pend'
  BY DEF EnsureMigration, Changed
<1> QED
  BY <1>3, <1>4, WorkerJwt DEF EnsureMigration, JwtInv, StatusesClaim, Claims, caches

LEMMA ReadConfigurationJwt ==
  ASSUME TypeInv, JwtInv, ReadConfiguration
  PROVE  JwtInv'
<1> DEFINE read == [w EXCEPT !.pw = cPw]
<1>1. w \in Worker /\ w.proj \in ProjObject
  BY DEF ReadConfiguration, TypeInv, TypeOK, WorkerReady
<1>2. read \in Worker /\ read.proj = w.proj /\ read.pw \in Passwords
  BY <1>1 DEF TypeInv, TypeOK, Worker
<1> HIDE DEF read
<1>3. w'.proj.status.jwt = w.proj.status.jwt
  <2>1. w' \in {NotReady(w, "MigrationsNotReady"), NotReady(w, "Failed"), NextSync(read)}
    BY DEF ReadConfiguration, read
  <2> QED
    BY <1>1, <1>2, <2>1, NotReadyClaims, NextSyncClaims
<1>4. w'.pc /= "get"
  <2>1. w' \in {NotReady(w, "MigrationsNotReady"), NotReady(w, "Failed"), NextSync(read)}
    BY DEF ReadConfiguration, read
  <2> QED
    BY <1>1, <1>2, <2>1, NotReadyTypes, NextSyncTypes DEF Reasons
<1> QED
  BY <1>3, <1>4, WorkerJwt DEF ReadConfiguration, JwtInv, StatusesClaim, Claims, api,
       caches

\* The call that returns no error has either found, in a cache that is current,
\* a Job with the expiry of the Project, or created one.
LEMMA EnsureSyncJobJwt ==
  ASSUME TypeInv, JwtInv, EnsureSyncJob
  PROVE  JwtInv'
<1> DEFINE k     == w.kind
           new   == NewJob(k, w.proj.exp)
           seen  == Exists(cJob[k].phase /= "absent")
           there == Exists(job[k].phase /= "absent")
           fails == \/ EnsureFails(seen, there, 1, TRUE, k \in pend)
                    \/ seen = 1 /\ cJob[k].exp /= new.exp
<1>1. /\ w \in Worker /\ w.proj \in ProjObject /\ k \in Kinds
      /\ job \in [Kinds -> Job] /\ cJob \in [Kinds -> Job]
  BY DEF EnsureSyncJob, TypeInv, TypeOK, WorkerReady, Worker
<1>2. CASE w' = NotReady(w, "Failed") /\ UNCHANGED <<job, pend>>
  <2>1. w'.pc /= "get" /\ w'.proj.status.jwt = w.proj.status.jwt
    BY <1>1, <1>2, NotReadyTypes, NotReadyClaims DEF Reasons
  <2> QED
    BY <1>2, <2>1, WorkerJwt DEF EnsureSyncJob, JwtInv, StatusesClaim, Claims, caches
<1>3. CASE /\ ~fails
           /\ IF EnsureCreates(seen, there)
              THEN job' = [job EXCEPT ![k] = new] /\ Changed(k)
              ELSE UNCHANGED <<job, pend>>
           /\ w' = [w EXCEPT !.pc = "get"]
  <2>1. w'.proj = w.proj /\ w'.kind = k
    BY <1>1, <1>3 DEF Worker
  <2>2. UNCHANGED <<proj, cProj, cJob, synced>>
    BY DEF EnsureSyncJob, caches
  <2>3. CASE cJob[k].phase = "absent"
    <3>1. job[k].phase = "absent" /\ EnsureCreates(seen, there)
      BY <1>3, <2>3 DEF EnsureFails, EnsureCreates, Exists, Absent
    <3>2. job' = [job EXCEPT ![k] = new] /\ pend' = pend \cup {k}
      BY <1>3, <3>1 DEF Changed
    <3>3. new.phase = "active" /\ (k = "jwt" => new.exp = w.proj.exp)
      BY DEF NewJob
    <3> HIDE DEF k, new, seen, there, fails
    <3>4. k = "jwt" => job'["jwt"] = new /\ "jwt" \in pend'
      BY <1>1, <3>2
    <3>5. k /= "jwt" => job'["jwt"] = job["jwt"]
      BY <1>1, <3>2 DEF Kinds
    <3> QED
      BY <2>1, <2>2, <2>3, <3>2, <3>3, <3>4, <3>5
      DEF JwtInv, StatusesClaim, JobsClaim, CacheCurrent, JobFits, Claims, JobClaims, Fits
  <2>4. CASE cJob[k].phase /= "absent"
    <3>1. k \notin pend /\ cJob[k].exp = new.exp /\ ~EnsureCreates(seen, there)
      BY <1>3, <2>4 DEF EnsureFails, EnsureCreates, Exists, Absent
    <3>2. UNCHANGED <<job, pend>>
      BY <1>3, <3>1
    <3>3. k = "jwt" => new.exp = w.proj.exp
      BY DEF NewJob
    <3> HIDE DEF k, new, seen, there, fails
    <3> QED
      BY <2>1, <2>2, <3>1, <3>2, <3>3
      DEF JwtInv, StatusesClaim, JobsClaim, CacheCurrent, JobFits, Claims, JobClaims, Fits
  <2> QED
    BY <2>3, <2>4
<1> QED
  BY <1>2, <1>3 DEF EnsureSyncJob

LEMMA JudgeSyncJobJwt ==
  ASSUME TypeInv, JwtInv, JudgeSyncJob
  PROVE  JwtInv'
<1>1. w \in Worker /\ w.proj \in ProjObject /\ w.pw \in Passwords /\ w.pc = "get"
  BY DEF JudgeSyncJob, TypeInv, TypeOK, WorkerReady
<1>2. w'.pc /= "get" /\ Claims(w'.proj.status)
  <2>1. CASE w' = Idle
    BY <2>1 DEF Idle, NoProj, NoStatus, NoJwtHash, JwtHash, Claims
  <2>2. CASE w' \in {NotReady(w, "Failed"), NotReady(w, "JobInProgress")}
    BY <1>1, <2>2, NotReadyTypes, NotReadyClaims
    DEF Reasons, JwtInv, StatusesClaim, Claims
  <2>3. CASE w' = Synced(w) /\ HasSucceeded(cJob[w.kind])
    <3>1. w.kind = "jwt" => w.proj.exp \in synced
      BY <1>1, <2>3 DEF HasSucceeded, JwtInv, JobsClaim, JobClaims, JobFits, Fits
    <3>2. w.proj.status.jwt.exp \in synced \cup {NoExp}
      BY DEF JwtInv, StatusesClaim, Claims
    <3> QED
      BY <1>1, <2>3, <3>1, <3>2, SyncedTypes, SyncedClaims DEF Claims
  <2> QED
    BY <2>1, <2>2, <2>3 DEF JudgeSyncJob, Return
<1> QED
  BY <1>2, WorkerJwt DEF JudgeSyncJob, JwtInv, StatusesClaim, Claims, api, caches

LEMMA UpdateStatusJwt ==
  ASSUME TypeInv, JwtInv, UpdateStatus
  PROVE  JwtInv'
<1>1. w \in Worker /\ w.proj \in ProjObject /\ proj \in ProjObject
  BY DEF UpdateStatus, TypeInv, TypeOK, WorkerReady
<1>2. w' = Idle \/ (w.next = "continue" /\ w' = NextSync(w))
  BY DEF UpdateStatus, Proceed, Return
<1>3. w'.pc /= "get" /\ Claims(w'.proj.status)
  <2>1. CASE w' = Idle
    BY <2>1 DEF Idle, NoProj, NoStatus, NoJwtHash, JwtHash, Claims
  <2>2. CASE w.next = "continue" /\ w' = NextSync(w)
    BY <1>1, <2>2, NextSyncTypes, NextSyncClaims
    DEF TypeInv, WorkerReady, JwtInv, StatusesClaim, Claims
  <2> QED
    BY <1>2, <2>1, <2>2
<1>4. Claims(proj'.status)
  BY <1>1 DEF UpdateStatus, JwtInv, StatusesClaim, Claims, ProjObject
<1>5. "jwt" \in pend => "jwt" \in pend'
  BY DEF UpdateStatus, Changed
<1> QED
  BY <1>3, <1>4, <1>5, WorkerJwt DEF UpdateStatus, caches

LEMMA InformerJwt ==
  ASSUME TypeInv, JwtInv, (\E e \in Events : Deliver(e)) \/ DeliverDatabase \/ RestartOperator
  PROVE  JwtInv'
<1>1. ASSUME NEW e \in Events, Deliver(e)
      PROVE  JwtInv'
  <2>1. UNCHANGED <<proj, job, w, synced>> /\ cProj' \in {proj, cProj} /\ pend' = pend \ {e}
    BY <1>1 DEF Deliver, api
  <2>2. cJob'["jwt"] = IF e = "jwt" THEN job["jwt"] ELSE cJob["jwt"]
    BY <1>1 DEF Deliver, Kinds
  <2> QED
    BY <2>1, <2>2
    DEF JwtInv, StatusesClaim, JobsClaim, CacheCurrent, JobFits, Claims, JobClaims, Fits
<1>2. CASE DeliverDatabase
  BY <1>2, UnrelatedJwt DEF DeliverDatabase, api
<1>3. CASE RestartOperator
  BY <1>3
  DEF RestartOperator, Idle, NoProj, NoStatus, NoJwtHash, JwtHash, api,
      JwtInv, StatusesClaim, JobsClaim, CacheCurrent, JobFits, Claims, JobClaims
<1> QED
  BY <1>1, <1>2, <1>3

LEMMA AttemptJwt ==
  ASSUME TypeInv, JwtInv, NEW k \in Kinds, Running(k), NEW evicted \in BOOLEAN,
         Attempt(k, evicted), UNCHANGED <<proj, w, cProj, cJob, synced>>
  PROVE  JwtInv'
<1>1. job \in [Kinds -> Job] /\ job[k].phase = "active" /\ "jwt" \in Kinds
  BY DEF TypeInv, TypeOK, PodsHaveJobs, Running, Kinds
<1>2. CASE UNCHANGED <<job, pend>>
  BY <1>2, UnrelatedJwt
<1>3. CASE /\ \/ job' = [job EXCEPT ![k].phase = "failed", ![k].failed = TRUE]
              \/ job' = [job EXCEPT ![k].failed = TRUE]
           /\ Changed(k)
  <2>1. CASE k = "jwt"
    <3>1. job'["jwt"].exp = job["jwt"].exp /\ job'["jwt"].phase \in {"active", "failed"}
      BY <1>1, <1>3, <2>1 DEF Job
    <3> QED
      BY <1>1, <1>3, <2>1, <3>1, JobJwt DEF Changed
  <2>2. CASE k /= "jwt"
    <3>1. job'["jwt"] = job["jwt"]
      BY <1>1, <1>3, <2>2
    <3> QED
      BY <1>3, <3>1, UnrelatedJwt DEF Changed
  <2> QED
    BY <2>1, <2>2
<1> QED
  BY <1>2, <1>3 DEF Attempt

LEMMA ScriptJwt ==
  ASSUME TypeInv, JwtInv, NEW k \in Kinds, Script(k)
  PROVE  JwtInv'
<1>1. job \in [Kinds -> Job] /\ "jwt" \in Kinds /\ Running(k)
      /\ UNCHANGED <<proj, cProj, cJob, w>>
  BY DEF Script, SyncJwt, AlterUsers, DropSchema, CreateSchema, Running,
         TypeInv, TypeOK, Kinds, caches
<1>2. CASE ScriptFails(k)
  BY <1>1, <1>2, AttemptJwt DEF ScriptFails
<1>3. CASE k = "jwt" /\ synced' = synced \cup {job["jwt"].exp} /\ ScriptSucceeds("jwt")
  <2>1. job["jwt"].phase = "active"
    BY <1>1, <1>3 DEF TypeInv, PodsHaveJobs, Running
  <2>2. job'["jwt"].exp = job["jwt"].exp /\ "jwt" \in pend'
    BY <1>1, <1>3 DEF ScriptSucceeds, Changed, Job
  <2> QED
    BY <1>1, <1>3, <2>1, <2>2, JobJwt
<1>4. CASE /\ k = "password" /\ UNCHANGED synced
           /\ ScriptSucceeds("password") \/ UNCHANGED <<job, pend>>
  <2>1. job'["jwt"] = job["jwt"] /\ pend \subseteq pend'
    BY <1>1, <1>4 DEF ScriptSucceeds, Changed
  <2> QED
    BY <1>1, <1>4, <2>1, UnrelatedJwt
<1> QED
  BY <1>2, <1>3, <1>4 DEF Script, SyncJwt, AlterUsers, DropSchema, CreateSchema, Kinds

LEMMA ClusterJwt ==
  ASSUME TypeInv, JwtInv,
         \/ \E k \in Kinds : PodStart(k) \/ JobExpires(k) \/ Crash(k) \/ Evict(k)
         \/ RunnerStart \/ ApplyBatch \/ RunnerStops
         \/ MigrationApplied \/ MigrationUnready
         \/ RollDatabase \/ DatabaseDown \/ DatabaseUp
  PROVE  JwtInv'
<1>1. ASSUME NEW k \in Kinds, PodStart(k)
      PROVE  JwtInv'
  BY <1>1, UnrelatedJwt DEF PodStart, api, caches
<1>2. ASSUME NEW k \in Kinds, JobExpires(k)
      PROVE  JwtInv'
  <2>1. job'["jwt"] = job["jwt"] \/ (k = "jwt" /\ job'["jwt"] = NoJob)
    BY <1>2 DEF JobExpires, TypeInv, TypeOK, Kinds
  <2> QED
    BY <1>2, <2>1, UnrelatedJwt, JobJwt DEF JobExpires, Changed, NoJob, caches
<1>3. ASSUME NEW k \in Kinds, Crash(k) \/ Evict(k)
      PROVE  JwtInv'
  BY <1>3, AttemptJwt DEF Crash, Evict, ScriptFails, caches
<1>4. CASE \/ RunnerStart \/ ApplyBatch \/ RunnerStops
           \/ MigrationApplied \/ MigrationUnready
           \/ RollDatabase \/ DatabaseDown \/ DatabaseUp
  BY <1>4, UnrelatedJwt
  DEF RunnerStart, ApplyBatch, RunnerStops, MigrationApplied, MigrationUnready,
      RollDatabase, DatabaseDown, DatabaseUp, Changed, api, caches
<1> QED
  BY <1>1, <1>2, <1>3, <1>4

LEMMA UserJwt ==
  ASSUME TypeInv, JwtInv, RotatePassword \/ EditJWTExpSec \/ ToggleMigrations
  PROVE  JwtInv'
<1>1. proj'.status = proj.status
  BY DEF RotatePassword, EditJWTExpSec, ToggleMigrations, TypeInv, TypeOK, ProjObject
<1> QED
  BY <1>1, UnrelatedJwt DEF RotatePassword, EditJWTExpSec, ToggleMigrations, Changed,
       caches

LEMMA NextJwt == TypeInv /\ JwtInv /\ [Next]_vars => JwtInv'
<1> SUFFICES ASSUME TypeInv, JwtInv, [Next]_vars
             PROVE  JwtInv'
  OBVIOUS
<1>1. CASE Controller
  BY <1>1, ReconcileJwt, EnsureMigrationJwt, ReadConfigurationJwt,
     EnsureSyncJobJwt, JudgeSyncJobJwt, UpdateStatusJwt DEF Controller
<1>2. CASE Cluster
  BY <1>2, InformerJwt, ScriptJwt, ClusterJwt DEF Cluster
<1>3. CASE Environment
  BY <1>3, UserJwt, InformerJwt, ClusterJwt DEF Environment
<1>4. CASE UNCHANGED vars
  BY <1>4, UnrelatedJwt DEF vars, api, caches
<1> QED
  BY <1>1, <1>2, <1>3, <1>4 DEF Next

\* JWTSyncHash never claims an expiry that no sync Job has brought into the
\* database, whatever is edited, killed, restarted or read from a stale cache.
THEOREM JwtHashIsSound == Spec => []JwtHashSound
<1>1. TypeInv /\ JwtInv => JwtHashSound
  BY DEF JwtInv, StatusesClaim, Claims, JwtHashSound
<1> QED
  BY <1>1, InitTypes, NextTypes, InitJwt, NextJwt, PTL DEF Spec

-----------------------------------------------------------------------------
(***************************************************************************)
(* Why the Project is not forgotten.  As long as no event has reached the  *)
(* work queue since the worker took the Project, what it has read is what  *)
(* the caches hold; so a worker that stops content, its status skipped,    *)
(* has seen the configuration that is there, or an event is on its way.    *)
(***************************************************************************)

FreshCaches ==
  /\ "project" \notin pend => cProj = proj
  /\ "secret" \notin pend => cPw = pw

\* The steps of the worker that have read the password.
HasPassword == w.pc \in {"ensure", "get"} \/ (w.pc = "status" /\ w.next /= "again")

ReadsCached ==
  w.pc /= "idle" /\ ~q => w.proj.exp = cProj.exp /\ (HasPassword => w.pw = cPw)

\* The status of a worker that is about to stop.
ReadyFor(s, p, e) == s.cond = "Ready" /\ s.jwt = JwtHash(p, e) /\ s.password = p

StopsReady ==
  w.pc = "status" /\ w.next = "return" => ReadyFor(w.proj.status, w.pw, w.proj.exp)

WakeInv == FreshCaches /\ ReadsCached /\ StopsReady /\ NoLostWakeup

LEMMA InitWake == Init => WakeInv
BY DEF Init, WakeInv, FreshCaches, ReadsCached, StopsReady, NoLostWakeup, Idle

\* Steps of others than the worker and the informers.
LEMMA OtherWake ==
  ASSUME WakeInv, UNCHANGED <<w, cProj, cPw, q>>, pend \subseteq pend',
         UNCHANGED proj \/ "project" \in pend',
         UNCHANGED pw \/ "secret" \in pend'
  PROVE  WakeInv'
BY DEF WakeInv, FreshCaches, ReadsCached, HasPassword, StopsReady, ReadyFor,
     NoLostWakeup, InSync

\* Steps after which the Project is in the queue.
LEMMA QueuedWake ==
  ASSUME q', FreshCaches', StopsReady'
  PROVE  WakeInv'
BY DEF WakeInv, ReadsCached, NoLostWakeup

\* Steps of the worker that do not end the reconciliation.
LEMMA WorkerWake ==
  ASSUME WakeInv, UNCHANGED <<cProj, cPw, pw, q>>, pend \subseteq pend',
         UNCHANGED proj \/ "project" \in pend',
         w.pc /= "idle", w'.pc /= "idle", w'.proj.exp = w.proj.exp, StopsReady',
         HasPassword' => (HasPassword /\ w'.pw = w.pw) \/ w'.pw = cPw
  PROVE  WakeInv'
BY DEF WakeInv, FreshCaches, ReadsCached, NoLostWakeup

LEMMA NotReadySpec ==
  ASSUME NEW wk \in Worker, wk.proj \in ProjObject, NEW reason
  PROVE  NotReady(wk, reason).proj.exp = wk.proj.exp
BY DEF NotReady, Worker, ProjObject

LEMMA SyncedSpec ==
  ASSUME NEW wk \in Worker, wk.proj \in ProjObject
  PROVE  Synced(wk).proj.exp = wk.proj.exp /\ Synced(wk).next = "continue"
BY DEF Synced, Worker, ProjObject

\* What NextSync turns to last is the status of a Project in sync.
LEMMA NextSyncSpec ==
  ASSUME NEW wk \in Worker, wk.proj \in ProjObject
  PROVE  /\ NextSync(wk).proj.exp = wk.proj.exp
         /\ NextSync(wk).pc = "status" =>
              /\ ReadyFor(NextSync(wk).proj.status, wk.pw, wk.proj.exp)
              /\ wk.proj.status.password = wk.pw
<1> DEFINE jwtDone == wk.proj.status.jwt = JwtHash(wk.pw, wk.proj.exp)
           pwDone  == wk.proj.status.password = wk.pw
           ready   == [wk EXCEPT !.pc = "status", !.proj.status.cond = "Ready", !.next = "return"]
<1>1. CASE jwtDone /\ pwDone
  <2>1. NextSync(wk) = ready
    BY <1>1 DEF NextSync
  <2>2. ready.proj.exp = wk.proj.exp /\ ready.proj.status.cond = "Ready"
        /\ ready.proj.status.jwt = wk.proj.status.jwt
        /\ ready.proj.status.password = wk.proj.status.password
    BY DEF Worker, ProjObject, Status
  <2> QED
    BY <1>1, <2>1, <2>2 DEF ReadyFor
<1>2. CASE ~(jwtDone /\ pwDone)
  <2>1. NextSync(wk) \in {[wk EXCEPT !.pc = "ensure", !.kind = "jwt"],
                          [wk EXCEPT !.pc = "ensure", !.kind = "password"]}
    BY <1>2 DEF NextSync
  <2> QED
    BY <2>1 DEF Worker
<1> QED
  BY <1>1, <1>2

LEMMA ReconcileWake ==
  ASSUME TypeInv, WakeInv, Reconcile
  PROVE  WakeInv'
<1> DEFINE start == [Idle EXCEPT !.pc = "migration", !.proj = cProj]
<1>1. start \in Worker /\ start.proj = cProj /\ start.pc = "migration" /\ cProj \in ProjObject
  BY IdleType DEF TypeInv, TypeOK, Worker
<1>2. w' \in {start, NotReady(start, "DatabaseNotReady")}
  BY DEF Reconcile
<1> HIDE DEF start
<1>3. /\ w'.pc /= "idle" /\ w'.proj.exp = cProj.exp /\ ~HasPassword'
      /\ w'.pc = "status" => w'.next = "again"
  BY <1>1, <1>2, NotReadyTypes, NotReadySpec DEF Reasons, HasPassword
<1> QED
  BY <1>3
  DEF Reconcile, WakeInv, FreshCaches, ReadsCached, StopsReady, NoLostWakeup, api, caches

LEMMA FailWake ==
  ASSUME TypeInv, WakeInv, w.pc /= "idle", NEW reason \in Reasons, w' = NotReady(w, reason),
         UNCHANGED <<proj, pw, cProj, cPw, q, pend>>
  PROVE  WakeInv'
<1>1. w \in Worker /\ w.proj \in ProjObject
  BY DEF TypeInv, TypeOK, WorkerReady
<1>2. w'.pc = "status" /\ w'.next = "again" /\ w'.proj.exp = w.proj.exp
  BY <1>1, NotReadyTypes, NotReadySpec
<1> QED
  BY <1>2, WorkerWake DEF StopsReady, HasPassword

\* The worker turns to what is left to synchronise.
LEMMA NextSyncWake ==
  ASSUME TypeInv, WakeInv, NEW wk \in Worker, wk.proj = w.proj, w' = NextSync(wk),
         wk.pw \in Passwords, wk.pw = cPw \/ (HasPassword /\ wk.pw = w.pw),
         w.pc /= "idle", UNCHANGED <<pw, cProj, cPw, q>>, pend \subseteq pend',
         UNCHANGED proj \/ "project" \in pend'
  PROVE  WakeInv'
<1>1. wk.proj \in ProjObject
  BY DEF TypeInv, WorkerReady
<1>2. w'.pc \in {"ensure", "status"} /\ w'.pw = wk.pw /\ w'.proj.exp = w.proj.exp
  BY <1>1, NextSyncTypes, NextSyncSpec
<1>3. StopsReady'
  BY <1>1, <1>2, NextSyncSpec DEF StopsReady
<1> QED
  BY <1>2, <1>3, WorkerWake

LEMMA EnsureMigrationWake ==
  ASSUME TypeInv, WakeInv, EnsureMigration
  PROVE  WakeInv'
<1>1. w \in Worker /\ w.proj \in ProjObject /\ w.pc = "migration"
  BY DEF EnsureMigration, TypeInv, TypeOK, WorkerReady
<1>2. CASE w' = NotReady(w, "Failed") /\ UNCHANGED pend
  BY <1>1, <1>2, FailWake DEF EnsureMigration, Reasons, caches
<1>3. CASE w' = [w EXCEPT !.pc = "list"]
  <2>1. w'.pc = "list" /\ w'.proj = w.proj
    BY <1>1, <1>3 DEF Worker
  <2>2. pend \subseteq pend'
    BY DEF EnsureMigration, Changed
  <2> QED
    BY <1>1, <2>1, <2>2, WorkerWake DEF EnsureMigration, caches, StopsReady, HasPassword
<1> QED
  BY <1>2, <1>3 DEF EnsureMigration

LEMMA ReadConfigurationWake ==
  ASSUME TypeInv, WakeInv, ReadConfiguration
  PROVE  WakeInv'
<1> DEFINE read == [w EXCEPT !.pw = cPw]
<1>1. w \in Worker /\ w.pc = "list"
  BY DEF ReadConfiguration, TypeInv, TypeOK
<1>2. read \in Worker /\ read.proj = w.proj /\ read.pw = cPw /\ cPw \in Passwords
  BY <1>1 DEF TypeInv, TypeOK, Worker
<1>3. UNCHANGED <<proj, pw, cProj, cPw, q, pend>>
  BY DEF ReadConfiguration, api, caches
<1>4. w' \in {NotReady(w, "MigrationsNotReady"), NotReady(w, "Failed"), NextSync(read)}
  BY DEF ReadConfiguration
<1> HIDE DEF read
<1>5. CASE w' = NextSync(read)
  BY <1>1, <1>2, <1>3, <1>5, NextSyncWake
<1> QED
  BY <1>1, <1>3, <1>4, <1>5, FailWake DEF Reasons

LEMMA EnsureSyncJobWake ==
  ASSUME TypeInv, WakeInv, EnsureSyncJob
  PROVE  WakeInv'
<1>1. w \in Worker /\ w.pc = "ensure"
  BY DEF EnsureSyncJob, TypeInv, TypeOK
<1>2. CASE w' = NotReady(w, "Failed") /\ UNCHANGED pend
  BY <1>1, <1>2, FailWake DEF EnsureSyncJob, Reasons, caches
<1>3. CASE w' = [w EXCEPT !.pc = "get"]
  <2>1. w'.pc = "get" /\ w'.proj = w.proj /\ w'.pw = w.pw
    BY <1>1, <1>3 DEF Worker
  <2>2. pend \subseteq pend'
    BY DEF EnsureSyncJob, Changed
  <2> QED
    BY <1>1, <2>1, <2>2, WorkerWake DEF EnsureSyncJob, caches, StopsReady, HasPassword
<1> QED
  BY <1>2, <1>3 DEF EnsureSyncJob

LEMMA JudgeSyncJobWake ==
  ASSUME TypeInv, WakeInv, JudgeSyncJob
  PROVE  WakeInv'
<1>1. w \in Worker /\ w.proj \in ProjObject /\ w.pw \in Passwords /\ w.pc = "get"
  BY DEF JudgeSyncJob, TypeInv, TypeOK, WorkerReady
<1>2. UNCHANGED <<proj, pw, cProj, cPw, pend>>
  BY DEF JudgeSyncJob, api, caches
<1>3. CASE Return(TRUE)
  BY <1>2, <1>3, QueuedWake DEF Return, WakeInv, FreshCaches, StopsReady, Idle
<1>4. CASE w' \in {NotReady(w, "Failed"), NotReady(w, "JobInProgress")} /\ UNCHANGED q
  BY <1>1, <1>2, <1>4, FailWake DEF Reasons
<1>5. CASE w' = Synced(w) /\ UNCHANGED q
  <2>1. w'.pc = "status" /\ w'.next = "continue" /\ w'.pw = w.pw /\ w'.proj.exp = w.proj.exp
    BY <1>1, <1>5, SyncedTypes, SyncedSpec
  <2> QED
    BY <1>1, <1>2, <1>5, <2>1, WorkerWake DEF StopsReady, HasPassword
<1> QED
  BY <1>3, <1>4, <1>5 DEF JudgeSyncJob

\* Here a reconciliation ends without asking for another: the status that is
\* skipped says so of the configuration read, and a status that is written is
\* followed by an event.
LEMMA UpdateStatusWake ==
  ASSUME TypeInv, WakeInv, UpdateStatus
  PROVE  WakeInv'
<1>1. w \in Worker /\ w.proj \in ProjObject /\ w.pc = "status"
  BY DEF UpdateStatus, TypeInv, TypeOK, WorkerReady
<1>2. /\ UNCHANGED <<pw, cProj, cPw>> /\ pend \subseteq pend'
      /\ UNCHANGED proj \/ "project" \in pend'
  BY DEF UpdateStatus, Changed, caches
<1>3. FreshCaches'
  BY <1>2 DEF WakeInv, FreshCaches
<1>4. CASE q' /\ w' = Idle
  BY <1>3, <1>4, QueuedWake DEF StopsReady, Idle
<1>5. CASE w.next = "continue" /\ w' = NextSync(w) /\ UNCHANGED q
  BY <1>1, <1>2, <1>5, NextSyncWake DEF TypeInv, WorkerReady, HasPassword
<1>6. CASE /\ w.next = "return" /\ w' = Idle /\ UNCHANGED <<q, proj>>
           /\ cProj.status = w.proj.status
  <2>1. SUFFICES ASSUME ~q', pend' = {}
                 PROVE  InSync'
    BY <1>3, <1>6 DEF WakeInv, ReadsCached, StopsReady, NoLostWakeup, Idle
  <2>2. w.proj.exp = cProj.exp /\ w.pw = cPw /\ ReadyFor(w.proj.status, w.pw, w.proj.exp)
    BY <1>1, <1>6, <2>1 DEF WakeInv, ReadsCached, StopsReady, HasPassword
  <2>3. cProj' = proj' /\ cPw' = pw'
    BY <1>3, <2>1 DEF FreshCaches
  <2> QED
    BY <1>2, <1>6, <2>2, <2>3 DEF InSync, ReadyFor
<1>7. CASE w.next = "return" /\ w' = Idle /\ UNCHANGED q /\ "project" \in pend'
  BY <1>3, <1>7 DEF WakeInv, ReadsCached, StopsReady, NoLostWakeup, Idle
<1>8. w.next \in {"return", "again", "continue"}
  BY <1>1 DEF Worker
<1>9. q \in BOOLEAN
  BY DEF TypeInv, TypeOK
<1> QED
  BY <1>4, <1>5, <1>6, <1>7, <1>8, <1>9 DEF UpdateStatus, Proceed, Return, Changed

LEMMA InformerWake ==
  ASSUME TypeInv, WakeInv,
         (\E e \in Events : Deliver(e)) \/ DeliverDatabase \/ RestartOperator
  PROVE  WakeInv'
<1>1. q' /\ FreshCaches'
  BY DEF Deliver, Wakes, DeliverDatabase, RestartOperator, WakeInv, FreshCaches, api
<1>2. StopsReady'
  BY DEF Deliver, DeliverDatabase, RestartOperator, WakeInv, StopsReady, Idle
<1> QED
  BY <1>1, <1>2, QueuedWake

LEMMA ClusterWake ==
  ASSUME TypeInv, WakeInv,
         \/ \E k \in Kinds : PodStart(k) \/ Script(k) \/ JobExpires(k) \/ Crash(k) \/ Evict(k)
         \/ RunnerStart \/ ApplyBatch \/ RunnerStops
         \/ MigrationApplied \/ MigrationUnready
         \/ RollDatabase \/ DatabaseDown \/ DatabaseUp
         \/ RotatePassword \/ EditJWTExpSec \/ ToggleMigrations
  PROVE  WakeInv'
<1>1. ASSUME NEW k \in Kinds, PodStart(k) \/ Script(k) \/ JobExpires(k) \/ Crash(k) \/ Evict(k)
      PROVE  WakeInv'
  <2>1. UNCHANGED <<w, cProj, cPw, q, proj, pw>> /\ pend \subseteq pend'
    BY <1>1
    DEF PodStart, Script, SyncJwt, AlterUsers, DropSchema, CreateSchema, JobExpires, Crash,
        Evict, ScriptFails, ScriptSucceeds, Attempt, Changed, api, caches
  <2> QED
    BY <2>1, OtherWake
<1>2. CASE \/ RunnerStart \/ ApplyBatch \/ RunnerStops
           \/ MigrationApplied \/ MigrationUnready
           \/ RollDatabase \/ DatabaseDown \/ DatabaseUp
  BY <1>2, OtherWake
  DEF RunnerStart, ApplyBatch, RunnerStops, MigrationApplied, MigrationUnready,
      RollDatabase, DatabaseDown, DatabaseUp, Changed, api, caches
<1>3. CASE RotatePassword \/ EditJWTExpSec \/ ToggleMigrations
  BY <1>3, OtherWake DEF RotatePassword, EditJWTExpSec, ToggleMigrations, Changed,
       caches
<1> QED
  BY <1>1, <1>2, <1>3

LEMMA NextWake == TypeInv /\ WakeInv /\ [Next]_vars => WakeInv'
<1> SUFFICES ASSUME TypeInv, WakeInv, [Next]_vars
             PROVE  WakeInv'
  OBVIOUS
<1>1. CASE Controller
  BY <1>1, ReconcileWake, EnsureMigrationWake, ReadConfigurationWake,
     EnsureSyncJobWake, JudgeSyncJobWake, UpdateStatusWake DEF Controller
<1>2. CASE Cluster
  BY <1>2, InformerWake, ClusterWake DEF Cluster
<1>3. CASE Environment
  BY <1>3, InformerWake, ClusterWake DEF Environment
<1>4. CASE UNCHANGED vars
  BY <1>4, OtherWake DEF vars, api, caches
<1> QED
  BY <1>1, <1>2, <1>3, <1>4 DEF Next

\* A Project that is not in sync with its configuration is queued, being
\* reconciled, or has an event on its way, however stale the caches are.
THEOREM NoWakeupIsLost == Spec => []NoLostWakeup
<1>1. WakeInv => NoLostWakeup
  BY DEF WakeInv
<1> QED
  BY <1>1, InitTypes, NextTypes, InitWake, NextWake, PTL DEF Spec

-----------------------------------------------------------------------------
(***************************************************************************)
(* Why a Project is Ready only on a database with what the first files of  *)
(* its Migration create.  The gate of migrationsReady lets a stale list    *)
(* pass; what holds is that the Job for the passwords completes only on a  *)
(* database that has the schema of pooler.sql.  ReadyInv follows that from *)
(* the script to the status.                                               *)
(***************************************************************************)

\* pooler.sql was executed and the passwords were set: neither is undone.
Prepared == db.batch = "pooler" /\ db.users /= NoPw

Vouches(s) == s.cond = "Ready" \/ s.password /= NoPw => Prepared

StatusesVouch == Vouches(proj.status) /\ Vouches(cProj.status) /\ Vouches(w.proj.status)

JobsVouch ==
  job["password"].phase = "complete" \/ cJob["password"].phase = "complete" => Prepared

\* How far the script is.
ScriptVouches ==
  /\ db.schema => db.batch = "pooler"
  /\ pod["password"].pc \in {"drop", "create"} => db.users /= NoPw
  /\ pod["password"].pc = "create" => db.batch = "pooler"

ReadyInv == StatusesVouch /\ JobsVouch /\ ScriptVouches

LEMMA InitReady == Init => ReadyInv
BY DEF Init, ReadyInv, StatusesVouch, JobsVouch, ScriptVouches, Vouches, NoStatus,
     NoJob,
       NoPod, Idle, NoProj, Kinds

\* Steps of the worker and of the informers.
LEMMA WorkerReadyInv ==
  ASSUME ReadyInv, UNCHANGED <<db, pod>>,
         Vouches(proj'.status), Vouches(cProj'.status), Vouches(w'.proj.status),
         job'["password"].phase = "complete" \/ cJob'["password"].phase = "complete" =>
           job["password"].phase = "complete" \/ cJob["password"].phase = "complete"
  PROVE  ReadyInv'
BY DEF ReadyInv, StatusesVouch, JobsVouch, ScriptVouches, Vouches, Prepared

\* Steps of the database, the scripts and the user.
LEMMA ScriptReadyInv ==
  ASSUME ReadyInv, UNCHANGED <<cProj, cJob, w>>, proj'.status = proj.status,
         db.batch = "pooler" => db'.batch = "pooler",
         db.users /= NoPw => db'.users /= NoPw,
         ScriptVouches',
         job'["password"].phase = "complete" => job["password"].phase = "complete" \/ Prepared
  PROVE  ReadyInv'
BY DEF ReadyInv, StatusesVouch, JobsVouch, Vouches, Prepared

\* The copies of the status the worker makes.
LEMMA NotReadyVouches ==
  ASSUME NEW wk \in Worker, wk.proj \in ProjObject, NEW reason, reason /= "Ready",
         Vouches(wk.proj.status)
  PROVE  Vouches(NotReady(wk, reason).proj.status)
<1>1. /\ NotReady(wk, reason).proj.status.cond = reason
      /\ NotReady(wk, reason).proj.status.password = wk.proj.status.password
  BY DEF NotReady, Worker, ProjObject, Status
<1> QED
  BY <1>1 DEF Vouches

LEMMA NextSyncVouches ==
  ASSUME NEW wk \in Worker, wk.proj \in ProjObject, wk.pw \in Passwords,
         Vouches(wk.proj.status)
  PROVE  Vouches(NextSync(wk).proj.status)
<1>1. CASE NextSync(wk).pc = "status"
  <2>1. wk.proj.status.password = wk.pw /\ wk.pw /= NoPw
    BY <1>1, NextSyncSpec DEF Passwords, NoPw
  <2> QED
    BY <2>1 DEF Vouches
<1>2. CASE NextSync(wk).pc /= "status"
  <2>1. NextSync(wk) \in {[wk EXCEPT !.pc = "ensure", !.kind = "jwt"],
                          [wk EXCEPT !.pc = "ensure", !.kind = "password"]}
    BY <1>2 DEF NextSync, Worker
  <2>2. NextSync(wk).proj = wk.proj
    BY <2>1 DEF Worker
  <2> QED
    BY <2>2
<1> QED
  BY <1>1, <1>2

LEMMA SyncedVouches ==
  ASSUME NEW wk \in Worker, wk.proj \in ProjObject, Vouches(wk.proj.status),
         wk.kind = "password" => Prepared
  PROVE  Vouches(Synced(wk).proj.status)
<1>1. CASE wk.kind = "jwt"
  <2>1. /\ Synced(wk).proj.status.cond = wk.proj.status.cond
        /\ Synced(wk).proj.status.password = wk.proj.status.password
    BY <1>1 DEF Synced, Worker, ProjObject, Status
  <2> QED
    BY <2>1 DEF Vouches
<1>2. CASE wk.kind /= "jwt"
  BY <1>2 DEF Vouches, Worker, Kinds
<1> QED
  BY <1>1, <1>2

LEMMA ControllerReady ==
  ASSUME TypeInv, ReadyInv, Controller
  PROVE  ReadyInv'
<1>1. w \in Worker /\ (w.pc /= "idle" => w.proj \in ProjObject) /\ Vouches(w.proj.status)
      /\ Vouches(cProj.status) /\ Vouches(proj.status)
  BY DEF TypeInv, TypeOK, WorkerReady, ReadyInv, StatusesVouch
<1>2. UNCHANGED <<db, pod, cProj, cJob>>
  BY DEF Controller, Reconcile, EnsureMigration, ReadConfiguration, EnsureSyncJob,
         JudgeSyncJob, UpdateStatus, api, caches
<1>3. Vouches(Idle.proj.status)
  BY DEF Idle, NoProj, NoStatus, Vouches
<1>4. CASE Reconcile
  <2> DEFINE start == [Idle EXCEPT !.pc = "migration", !.proj = cProj]
  <2>1. start \in Worker /\ start.proj = cProj /\ cProj \in ProjObject
    BY IdleType DEF TypeInv, TypeOK, Worker
  <2>2. w' \in {start, NotReady(start, "DatabaseNotReady")}
    BY <1>4 DEF Reconcile
  <2> HIDE DEF start
  <2>3. Vouches(w'.proj.status)
    BY <1>1, <2>1, <2>2, NotReadyVouches
  <2> QED
    BY <1>1, <1>2, <1>4, <2>3, WorkerReadyInv DEF Reconcile, api
<1>5. CASE EnsureMigration
  <2>1. w' \in {NotReady(w, "Failed"), [w EXCEPT !.pc = "list"]} /\ w.pc = "migration"
    BY <1>5 DEF EnsureMigration
  <2>2. Vouches(w'.proj.status)
    BY <1>1, <2>1, NotReadyVouches DEF Worker
  <2> QED
    BY <1>1, <1>2, <1>5, <2>2, WorkerReadyInv DEF EnsureMigration
<1>6. CASE ReadConfiguration
  <2> DEFINE read == [w EXCEPT !.pw = cPw]
  <2>1. w' \in {NotReady(w, "MigrationsNotReady"), NotReady(w, "Failed"), NextSync(read)}
        /\ w.pc = "list"
    BY <1>6 DEF ReadConfiguration
  <2>2. read \in Worker /\ read.proj = w.proj /\ read.pw \in Passwords
    BY <1>1 DEF TypeInv, TypeOK, Worker
  <2> HIDE DEF read
  <2>3. Vouches(w'.proj.status)
    BY <1>1, <2>1, <2>2, NotReadyVouches, NextSyncVouches
  <2> QED
    BY <1>1, <1>2, <1>6, <2>3, WorkerReadyInv DEF ReadConfiguration, api
<1>7. CASE EnsureSyncJob
  <2>1. w' \in {NotReady(w, "Failed"), [w EXCEPT !.pc = "get"]} /\ w.pc = "ensure"
    BY <1>7 DEF EnsureSyncJob
  <2>2. Vouches(w'.proj.status)
    BY <1>1, <2>1, NotReadyVouches DEF Worker
  <2>3. job'["password"].phase = "complete" => job["password"].phase = "complete"
    <3>1. UNCHANGED job \/ job' = [job EXCEPT ![w.kind] = NewJob(w.kind, w.proj.exp)]
      BY <1>7 DEF EnsureSyncJob
    <3>2. NewJob(w.kind, w.proj.exp).phase = "active"
      BY DEF NewJob
    <3> QED
      BY <3>1, <3>2 DEF TypeInv, TypeOK, Kinds
  <2> QED
    BY <1>1, <1>2, <1>7, <2>2, <2>3, WorkerReadyInv DEF EnsureSyncJob
<1>8. CASE JudgeSyncJob
  <2>1. w.pc = "get"
        /\ \/ w' \in {Idle, NotReady(w, "Failed"), NotReady(w, "JobInProgress")}
           \/ w' = Synced(w) /\ HasSucceeded(cJob[w.kind])
    BY <1>8 DEF JudgeSyncJob, Return
  <2>2. HasSucceeded(cJob[w.kind]) /\ w.kind = "password" => Prepared
    BY DEF HasSucceeded, ReadyInv, JobsVouch
  <2>3. Vouches(w'.proj.status)
    BY <1>1, <1>3, <2>1, <2>2, NotReadyVouches, SyncedVouches
  <2> QED
    BY <1>1, <1>2, <1>8, <2>3, WorkerReadyInv DEF JudgeSyncJob, api
<1>9. CASE UpdateStatus
  <2>1. w' = Idle \/ (w.next = "continue" /\ w' = NextSync(w))
    BY <1>9 DEF UpdateStatus, Proceed, Return
  <2>2. Vouches(w'.proj.status)
    <3>1. CASE w' = Idle
      BY <1>3, <3>1
    <3>2. CASE w.next = "continue" /\ w' = NextSync(w)
      BY <1>1, <1>9, <3>2, NextSyncVouches DEF UpdateStatus, TypeInv, WorkerReady
    <3> QED
      BY <2>1, <3>1, <3>2
  <2>3. Vouches(proj'.status)
    BY <1>1, <1>9 DEF UpdateStatus, TypeInv, TypeOK, ProjObject
  <2> QED
    BY <1>1, <1>2, <1>9, <2>2, <2>3, WorkerReadyInv DEF UpdateStatus
<1> QED
  BY <1>4, <1>5, <1>6, <1>7, <1>8, <1>9 DEF Controller

LEMMA InformerReady ==
  ASSUME TypeInv, ReadyInv,
         (\E e \in Events : Deliver(e)) \/ DeliverDatabase \/ RestartOperator
  PROVE  ReadyInv'
<1>1. /\ UNCHANGED <<db, pod, proj, job>> /\ cProj' \in {proj, cProj} /\ w' \in {w, Idle}
      /\ cJob'["password"] \in {job["password"], cJob["password"]}
  BY DEF Deliver, DeliverDatabase, RestartOperator, api, Kinds
<1>2. Vouches(Idle.proj.status)
  BY DEF Idle, NoProj, NoStatus, Vouches
<1> QED
  BY <1>1, <1>2, WorkerReadyInv DEF ReadyInv, StatusesVouch

\* An attempt that fails undoes nothing.
LEMMA AttemptReady ==
  ASSUME TypeInv, ReadyInv, NEW k \in Kinds, NEW evicted, Attempt(k, evicted),
         UNCHANGED <<db, proj, w, cProj, cJob>>
  PROVE  ReadyInv'
<1>1. job'["password"].phase = "complete" => job["password"].phase = "complete"
  <2>1. UNCHANGED job \/ job' = [job EXCEPT ![k].phase = "failed", ![k].failed = TRUE]
        \/ job' = [job EXCEPT ![k].failed = TRUE]
    BY DEF Attempt
  <2> QED
    BY <2>1 DEF TypeInv, TypeOK, Job, Kinds
<1>2. pod'["password"].pc \in {"none", pod["password"].pc}
  BY DEF Attempt, NoPod, TypeInv, TypeOK, Kinds
<1>3. ScriptVouches'
  BY <1>2 DEF ReadyInv, ScriptVouches
<1> QED
  BY <1>1, <1>3, ScriptReadyInv

LEMMA ScriptReady ==
  ASSUME TypeInv, ReadyInv, NEW k \in Kinds, Script(k)
  PROVE  ReadyInv'
<1>1. UNCHANGED <<proj, w, cProj, cJob>> /\ db \in Database
      /\ pod \in [Kinds -> Pod] /\ job \in [Kinds -> Job]
  BY DEF Script, caches, TypeInv, TypeOK
<1>2. CASE ScriptFails(k)
  BY <1>1, <1>2, AttemptReady DEF ScriptFails
<1>3. CASE /\ k = "jwt" /\ db' = [db EXCEPT !.jwt = job["jwt"].exp] /\ ScriptSucceeds(k)
  <2>1. job'["password"] = job["password"] /\ pod'["password"] = pod["password"]
    BY <1>1, <1>3 DEF ScriptSucceeds, Kinds
  <2>2. db'.batch = db.batch /\ db'.users = db.users /\ db'.schema = db.schema
    BY <1>1, <1>3 DEF Database
  <2> QED
    BY <1>1, <2>1, <2>2, ScriptReadyInv DEF ReadyInv, ScriptVouches
<1>4. CASE /\ k = "password" /\ UNCHANGED job
           /\ db' = [db EXCEPT !.users = pod["password"].pw, !.admin = pod["password"].pw]
           /\ pod' = [pod EXCEPT !["password"].pc = "drop"] /\ LoggedIn("password")
  <2>1. /\ db'.batch = db.batch /\ db'.schema = db.schema
        /\ db'.users = pod["password"].pw
    BY <1>1, <1>4 DEF Database
  <2>2. pod["password"].pw /= NoPw
    BY <1>1, <1>4 DEF LoggedIn, Database, Passwords, NoPw
  <2>3. pod'["password"].pc = "drop"
    BY <1>1, <1>4 DEF Pod
  <2> QED
    BY <1>1, <1>4, <2>1, <2>2, <2>3, ScriptReadyInv DEF ReadyInv, ScriptVouches
<1>5. CASE /\ k = "password" /\ UNCHANGED job /\ pod["password"].pc = "drop" /\ db.schema
           /\ db' = [db EXCEPT !.schema = FALSE]
           /\ pod' = [pod EXCEPT !["password"].pc = "create"]
  <2>1. db'.batch = db.batch /\ db'.users = db.users /\ ~db'.schema
    BY <1>1, <1>5 DEF Database
  <2>2. pod'["password"].pc = "create"
    BY <1>1, <1>5 DEF Pod
  <2> QED
    BY <1>1, <1>5, <2>1, <2>2, ScriptReadyInv DEF ReadyInv, ScriptVouches
<1>6. CASE /\ k = "password" /\ pod["password"].pc = "create" /\ ScriptSucceeds(k)
           /\ db' = [db EXCEPT !.schema = TRUE]
  <2>1. db'.batch = db.batch /\ db'.users = db.users
    BY <1>1, <1>6 DEF Database
  <2>2. pod'["password"].pc = "none"
    BY <1>1, <1>6 DEF ScriptSucceeds, NoPod
  <2> QED
    BY <1>1, <1>6, <2>1, <2>2, ScriptReadyInv DEF ReadyInv, ScriptVouches, Prepared
<1>7. k = "jwt" \/ k = "password"
  BY DEF Kinds
<1>8. CASE k = "jwt"
  BY <1>2, <1>3, <1>8 DEF Script, SyncJwt
<1>9. CASE k = "password"
  BY <1>2, <1>4, <1>5, <1>6, <1>9 DEF Script, AlterUsers, DropSchema, CreateSchema
<1> QED
  BY <1>7, <1>8, <1>9

LEMMA ClusterReady ==
  ASSUME TypeInv, ReadyInv,
         \/ \E k \in Kinds : PodStart(k) \/ JobExpires(k) \/ Crash(k) \/ Evict(k)
         \/ RunnerStart \/ ApplyBatch \/ RunnerStops
         \/ MigrationApplied \/ MigrationUnready
         \/ RollDatabase \/ DatabaseDown \/ DatabaseUp
         \/ RotatePassword \/ EditJWTExpSec \/ ToggleMigrations
  PROVE  ReadyInv'
<1>1. ASSUME NEW k \in Kinds, PodStart(k)
      PROVE  ReadyInv'
  <2>1. pod'["password"].pc \in {"connect", pod["password"].pc}
    BY <1>1 DEF PodStart, TypeInv, TypeOK, Kinds
  <2>2. UNCHANGED <<cProj, cJob, w, proj, db, job>>
    BY <1>1 DEF PodStart, api, caches
  <2> QED
    BY <2>1, <2>2, ScriptReadyInv DEF ReadyInv, ScriptVouches
<1>2. ASSUME NEW k \in Kinds, JobExpires(k)
      PROVE  ReadyInv'
  <2>1. job'["password"] \in {job["password"], NoJob}
    BY <1>2 DEF JobExpires, TypeInv, TypeOK, Kinds
  <2>2. UNCHANGED <<cProj, cJob, w, proj, db, pod>>
    BY <1>2 DEF JobExpires, caches
  <2> QED
    BY <2>1, <2>2, ScriptReadyInv DEF ReadyInv, ScriptVouches, NoJob
<1>3. ASSUME NEW k \in Kinds, Crash(k) \/ Evict(k)
      PROVE  ReadyInv'
  BY <1>3, AttemptReady DEF Crash, Evict, ScriptFails, caches
<1>4. CASE RunnerStart \/ ApplyBatch \/ RunnerStops
  <2>1. UNCHANGED <<cProj, cJob, w, proj, job, pod>>
    BY <1>4 DEF RunnerStart, ApplyBatch, RunnerStops, api, caches
  <2>2. /\ db'.users = db.users
        /\ db.batch = "pooler" => db'.batch = "pooler"
        /\ db'.schema => db.schema \/ db'.batch = "pooler"
    BY <1>4, BatchTypes DEF RunnerStart, RunnerStops
  <2> QED
    BY <2>1, <2>2, ScriptReadyInv DEF ReadyInv, ScriptVouches
<1>5. CASE RollDatabase \/ DatabaseDown \/ DatabaseUp
  <2>1. UNCHANGED <<cProj, cJob, w, proj, job, pod>>
    BY <1>5 DEF RollDatabase, DatabaseDown, DatabaseUp, api, caches
  <2>2. db'.batch = db.batch /\ db'.users = db.users /\ db'.schema = db.schema
    BY <1>5 DEF RollDatabase, DatabaseDown, DatabaseUp, TypeInv, TypeOK, Database
  <2> QED
    BY <2>1, <2>2, ScriptReadyInv DEF ReadyInv, ScriptVouches
<1>6. CASE \/ MigrationApplied \/ MigrationUnready
           \/ RotatePassword \/ EditJWTExpSec \/ ToggleMigrations
  <2>1. UNCHANGED <<cProj, cJob, w, db, job, pod>> /\ proj'.status = proj.status
    BY <1>6 DEF MigrationApplied, MigrationUnready, RotatePassword, EditJWTExpSec,
         ToggleMigrations, caches, TypeInv, TypeOK, ProjObject
  <2> QED
    BY <2>1, ScriptReadyInv DEF ReadyInv, ScriptVouches
<1> QED
  BY <1>1, <1>2, <1>3, <1>4, <1>5, <1>6

LEMMA NextReady == TypeInv /\ ReadyInv /\ [Next]_vars => ReadyInv'
<1> SUFFICES ASSUME TypeInv, ReadyInv, [Next]_vars
             PROVE  ReadyInv'
  OBVIOUS
<1>1. CASE Controller
  BY <1>1, ControllerReady
<1>2. CASE Cluster
  BY <1>2, InformerReady, ScriptReady, ClusterReady DEF Cluster
<1>3. CASE Environment
  BY <1>3, InformerReady, ClusterReady DEF Environment
<1>4. CASE UNCHANGED vars
  BY <1>4, ScriptReadyInv DEF ReadyInv, ScriptVouches, vars, api, caches
<1> QED
  BY <1>1, <1>2, <1>3, <1>4 DEF Next

\* No Project is Ready on a database where the batch of its Migration has not got
\* past pooler.sql or whose roles never got the password, however stale the list
\* that migrationsReady looks at and wherever a batch is interrupted.
THEOREM ReadyIsAlwaysPrepared == Spec => []ReadyIsPrepared
<1>1. TypeInv /\ ReadyInv => ReadyIsPrepared
  BY DEF ReadyInv, StatusesVouch, Vouches, Prepared, ReadyIsPrepared
<1> QED
  BY <1>1, InitTypes, NextTypes, InitReady, NextReady, PTL DEF Spec
=============================================================================
