------------------------------ MODULE Migration -----------------------------
(***************************************************************************)
(* The Migration controller of the operator, the Kubernetes machinery it   *)
(* relies on (API server, informer caches, work queue, Job controller,     *)
(* garbage collector), the Pod that runs migration-apply.sh, and the       *)
(* database the script works on.                                           *)
(*                                                                         *)
(* The controller is one worker (MaxConcurrentReconciles is left at 1).    *)
(* Every call of Reconcile that reads the cache or writes to the API       *)
(* server is an action, so caches, users, Pods and the database interleave *)
(* with a reconciliation.                                                  *)
(***************************************************************************)
EXTENDS Naturals, FiniteSets, Ensure

CONSTANTS
  Migrations,    \* names of Migration resources
  MaxInc,        \* bound: how often each name may be created
  Batches,       \* SQL batches, identified with their SHA-256 hash
  NoHash,        \* the empty AppliedHash
  NoName,        \* what the worker reconciles when it is idle
  BatchOf,       \* BatchOf[m][i]: the batch in the spec of incarnation i of m
  N,             \* statements per batch
  Rerunnable,    \* batches whose statements may be executed again
  BackoffLimit,  \* backoffLimit of the Job
  Faults,        \* the kinds of disturbance that may happen
  MaxFaults      \* bound: how many of them may happen, of whatever kind

ASSUME MigrationAssumption ==
  /\ MaxInc \in Nat \ {0}
  /\ NoHash \notin Batches
  /\ NoName \notin Migrations
  /\ BatchOf \in [Migrations -> [1..MaxInc -> Batches]]
  /\ N \in Nat \ {0}
  /\ Rerunnable \subseteq Batches
  /\ BackoffLimit \in Nat \ {0}
  /\ Faults \subseteq {"crash", "evict", "flap", "restart", "api", "delete"}
  /\ MaxFaults \in Nat

VARIABLES
  \* the API server
  mig,       \* mig[m]: the Migration object of that name
  cm,        \* cm[m]: owner of the ConfigMap <m>-sql, Absent if none
  job,       \* job[m]: the Job <m>-job; its inc is Absent if none
  \* the informer caches the controller reads, and the events on their way
  cMig, cCm, cJob, cDb,
  pend,      \* pend[m]: kinds whose last API change has not reached the cache
  \* the controller
  q,         \* q[m]: m is in the work queue
  w,         \* the worker: the reconciliation in progress
  \* the Job controller and the kubelet
  pod,       \* pod[m][i]: the Pod of the Job of incarnation i of m
  tries,     \* tries[m]: failed attempts the Job controller has counted
  \* the database
  dbUp,      \* the server accepts connections (and its resource is Ready)
  recorded,  \* rows of supabase_operator._operator_migrations
  done,      \* done[b]: statements of batch b whose effect is in the database
  \* the environment
  budget     \* how many faults may still happen

api    == <<mig, cm, job>>
caches == <<cMig, cCm, cJob, cDb>>
kube   == <<pod, tries>>
db     == <<dbUp, recorded, done>>
vars   == <<api, caches, pend, q, w, kube, db, budget>>

Incs   == 1..MaxInc
Owners == 0..MaxInc
Hashes == Batches \cup {NoHash}
Kinds  == {"mig", "cm", "job"}
Reasons == {"None", "Ready", "DatabaseNotReady", "ConfigMapFailed",
            "JobFailed", "JobGetFailed", "JobInProgress"}

\* MigrationStatus: AppliedHash and the Ready condition, given by its reason
\* ("Ready" stands for ReconcileSucceeded, the only reason with status True).
Status == [applied : Hashes, cond : Reasons]
NoStatus == [applied |-> NoHash, cond |-> "None"]

\* A deleted object keeps its last inc, so that the next one gets a fresh UID.
MigObject == [inc : Owners, live : BOOLEAN, status : Status]

\* failed: status.failed > 0; phase "complete": status.succeeded > 0.
JobObject == [inc : Owners, phase : {"active", "complete", "failed"},
              failed : BOOLEAN]
NewJob(i) == [inc |-> i, phase |-> "active", failed |-> FALSE]
NoJob == NewJob(Absent)

\* sql: the batch in the mounted ConfigMap; at: statements of it this
\* execution of psql has done.
PodState == {p \in [pc : {"none", "check", "apply", "record", "done"},
                    sql : Batches, at : 0..N] :
               p.pc \in {"check", "apply"} => p.at < N}
NewPod(pc, sql) == [pc |-> pc, sql |-> sql, at |-> 0]
NoPod(m, i) == NewPod("none", BatchOf[m][i])

\* inc, status: the object read by Reconcile, with the status it will publish;
\* again: the result asks for another reconciliation.
Worker == [pc : {"idle", "configmap", "job", "get", "status"},
           m : Migrations \cup {NoName}, inc : Owners, status : Status, again : BOOLEAN]
Idle == [pc |-> "idle", m |-> NoName, inc |-> Absent,
         status |-> NoStatus, again |-> FALSE]

TypeOK ==
  /\ mig \in [Migrations -> MigObject]
  /\ cMig \in [Migrations -> MigObject]
  /\ cm \in [Migrations -> Owners]
  /\ cCm \in [Migrations -> Owners]
  /\ job \in [Migrations -> JobObject]
  /\ cJob \in [Migrations -> JobObject]
  /\ dbUp \in BOOLEAN
  /\ cDb \in BOOLEAN
  /\ pend \in [Migrations -> SUBSET Kinds]
  /\ q \in [Migrations -> BOOLEAN]
  /\ w \in Worker
  /\ pod \in [Migrations -> [Incs -> PodState]]
  /\ tries \in [Migrations -> Nat]
  /\ recorded \subseteq Batches
  /\ done \in [Batches -> 0..N]
  /\ budget \in Nat

NoMig == [inc |-> Absent, live |-> FALSE, status |-> NoStatus]

Init ==
  /\ mig = [m \in Migrations |-> NoMig]
  /\ cMig = mig
  /\ cm = [m \in Migrations |-> Absent]
  /\ cCm = cm
  /\ job = [m \in Migrations |-> NoJob]
  /\ cJob = job
  /\ dbUp = TRUE
  /\ cDb = TRUE
  /\ pend = [m \in Migrations |-> {}]
  /\ q = [m \in Migrations |-> FALSE]
  /\ w = Idle
  /\ pod = [m \in Migrations |-> [i \in Incs |-> NoPod(m, i)]]
  /\ tries = [m \in Migrations |-> 0]
  /\ recorded = {}
  /\ done = [b \in Batches |-> 0]
  /\ budget = MaxFaults

\* Fault f happens now.
Fault(f) == f \in Faults /\ budget > 0 /\ budget' = budget - 1

\* The API server changed the object of kind k; its watch event is on its way.
Changed(m, k) == pend' = [pend EXCEPT ![m] = @ \cup {k}]

-----------------------------------------------------------------------------
(***************************************************************************)
(* The user and the garbage collector.                                     *)
(***************************************************************************)

CreateMigration(m) ==
  /\ ~mig[m].live /\ mig[m].inc < MaxInc
  /\ mig' = [mig EXCEPT ![m] = [inc |-> @.inc + 1, live |-> TRUE,
                                status |-> NoStatus]]
  /\ Changed(m, "mig")
  /\ UNCHANGED <<cm, job, caches, q, w, kube, db, budget>>

DeleteMigration(m) ==
  /\ mig[m].live /\ Fault("delete")
  /\ mig' = [mig EXCEPT ![m] = [@ EXCEPT !.live = FALSE, !.status = NoStatus]]
  /\ Changed(m, "mig")
  /\ UNCHANGED <<cm, job, caches, q, w, kube, db>>

Orphan(m, owner) == owner /= Absent /\ ~(mig[m].live /\ mig[m].inc = owner)

CollectConfigMap(m) ==
  /\ Orphan(m, cm[m])
  /\ cm' = [cm EXCEPT ![m] = Absent]
  /\ Changed(m, "cm")
  /\ UNCHANGED <<mig, job, caches, q, w, kube, db, budget>>

CollectJob(m) ==
  /\ Orphan(m, job[m].inc)
  /\ job' = [job EXCEPT ![m] = NoJob]
  /\ Changed(m, "job")
  /\ UNCHANGED <<mig, cm, caches, q, w, kube, db, budget>>

-----------------------------------------------------------------------------
(***************************************************************************)
(* The informers.  Migrations, Jobs and ConfigMaps are watched: their      *)
(* events update the cache and enqueue the owner (SetupWithManager).  The  *)
(* database is only read through the cache: no event of it enqueues.       *)
(***************************************************************************)

Deliver(m, k) ==
  /\ k \in pend[m]
  /\ pend' = [pend EXCEPT ![m] = @ \ {k}]
  /\ q' = [q EXCEPT ![m] = TRUE]
  /\ cMig' = IF k = "mig" THEN [cMig EXCEPT ![m] = mig[m]] ELSE cMig
  /\ cCm' = IF k = "cm" THEN [cCm EXCEPT ![m] = cm[m]] ELSE cCm
  /\ cJob' = IF k = "job" THEN [cJob EXCEPT ![m] = job[m]] ELSE cJob
  /\ UNCHANGED <<api, cDb, w, kube, db, budget>>

DeliverDatabase ==
  /\ cDb /= dbUp
  /\ cDb' = dbUp
  /\ UNCHANGED <<api, cMig, cCm, cJob, pend, q, w, kube, db, budget>>

\* The operator process restarts: reconciliation and queue are lost, the
\* informers list everything anew and enqueue every Migration.
RestartOperator ==
  /\ Fault("restart")
  /\ cMig' = mig /\ cCm' = cm /\ cJob' = job /\ cDb' = dbUp
  /\ pend' = [m \in Migrations |-> {}]
  /\ q' = [m \in Migrations |-> mig[m].live]
  /\ w' = Idle
  /\ UNCHANGED <<api, kube, db>>

-----------------------------------------------------------------------------
(***************************************************************************)
(* Reconcile.                                                              *)
(***************************************************************************)

\* A call to the API server returns an error, for the reason given or because
\* the request itself fails.
Errs(reason) == IF reason THEN UNCHANGED budget ELSE Fault("api")

\* SetNotReady and the way to UpdateStatus; every such path of Reconcile ends
\* with an error or a RequeueAfter.
NotReady(wk, reason) ==
  [wk EXCEPT !.pc = "status", !.status.cond = reason, !.again = TRUE]

\* Get of the Migration and database.ResolveRef, both from the cache.
Reconcile(m) ==
  /\ w.pc = "idle" /\ q[m]
  /\ q' = [q EXCEPT ![m] = FALSE]
  /\ LET start == [pc |-> "configmap", m |-> m, inc |-> cMig[m].inc,
                   status |-> cMig[m].status, again |-> FALSE]
     IN  w' = IF ~cMig[m].live THEN Idle
              ELSE IF cDb THEN start ELSE NotReady(start, "DatabaseNotReady")
  /\ UNCHANGED <<api, caches, pend, kube, db, budget>>

\* ensureConfigMap, and the early return for a batch already applied, which
\* publishes no status and asks for no further reconciliation.
EnsureConfigMap ==
  /\ w.pc = "configmap"
  /\ LET m == w.m
         fails == EnsureFails(cCm[m], cm[m], w.inc, FALSE, "cm" \in pend[m])
     IN  \/ /\ Errs(fails)
            /\ w' = NotReady(w, "ConfigMapFailed")
            /\ UNCHANGED <<cm, pend>>
         \/ /\ ~fails
            /\ cm' = [cm EXCEPT ![m] = Ensured(cCm[m], @, w.inc)]
            /\ IF EnsureCreates(cCm[m], cm[m]) THEN Changed(m, "cm")
                                               ELSE UNCHANGED pend
            /\ w' = IF w.status.applied /= NoHash THEN Idle
                    ELSE [w EXCEPT !.pc = "job"]
            /\ UNCHANGED budget
  /\ UNCHANGED <<mig, job, caches, q, kube, db>>

\* ensureJob.  MutateJob replaces the whole spec, API-server defaults included,
\* so an existing Job is always sent back with Update, which changes nothing.
EnsureJob ==
  /\ w.pc = "job"
  /\ LET m == w.m
         fails == EnsureFails(cJob[m].inc, job[m].inc, w.inc, TRUE, "job" \in pend[m])
     IN  \/ /\ Errs(fails)
            /\ w' = NotReady(w, "JobFailed")
            /\ UNCHANGED <<job, tries, pend>>
         \/ /\ ~fails
            /\ IF EnsureCreates(cJob[m].inc, job[m].inc)
               THEN /\ job' = [job EXCEPT ![m] = NewJob(w.inc)]
                    /\ tries' = [tries EXCEPT ![m] = 0]
                    /\ Changed(m, "job")
               ELSE UNCHANGED <<job, tries, pend>>
            /\ w' = [w EXCEPT !.pc = "get"]
            /\ UNCHANGED budget
  /\ UNCHANGED <<mig, cm, caches, q, pod, db>>

\* The status markReady publishes.
Succeeded(wk) ==
  [wk EXCEPT !.pc = "status",
             !.status = [applied |-> BatchOf[wk.m][wk.inc], cond |-> "Ready"]]

\* Faulty variant: the check of status.succeeded is missing.
NotYetFailed(j) == j.inc /= Absent

HasSucceeded(j) == j.phase = "complete"

\* Get of the Job and the verdict on it.  The cached Job is judged by name:
\* nothing compares its owner with the Migration reconciled.
JudgeJob ==
  /\ w.pc = "get"
  /\ LET j == cJob[w.m]
     IN  w' = IF j.inc = Absent THEN NotReady(w, "JobGetFailed")
              ELSE IF j.failed THEN NotReady(w, "JobFailed")
              ELSE IF ~HasSucceeded(j) THEN NotReady(w, "JobInProgress")
              ELSE Succeeded(w)
  /\ UNCHANGED <<api, caches, pend, q, kube, db, budget>>

\* Faulty variant: the request to reconcile again is dropped.
ReturnOnly(again) == w' = Idle /\ UNCHANGED q

\* The end of a reconciliation; asks for another one if `again`.
Return(again) ==
  /\ w' = Idle
  /\ q' = [q EXCEPT ![w.m] = @ \/ again]

\* UpdateStatus.  The object is fetched again by name, from the cache; its
\* status is overwritten as a whole.  Retries on conflict read the same cache:
\* they end when it catches up (the action is taken then) or are given up.
\* A status that equals the one there is not sent; one that reports success
\* never does, its AppliedAt being new.
UpdateStatus ==
  /\ w.pc = "status"
  /\ LET m == w.m
         latest == cMig[m]
         skips == w.again /\ latest.live /\ latest.status = w.status
         conflict == "mig" \in pend[m]
     IN  \/ /\ ~skips
            /\ Errs(~latest.live \/ conflict)
            /\ Return(TRUE)
            /\ UNCHANGED <<mig, pend>>
         \/ /\ skips
            /\ Return(w.again)
            /\ UNCHANGED <<mig, pend, budget>>
         \/ /\ latest.live /\ ~skips /\ ~conflict
            /\ mig' = [mig EXCEPT ![m].status = w.status]
            /\ Changed(m, "mig")
            /\ Return(w.again)
            /\ UNCHANGED budget
  /\ UNCHANGED <<cm, job, caches, kube, db>>

-----------------------------------------------------------------------------
(***************************************************************************)
(* The Job controller, the kubelet, and migration-apply.sh.                *)
(***************************************************************************)

Running(m, i) == pod[m][i].pc \in {"check", "apply", "record"}

\* The Pod starts once its volume, the ConfigMap <m>-sql, can be mounted.
PodStart(m) ==
  LET i == job[m].inc
  IN  /\ i /= Absent /\ job[m].phase = "active"
      /\ pod[m][i].pc = "none"
      /\ cm[m] /= Absent
      /\ pod' = [pod EXCEPT ![m][i] = NewPod("check", BatchOf[m][cm[m]])]
      /\ UNCHANGED <<api, caches, pend, q, w, tries, db, budget>>

\* An attempt of the Job failed, and `next` is the Pod's state if there are
\* retries left; `evicted`: the Pod as a whole failed, which the Job's status
\* counts, while a container restarted in its Pod is not counted.
Attempt(m, i, next, evicted) ==
  LET owned == job[m].inc = i /\ job[m].phase = "active"
      over  == owned /\ tries[m] + 1 >= BackoffLimit
  IN  /\ pod' = [pod EXCEPT ![m][i] = IF over THEN NoPod(m, i) ELSE next]
      /\ tries' = IF owned THEN [tries EXCEPT ![m] = @ + 1] ELSE tries
      /\ IF over \/ (owned /\ evicted)
         THEN /\ job' = [job EXCEPT ![m] =
                           [inc |-> i, failed |-> TRUE,
                            phase |-> IF over THEN "failed" ELSE "active"]]
              /\ Changed(m, "job")
         ELSE UNCHANGED <<job, pend>>

\* Faulty variant: errors of psql are ignored (no ON_ERROR_STOP, no set -e).
GoesOn(m, i) ==
  /\ pod' = [pod EXCEPT ![m][i].pc = "record"]
  /\ UNCHANGED <<job, pend, tries, recorded, done>>

\* The script exits with an error: restartPolicy OnFailure runs it again.
ScriptFails(m, i) ==
  /\ Attempt(m, i, NewPod("check", pod[m][i].sql), FALSE)
  /\ UNCHANGED <<recorded, done>>

\* Faulty variant: the script does not look for its hash.
NotChecked(m, i) == FALSE

AlreadyApplied(m, i) == BatchOf[m][i] \in recorded

\* Wait for the server, create the table, look for the hash.
ScriptCheck(m, i) ==
  /\ pod[m][i].pc = "check" /\ dbUp
  /\ pod' = [pod EXCEPT ![m][i].pc =
               IF AlreadyApplied(m, i) THEN "done" ELSE "apply"]
  /\ UNCHANGED <<job, pend, tries, recorded, done>>

\* Faulty variant: psql runs past the end of the batch.
OneTooMany(n) == IF n > N THEN "record" ELSE "apply"

\* The script's next command after n statements.
After(n) == IF n = N THEN "record" ELSE "apply"

\* psql -f executes the batch, each statement in its own transaction.
ScriptApply(m, i) ==
  /\ pod[m][i].pc = "apply"
  /\ LET b == pod[m][i].sql
         n == pod[m][i].at + 1
         refused == n <= done[b] /\ b \notin Rerunnable
     IN  IF ~dbUp \/ refused
         THEN ScriptFails(m, i)
         ELSE /\ done' = [done EXCEPT ![b] = IF n > @ THEN n ELSE @]
              /\ pod' = [pod EXCEPT ![m][i] = [@ EXCEPT
                           !.at = n, !.pc = After(n)]]
              /\ UNCHANGED <<job, pend, tries, recorded>>

\* INSERT of the hash, a primary key.
ScriptRecord(m, i) ==
  /\ pod[m][i].pc = "record"
  /\ IF ~dbUp \/ BatchOf[m][i] \in recorded THEN ScriptFails(m, i)
     ELSE /\ recorded' = recorded \cup {BatchOf[m][i]}
          /\ pod' = [pod EXCEPT ![m][i].pc = "done"]
          /\ UNCHANGED <<job, pend, tries, done>>

Script(m, i) ==
  /\ ScriptCheck(m, i) \/ ScriptApply(m, i) \/ ScriptRecord(m, i)
  /\ UNCHANGED <<mig, cm, caches, q, w, dbUp, budget>>

\* The container is killed between two commands of the script.
Crash(m, i) ==
  /\ Running(m, i) /\ Fault("crash")
  /\ ScriptFails(m, i)
  /\ UNCHANGED <<mig, cm, caches, q, w, dbUp>>

\* The Pod is lost (eviction, node failure); the Job controller replaces it.
Evict(m, i) ==
  /\ Running(m, i) /\ Fault("evict")
  /\ Attempt(m, i, NoPod(m, i), TRUE)
  /\ UNCHANGED <<mig, cm, caches, q, w, db>>

\* The Job of this Pod was deleted: the Pod goes too, some time later.
PodTerminate(m, i) ==
  /\ pod[m][i].pc /= "none" /\ job[m].inc /= i
  /\ pod' = [pod EXCEPT ![m][i] = NoPod(m, i)]
  /\ UNCHANGED <<api, caches, pend, q, w, tries, db, budget>>

JobCompletes(m) ==
  LET i == job[m].inc
  IN  /\ i /= Absent /\ job[m].phase = "active" /\ pod[m][i].pc = "done"
      /\ job' = [job EXCEPT ![m].phase = "complete"]
      /\ pod' = [pod EXCEPT ![m][i] = NoPod(m, i)]
      /\ Changed(m, "job")
      /\ UNCHANGED <<mig, cm, caches, q, w, tries, db, budget>>

\* Faulty variant: the Job has no ttlSecondsAfterFinished.
JobStays(m) == FALSE /\ UNCHANGED vars

\* ttlSecondsAfterFinished has passed.
JobExpires(m) ==
  /\ job[m].inc /= Absent /\ job[m].phase /= "active"
  /\ job' = [job EXCEPT ![m] = NoJob]
  /\ Changed(m, "job")
  /\ UNCHANGED <<mig, cm, caches, q, w, kube, db, budget>>

DatabaseDown ==
  /\ dbUp /\ Fault("flap")
  /\ dbUp' = FALSE
  /\ UNCHANGED <<api, caches, pend, q, w, kube, recorded, done>>

\* A server that stops ends the sessions of psql, and the script notices before
\* the server is back.
DatabaseUp ==
  /\ ~dbUp
  /\ \A m \in Migrations, i \in Incs : pod[m][i].pc /= "apply"
  /\ dbUp' = TRUE
  /\ UNCHANGED <<api, caches, pend, q, w, kube, recorded, done, budget>>

-----------------------------------------------------------------------------
Controller ==
  \/ \E m \in Migrations : Reconcile(m)
  \/ EnsureConfigMap \/ EnsureJob \/ JudgeJob \/ UpdateStatus

Cluster(m) ==
  \/ CollectConfigMap(m) \/ CollectJob(m)
  \/ PodStart(m) \/ JobCompletes(m) \/ JobExpires(m)
  \/ \E k \in Kinds : Deliver(m, k)
  \/ \E i \in Incs : Script(m, i) \/ PodTerminate(m, i)

Environment ==
  \/ RestartOperator \/ DatabaseDown
  \/ \E m \in Migrations :
       \/ CreateMigration(m) \/ DeleteMigration(m)
       \/ \E i \in Incs : Crash(m, i) \/ Evict(m, i)

Next ==
  \/ Controller
  \/ \E m \in Migrations : Cluster(m)
  \/ DeliverDatabase \/ DatabaseUp
  \/ Environment

Spec == Init /\ [][Next]_vars

\* The worker serves every queued item, informers deliver every event, the
\* cluster's controllers act, Pods run and a database that is down comes back.
\* Users and faults are free to do nothing.
Fairness ==
  /\ \A m \in Migrations :
       /\ WF_vars(Reconcile(m))
       /\ WF_vars(CollectConfigMap(m)) /\ WF_vars(CollectJob(m))
       /\ WF_vars(PodStart(m)) /\ WF_vars(JobCompletes(m))
       /\ WF_vars(JobExpires(m))
       /\ \A k \in Kinds : WF_vars(Deliver(m, k))
       /\ \A i \in Incs : WF_vars(Script(m, i)) /\ WF_vars(PodTerminate(m, i))
  /\ WF_vars(EnsureConfigMap \/ EnsureJob \/ JudgeJob \/ UpdateStatus)
  /\ WF_vars(DeliverDatabase) /\ WF_vars(DatabaseUp)

FairSpec == Spec /\ Fairness
-----------------------------------------------------------------------------
(***************************************************************************)
(* Properties.                                                             *)
(***************************************************************************)

\* What a status claims is backed by the database: an AppliedHash names a
\* recorded batch, and Ready is only reported together with an AppliedHash.
\* The claim travels from the INSERT of the script through the Pod, the Job's
\* status, the Job cache, the worker and UpdateStatus's copy of a whole status.
StatusSound ==
  \A m \in Migrations :
    LET s == mig[m].status
    IN  /\ s.applied /= NoHash => s.applied \in recorded
        /\ s.cond = "Ready" => s.applied /= NoHash

\* A recorded hash stands for a batch applied to the end, whatever crashes,
\* evictions and re-runs came before, as long as no name is reused: a Pod of a
\* deleted Migration's Job may mount the ConfigMap of the next one of its name.
RecordedIsComplete == \A b \in recorded : done[b] = N

\* No step executes a statement of a batch that is already recorded: the
\* script's check is enough, although it is not atomic with the batch (one
\* runner per batch; lost status updates and expired Jobs make it run again).
AppliedOnce ==
  [][\A m \in Migrations, i \in Incs :
       pod'[m][i].at > pod[m][i].at => pod[m][i].sql \notin recorded]_vars

\* The controller never forgets a Migration: one that has no AppliedHash is
\* queued, being reconciled, or has an event on its way that enqueues it.
\* The database is not watched, so this rests on every RequeueAfter and error.
NoLostWakeup ==
  \A m \in Migrations :
    mig[m].live /\ mig[m].status.applied = NoHash =>
      q[m] \/ (w.pc /= "idle" /\ w.m = m) \/ pend[m] /= {}

\* "Never adopt or overwrite another object's children": a ConfigMap or Job
\* changes hands only by being deleted, although ownership is checked on a
\* cached copy (names may be reused by a later incarnation of the Migration).
NeverAdopt ==
  [][\A m \in Migrations :
       /\ cm[m] /= Absent => cm'[m] \in {Absent, cm[m]}
       /\ job[m].inc /= Absent => job'[m].inc \in {Absent, job[m].inc}]_vars

\* A successful Job expires before the controller knows the verdict on it:
\* its cache, or the reconciliation in progress, still lacks the AppliedHash.
ExpiresUnseen(m) ==
  /\ job[m].phase = "complete" /\ ~job[m].failed
  /\ job'[m] = NoJob
  /\ mig[m].live
  /\ \/ cMig[m].status.applied = NoHash
     \/ w.pc /= "idle" /\ w.m = m /\ w.status.applied = NoHash

\* From some time on the TTL of 30 seconds is longer than the delivery of the
\* events and a reconciliation.
PromptController == <>[][\A m \in Migrations : ~ExpiresUnseen(m)]_vars

\* A Migration that is kept is eventually applied and stays so, after any
\* finite number of faults, Jobs that exhaust their backoff limit, stale
\* caches and conflicts, provided its batch can be executed again.
EventuallyApplied ==
  PromptController =>
    \A m \in Migrations :
      <>[]mig[m].live => <>[](mig[m].status.applied /= NoHash)

-----------------------------------------------------------------------------
(***************************************************************************)
(* What comments of the code say of it, and the code does not do.          *)
(***************************************************************************)

\* "Conditions include Ready and its current reconciliation reason": while the
\* database stays ready, DatabaseNotReady does not stay the reason.
ReasonIsCurrent ==
  \A m \in Migrations :
    []<>(~mig[m].live \/ mig[m].status.cond /= "DatabaseNotReady" \/ ~dbUp)

\* "Apply migration batch atomically": once no Pod executes it, a batch is in
\* the database as a whole or not at all.
AppliedAtomically ==
  \A b \in Batches :
    (\A m \in Migrations, i \in Incs :
       pod[m][i].sql = b => pod[m][i].pc \notin {"apply", "record"})
    => done[b] \in {0, N}

\* "AppliedHash is the SHA-256 hash of the batch that was successfully
\* applied": the batch in the spec of this very Migration.
AppliedHashIsOwn ==
  \A m \in Migrations :
    mig[m].status.applied \in {NoHash} \cup
      {BatchOf[m][i] : i \in {mig[m].inc} \ {Absent}}
=============================================================================
