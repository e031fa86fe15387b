--------------------------- MODULE MigrationProofs --------------------------
(***************************************************************************)
(* Proofs about Migration, for every set of Migrations, number of          *)
(* incarnations, assignment of batches, backoff limit and bound on faults. *)
(***************************************************************************)
EXTENDS Migration, TLAPS

\* What the types leave out: a live object has been created, and the worker is
\* busy with a Migration that was live when it was read.
WellFormed ==
  /\ \A m \in Migrations : mig[m].live => mig[m].inc \in Incs
  /\ \A m \in Migrations : cMig[m].live => cMig[m].inc \in Incs
  /\ w.pc /= "idle" => w.m \in Migrations /\ w.inc \in Incs

TypeInv == TypeOK /\ WellFormed

LEMMA InitTypes == Init => TypeInv
<1> SUFFICES ASSUME Init PROVE TypeInv
  OBVIOUS
<1>1. NoMig \in MigObject
  BY MigrationAssumption DEF NoMig, MigObject, NoStatus, Status, Owners, Hashes,
       Reasons, Absent
<1>2. NoJob \in JobObject
  BY MigrationAssumption DEF NoJob, NewJob, JobObject, Owners, Absent
<1>3. Idle \in Worker
  BY MigrationAssumption DEF Idle, Worker, NoStatus, Status, Owners, Hashes, Reasons,
       Absent
<1>4. \A m \in Migrations, i \in Incs : NoPod(m, i) \in PodState
  BY MigrationAssumption DEF NoPod, NewPod, PodState, Incs
<1>5. TypeOK
  BY <1>1, <1>2, <1>3, <1>4, MigrationAssumption
  DEF Init, TypeOK, Owners, Absent
<1>6. WellFormed
  BY DEF Init, WellFormed, NoMig, Idle
<1> QED
  BY <1>5, <1>6 DEF TypeInv

LEMMA ChangedTypes ==
  ASSUME TypeInv, NEW m \in Migrations, NEW k \in Kinds, Changed(m, k)
  PROVE  pend' \in [Migrations -> SUBSET Kinds]
BY DEF TypeInv, TypeOK, Changed

LEMMA FaultTypes ==
  ASSUME TypeInv, NEW f, Fault(f) \/ UNCHANGED budget
  PROVE  budget' \in Nat
BY DEF TypeInv, TypeOK, Fault

LEMMA UserTypes ==
  ASSUME TypeInv, NEW m \in Migrations,
         CreateMigration(m) \/ DeleteMigration(m) \/ CollectConfigMap(m) \/ CollectJob(m)
  PROVE  TypeInv'
<1>1. CASE CreateMigration(m)
  <2> DEFINE new == [inc |-> mig[m].inc + 1, live |-> TRUE, status |-> NoStatus]
  <2>1. mig[m] \in MigObject /\ mig[m].inc + 1 \in Incs
    BY <1>1, MigrationAssumption DEF TypeInv, TypeOK, CreateMigration, MigObject,
         Owners, Incs
  <2>2. new \in MigObject
    BY <2>1 DEF MigObject, NoStatus, Status, Hashes, Reasons, Owners, Incs
  <2>3. mig' = [mig EXCEPT ![m] = new]
    BY <1>1 DEF CreateMigration
  <2> HIDE DEF new
  <2>4. TypeOK'
    BY <1>1, <2>2, <2>3 DEF TypeInv, TypeOK, CreateMigration, Changed, caches, kube,
         db, Kinds
  <2>5. WellFormed'
    BY <1>1, <2>1, <2>3 DEF TypeInv, TypeOK, WellFormed, CreateMigration, caches, new
  <2> QED
    BY <2>4, <2>5 DEF TypeInv
<1>2. CASE DeleteMigration(m)
  <2> DEFINE gone == [mig[m] EXCEPT !.live = FALSE, !.status = NoStatus]
  <2>1. gone \in MigObject /\ ~gone.live
    <3>1. mig[m] \in MigObject /\ NoStatus \in Status
      BY DEF TypeInv, TypeOK, NoStatus, Status, Hashes, Reasons
    <3> QED
      BY <3>1 DEF MigObject
  <2>2. mig' = [mig EXCEPT ![m] = gone]
    BY <1>2 DEF DeleteMigration
  <2>3. budget' \in Nat /\ pend' \in [Migrations -> SUBSET Kinds]
    BY <1>2, FaultTypes, ChangedTypes DEF DeleteMigration, Kinds
  <2> HIDE DEF gone
  <2>4. TypeOK'
    BY <1>2, <2>1, <2>2, <2>3 DEF TypeInv, TypeOK, DeleteMigration, caches, kube, db
  <2>5. WellFormed'
    BY <1>2, <2>1, <2>2 DEF TypeInv, TypeOK, WellFormed, DeleteMigration, caches
  <2> QED
    BY <2>4, <2>5 DEF TypeInv
<1>3. CASE CollectConfigMap(m)
  BY <1>3, MigrationAssumption DEF TypeInv, TypeOK, WellFormed, CollectConfigMap,
       Changed, caches, kube, db, Owners, Absent, Kinds
<1>4. CASE CollectJob(m)
  BY <1>4, MigrationAssumption DEF TypeInv, TypeOK, WellFormed, CollectJob, Changed,
       caches, kube, db, JobObject, NoJob, NewJob, Owners, Absent, Kinds
<1> QED
  BY <1>1, <1>2, <1>3, <1>4

LEMMA InformerTypes ==
  ASSUME TypeInv,
         \/ \E m \in Migrations, k \in Kinds : Deliver(m, k)
         \/ DeliverDatabase \/ RestartOperator
  PROVE  TypeInv'
<1>1. ASSUME NEW m \in Migrations, NEW k \in Kinds, Deliver(m, k)
      PROVE  TypeInv'
  BY <1>1 DEF TypeInv, TypeOK, WellFormed, Deliver, api, kube, db
<1>2. CASE DeliverDatabase
  BY <1>2 DEF TypeInv, TypeOK, WellFormed, DeliverDatabase, api, kube, db
<1>3. CASE RestartOperator
  <2>1. Idle \in Worker
    BY MigrationAssumption DEF Idle, Worker, NoStatus, Status, Owners, Hashes,
         Reasons, Absent
  <2>2. \A m \in Migrations : mig[m].live \in BOOLEAN
    BY DEF TypeInv, TypeOK, MigObject
  <2> QED
    BY <1>3, <2>1, <2>2 DEF TypeInv, TypeOK, WellFormed, RestartOperator, Fault, api,
         kube, db, Idle
<1> QED
  BY <1>1, <1>2, <1>3

\* The status a failing reconciliation is about to publish is well typed.
LEMMA NotReadyTypes ==
  ASSUME NEW wk \in Worker, NEW reason \in Reasons
  PROVE  /\ NotReady(wk, reason) \in Worker
         /\ NotReady(wk, reason).pc /= "idle"
         /\ NotReady(wk, reason).m = wk.m
         /\ NotReady(wk, reason).inc = wk.inc
BY DEF NotReady, Worker, Status

LEMMA ReconcileTypes ==
  ASSUME TypeInv, NEW m \in Migrations, Reconcile(m)
  PROVE  TypeInv'
<1> DEFINE start == [pc |-> "configmap", m |-> m, inc |-> cMig[m].inc,
                     status |-> cMig[m].status, again |-> FALSE]
<1>1. start \in Worker
  BY DEF TypeInv, TypeOK, MigObject, Worker
<1>2. Idle \in Worker
  BY MigrationAssumption DEF Idle, Worker, NoStatus, Status, Owners, Hashes, Reasons,
       Absent
<1>3. w' \in {Idle, start, NotReady(start, "DatabaseNotReady")}
  BY DEF Reconcile
<1>4. w'.pc /= "idle" => cMig[m].live /\ w' /= Idle
  BY DEF Reconcile, Idle
<1>5. start.m = m /\ start.inc = cMig[m].inc
  OBVIOUS
<1> HIDE DEF start
<1>6. NotReady(start, "DatabaseNotReady") \in Worker
      /\ NotReady(start, "DatabaseNotReady").m = m
      /\ NotReady(start, "DatabaseNotReady").inc = cMig[m].inc
  BY <1>1, <1>5, NotReadyTypes DEF Reasons
<1>7. w' \in Worker /\ (w'.pc /= "idle" => w'.m \in Migrations /\ w'.inc \in Incs)
  BY <1>1, <1>2, <1>3, <1>4, <1>5, <1>6 DEF TypeInv, WellFormed
<1>8. TypeOK'
  BY <1>7 DEF TypeInv, TypeOK, Reconcile, api, caches, kube, db
<1>9. WellFormed'
  BY <1>7 DEF TypeInv, WellFormed, Reconcile, api, caches
<1> QED
  BY <1>8, <1>9 DEF TypeInv

LEMMA EnsureTypes ==
  ASSUME TypeInv, EnsureConfigMap \/ EnsureJob
  PROVE  TypeInv'
<1>1. Idle \in Worker
  BY MigrationAssumption DEF Idle, Worker, NoStatus, Status, Owners, Hashes, Reasons,
       Absent
<1>2. w \in Worker
  BY DEF TypeInv, TypeOK
<1>3. w.pc /= "idle" => w.m \in Migrations /\ w.inc \in Incs
  BY DEF TypeInv, WellFormed
<1>4. Incs \subseteq Owners
  BY MigrationAssumption DEF Incs, Owners
<1>5. CASE EnsureConfigMap
  <2>1. w.m \in Migrations /\ w.inc \in Incs
    BY <1>3, <1>5 DEF EnsureConfigMap
  <2>2. w' \in {NotReady(w, "ConfigMapFailed"), Idle, [w EXCEPT !.pc = "job"]}
    BY <1>5 DEF EnsureConfigMap
  <2>3. w' \in Worker /\ (w'.pc /= "idle" => w'.m \in Migrations /\ w'.inc \in Incs)
    BY <1>1, <1>2, <2>1, <2>2, NotReadyTypes DEF Worker, Idle, Reasons
  <2>4. Ensured(cCm[w.m], cm[w.m], w.inc) \in Owners
    BY <2>1, <1>4 DEF TypeInv, TypeOK, Ensured
  <2>5. cm' \in [Migrations -> Owners]
    <3>1. cm' = cm \/ cm' = [cm EXCEPT ![w.m] = Ensured(cCm[w.m], cm[w.m], w.inc)]
      BY <1>5 DEF EnsureConfigMap
    <3> QED
      BY <2>1, <2>4, <3>1 DEF TypeInv, TypeOK
  <2>6. pend' \in [Migrations -> SUBSET Kinds]
    <3>1. pend' = pend \/ Changed(w.m, "cm")
      BY <1>5 DEF EnsureConfigMap
    <3> QED
      BY <2>1, <3>1, ChangedTypes DEF TypeInv, TypeOK, Kinds
  <2>7. budget' \in Nat
    <3>1. Fault("api") \/ UNCHANGED budget
      BY <1>5 DEF EnsureConfigMap, Errs
    <3> QED
      BY <3>1, FaultTypes
  <2>8. TypeOK'
    BY <1>5, <2>3, <2>5, <2>6, <2>7 DEF TypeInv, TypeOK, EnsureConfigMap, caches,
         kube, db
  <2>9. WellFormed'
    BY <1>5, <2>3 DEF TypeInv, WellFormed, EnsureConfigMap, caches
  <2> QED
    BY <2>8, <2>9 DEF TypeInv
<1>6. CASE EnsureJob
  <2>1. w.m \in Migrations /\ w.inc \in Incs
    BY <1>3, <1>6 DEF EnsureJob
  <2>2. w' \in {NotReady(w, "JobFailed"), [w EXCEPT !.pc = "get"]}
    BY <1>6 DEF EnsureJob
  <2>3. w' \in Worker /\ (w'.pc /= "idle" => w'.m \in Migrations /\ w'.inc \in Incs)
    BY <1>2, <2>1, <2>2, NotReadyTypes DEF Worker, Reasons
  <2>4. NewJob(w.inc) \in JobObject
    BY <2>1, <1>4 DEF NewJob, JobObject
  <2>5. /\ job' \in [Migrations -> JobObject]
        /\ tries' \in [Migrations -> Nat]
        /\ pend' \in [Migrations -> SUBSET Kinds]
    <3>1. \/ job' = job /\ tries' = tries /\ pend' = pend
          \/ /\ job' = [job EXCEPT ![w.m] = NewJob(w.inc)]
             /\ tries' = [tries EXCEPT ![w.m] = 0]
             /\ Changed(w.m, "job")
      BY <1>6 DEF EnsureJob
    <3>2. pend' \in [Migrations -> SUBSET Kinds]
      BY <2>1, <3>1, ChangedTypes DEF TypeInv, TypeOK, Kinds
    <3>3. job' \in [Migrations -> JobObject]
      BY <2>1, <2>4, <3>1 DEF TypeInv, TypeOK
    <3>4. tries' \in [Migrations -> Nat]
      BY <2>1, <3>1 DEF TypeInv, TypeOK
    <3> QED
      BY <3>2, <3>3, <3>4
  <2>6. budget' \in Nat
    <3>1. Fault("api") \/ UNCHANGED budget
      BY <1>6 DEF EnsureJob, Errs
    <3> QED
      BY <3>1, FaultTypes
  <2>7. TypeOK'
    BY <1>6, <2>3, <2>5, <2>6 DEF TypeInv, TypeOK, EnsureJob, caches, db
  <2>8. WellFormed'
    BY <1>6, <2>3 DEF TypeInv, WellFormed, EnsureJob, caches
  <2> QED
    BY <2>7, <2>8 DEF TypeInv
<1> QED
  BY <1>5, <1>6

LEMMA VerdictTypes ==
  ASSUME TypeInv, JudgeJob \/ UpdateStatus
  PROVE  TypeInv'
<1>1. Idle \in Worker
  BY MigrationAssumption DEF Idle, Worker, NoStatus, Status, Owners, Hashes, Reasons,
       Absent
<1>2. w \in Worker
  BY DEF TypeInv, TypeOK
<1>3. w.m \in Migrations /\ w.inc \in Incs
  BY DEF TypeInv, WellFormed, JudgeJob, UpdateStatus
<1>4. CASE JudgeJob
  <2>1. BatchOf[w.m][w.inc] \in Hashes
    BY <1>3, MigrationAssumption DEF Incs, Hashes
  <2>2. Succeeded(w) \in Worker /\ Succeeded(w).m = w.m /\ Succeeded(w).inc = w.inc
    BY <1>2, <2>1 DEF Succeeded, Worker, Status, Reasons
  <2>3. \/ \E r \in Reasons : w' = NotReady(w, r)
        \/ w' = Succeeded(w)
    BY <1>4 DEF JudgeJob, Reasons
  <2>4. w' \in Worker /\ w'.m \in Migrations /\ w'.inc \in Incs
    BY <1>2, <1>3, <2>2, <2>3, NotReadyTypes
  <2>5. TypeOK'
    BY <1>4, <2>4 DEF TypeInv, TypeOK, JudgeJob, api, caches, kube, db
  <2>6. WellFormed'
    BY <1>4, <2>4 DEF TypeInv, WellFormed, JudgeJob, api, caches
  <2> QED
    BY <2>5, <2>6 DEF TypeInv
<1>5. CASE UpdateStatus
  <2>1. w' = Idle /\ \E b \in BOOLEAN : q' = [q EXCEPT ![w.m] = q[w.m] \/ b]
    BY <1>2, <1>5 DEF UpdateStatus, Return, Worker
  <2>2. q' \in [Migrations -> BOOLEAN]
    BY <1>3, <2>1 DEF TypeInv, TypeOK
  <2>3. budget' \in Nat
    <3>1. Fault("api") \/ UNCHANGED budget
      BY <1>5 DEF UpdateStatus, Errs
    <3> QED
      BY <3>1, FaultTypes
  <2>4. \/ mig' = mig /\ pend' = pend
        \/ mig' = [mig EXCEPT ![w.m].status = w.status] /\ Changed(w.m, "mig")
    BY <1>5 DEF UpdateStatus
  <2> DEFINE new == [mig[w.m] EXCEPT !.status = w.status]
  <2>5. new \in MigObject /\ new.live = mig[w.m].live /\ new.inc = mig[w.m].inc
    <3>1. mig[w.m] \in MigObject /\ w.status \in Status
      BY <1>2, <1>3 DEF TypeInv, TypeOK, Worker
    <3> QED
      BY <3>1 DEF MigObject
  <2>6. mig' = mig \/ mig' = [mig EXCEPT ![w.m] = new]
    BY <2>4
  <2> HIDE DEF new
  <2>7. mig' \in [Migrations -> MigObject]
    BY <1>3, <2>5, <2>6 DEF TypeInv, TypeOK
  <2>8. pend' \in [Migrations -> SUBSET Kinds]
    BY <1>3, <2>4, ChangedTypes DEF TypeInv, TypeOK, Kinds
  <2>9. \A m \in Migrations : mig'[m].live = mig[m].live /\ mig'[m].inc = mig[m].inc
    BY <1>3, <2>5, <2>6 DEF TypeInv, TypeOK
  <2>10. TypeOK'
    BY <1>1, <1>5, <2>1, <2>2, <2>3, <2>7, <2>8 DEF TypeInv, TypeOK, UpdateStatus,
         caches, kube, db
  <2>11. WellFormed'
    BY <1>5, <2>1, <2>9 DEF TypeInv, WellFormed, UpdateStatus, caches, Idle
  <2> QED
    BY <2>10, <2>11 DEF TypeInv
<1> QED
  BY <1>4, <1>5

\* A Pod that is started, restarted or removed is well typed.
LEMMA NewPodTypes ==
  ASSUME NEW pc \in {"none", "check"}, NEW b \in Batches
  PROVE  NewPod(pc, b) \in PodState
BY MigrationAssumption DEF NewPod, PodState

LEMMA PodUpdateTypes ==
  ASSUME TypeInv, NEW m \in Migrations, NEW i \in Incs, NEW p \in PodState,
         pod' = [pod EXCEPT ![m][i] = p]
  PROVE  pod' \in [Migrations -> [Incs -> PodState]]
BY DEF TypeInv, TypeOK

LEMMA AttemptTypes ==
  ASSUME TypeInv, NEW m \in Migrations, NEW i \in Incs, NEW next \in PodState,
         NEW evicted \in BOOLEAN, Attempt(m, i, next, evicted)
  PROVE  /\ pod' \in [Migrations -> [Incs -> PodState]]
         /\ tries' \in [Migrations -> Nat]
         /\ job' \in [Migrations -> JobObject]
         /\ pend' \in [Migrations -> SUBSET Kinds]
<1>1. NoPod(m, i) \in PodState
  BY NewPodTypes, MigrationAssumption DEF NoPod, Incs
<1>2. \E p \in PodState : pod' = [pod EXCEPT ![m][i] = p]
  BY <1>1 DEF Attempt
<1>3. pod' \in [Migrations -> [Incs -> PodState]]
  BY <1>2, PodUpdateTypes
<1>4. tries' = tries \/ tries' = [tries EXCEPT ![m] = tries[m] + 1]
  BY DEF Attempt
<1>5. tries' \in [Migrations -> Nat]
  BY <1>4 DEF TypeInv, TypeOK
<1>6. \/ job' = job /\ pend' = pend
      \/ /\ \E p \in {"failed", "active"} :
              job' = [job EXCEPT ![m] = [inc |-> i, failed |-> TRUE, phase |-> p]]
         /\ Changed(m, "job")
  BY DEF Attempt
<1>7. job' \in [Migrations -> JobObject]
  <2>1. ASSUME NEW p \in {"failed", "active"}
        PROVE  [inc |-> i, failed |-> TRUE, phase |-> p] \in JobObject
    BY MigrationAssumption DEF JobObject, Owners, Incs
  <2> QED
    BY <1>6, <2>1 DEF TypeInv, TypeOK
<1>8. pend' \in [Migrations -> SUBSET Kinds]
  BY <1>6, ChangedTypes DEF TypeInv, TypeOK, Kinds
<1> QED
  BY <1>3, <1>5, <1>7, <1>8

LEMMA ScriptTypes ==
  ASSUME TypeInv, NEW m \in Migrations, NEW i \in Incs, Script(m, i)
  PROVE  TypeInv'
<1>1. pod[m][i] \in PodState /\ BatchOf[m][i] \in Batches
  BY MigrationAssumption DEF TypeInv, TypeOK, Incs
<1>2. pod[m][i].sql \in Batches
  BY <1>1 DEF PodState
<1> DEFINE Shape == /\ pod' \in [Migrations -> [Incs -> PodState]]
                    /\ tries' \in [Migrations -> Nat]
                    /\ job' \in [Migrations -> JobObject]
                    /\ pend' \in [Migrations -> SUBSET Kinds]
                    /\ recorded' \subseteq Batches
                    /\ done' \in [Batches -> 0..N]
<1>3. ASSUME ScriptFails(m, i)
      PROVE  Shape
  <2>1. NewPod("check", pod[m][i].sql) \in PodState
    BY <1>2, NewPodTypes
  <2> QED
    BY <1>3, <2>1, AttemptTypes DEF ScriptFails, TypeInv, TypeOK
<1>4. ASSUME ScriptCheck(m, i)
      PROVE  Shape
  <2>1. PICK pc \in {"done", "apply"} :
          pod' = [pod EXCEPT ![m][i] = [pod[m][i] EXCEPT !.pc = pc]]
    BY <1>4 DEF ScriptCheck
  <2>2. [pod[m][i] EXCEPT !.pc = pc] \in PodState
    BY <1>1, <1>4 DEF PodState, ScriptCheck
  <2>3. pod' \in [Migrations -> [Incs -> PodState]]
    BY <2>1, <2>2, PodUpdateTypes
  <2> QED
    BY <1>4, <2>3 DEF ScriptCheck, TypeInv, TypeOK
<1>5. ASSUME ScriptApply(m, i)
      PROVE  Shape
  <2> DEFINE n == pod[m][i].at + 1
             b == pod[m][i].sql
             p == [pod[m][i] EXCEPT !.at = n, !.pc = After(n)]
  <2>1. CASE ScriptFails(m, i)
    BY <1>3, <2>1
  <2>2. CASE ~ScriptFails(m, i)
    <3>1. /\ done' = [done EXCEPT ![b] = IF n > done[b] THEN n ELSE done[b]]
          /\ pod' = [pod EXCEPT ![m][i] = p]
          /\ UNCHANGED <<job, pend, tries, recorded>>
      BY <1>5, <2>2 DEF ScriptApply
    <3>2. pod[m][i].at \in 0..N /\ pod[m][i].at < N
      BY <1>5, <1>1 DEF ScriptApply, PodState
    <3>3. n \in 0..N
      BY <3>2, MigrationAssumption
    <3>4. p \in PodState
      <4>1. After(n) \in {"apply", "record"} /\ (After(n) = "apply" => n < N)
        BY <3>3, MigrationAssumption DEF After
      <4>2. p.pc = After(n) /\ p.at = n /\ p.sql = b
        BY <1>1 DEF PodState
      <4>3. p \in [pc : {"none", "check", "apply", "record", "done"}, sql : Batches, at : 0..N]
        BY <1>1, <3>3, <4>1 DEF PodState
      <4> QED
        BY <4>1, <4>2, <4>3 DEF PodState
    <3>5. pod' \in [Migrations -> [Incs -> PodState]]
      BY <3>1, <3>4, PodUpdateTypes
    <3>6. done' \in [Batches -> 0..N]
      BY <1>2, <3>1, <3>3 DEF TypeInv, TypeOK
    <3> QED
      BY <3>1, <3>5, <3>6 DEF TypeInv, TypeOK
  <2> QED
    BY <2>1, <2>2
<1>6. ASSUME ScriptRecord(m, i)
      PROVE  Shape
  <2>1. CASE ScriptFails(m, i)
    BY <1>3, <2>1
  <2>2. CASE ~ScriptFails(m, i)
    <3> DEFINE p == [pod[m][i] EXCEPT !.pc = "done"]
    <3>1. /\ recorded' = recorded \cup {BatchOf[m][i]}
          /\ pod' = [pod EXCEPT ![m][i] = p]
          /\ UNCHANGED <<job, pend, tries, done>>
      BY <1>6, <2>2 DEF ScriptRecord
    <3>2. p \in PodState
      BY <1>1 DEF PodState
    <3>3. pod' \in [Migrations -> [Incs -> PodState]]
      BY <3>1, <3>2, PodUpdateTypes
    <3> QED
      BY <1>1, <3>1, <3>3 DEF TypeInv, TypeOK
  <2> QED
    BY <2>1, <2>2
<1>7. Shape
  BY <1>4, <1>5, <1>6 DEF Script
<1>8. TypeOK'
  BY <1>7 DEF Script, TypeInv, TypeOK, caches
<1>9. WellFormed'
  BY DEF Script, TypeInv, WellFormed, caches
<1> QED
  BY <1>8, <1>9 DEF TypeInv

LEMMA JobTypes ==
  ASSUME TypeInv, NEW m \in Migrations,
         PodStart(m) \/ JobCompletes(m) \/ JobExpires(m)
  PROVE  TypeInv'
<1>1. CASE PodStart(m)
  <2> DEFINE i == job[m].inc
             p == NewPod("check", BatchOf[m][cm[m]])
  <2>1. i \in Incs /\ cm[m] \in Incs
    BY <1>1, MigrationAssumption DEF PodStart, TypeInv, TypeOK, JobObject, Owners,
         Incs, Absent
  <2>2. BatchOf[m][cm[m]] \in Batches
    BY <2>1, MigrationAssumption DEF Incs
  <2>3. p \in PodState
    BY <2>2, NewPodTypes
  <2>4. pod' = [pod EXCEPT ![m][i] = p]
    BY <1>1 DEF PodStart
  <2>5. pod' \in [Migrations -> [Incs -> PodState]]
    BY <2>1, <2>3, <2>4, PodUpdateTypes
  <2> QED
    BY <1>1, <2>5 DEF TypeInv, TypeOK, WellFormed, PodStart, api, caches, db
<1>2. CASE JobCompletes(m)
  <2> DEFINE i == job[m].inc
             j == [job[m] EXCEPT !.phase = "complete"]
  <2>1. i \in Incs
    BY <1>2, MigrationAssumption DEF JobCompletes, TypeInv, TypeOK, JobObject, Owners,
         Incs, Absent
  <2>2. NoPod(m, i) \in PodState
    BY <2>1, NewPodTypes, MigrationAssumption DEF NoPod, Incs
  <2>3. pod' = [pod EXCEPT ![m][i] = NoPod(m, i)]
    BY <1>2 DEF JobCompletes
  <2>4. pod' \in [Migrations -> [Incs -> PodState]]
    BY <2>1, <2>2, <2>3, PodUpdateTypes
  <2>5. j \in JobObject
    <3>1. job[m] \in JobObject
      BY DEF TypeInv, TypeOK
    <3> QED
      BY <3>1 DEF JobObject
  <2>6. job' = [job EXCEPT ![m] = j]
    BY <1>2 DEF JobCompletes
  <2>7. job' \in [Migrations -> JobObject] /\ pend' \in [Migrations -> SUBSET Kinds]
    BY <1>2, <2>5, <2>6, ChangedTypes DEF JobCompletes, TypeInv, TypeOK, Kinds
  <2> QED
    BY <1>2, <2>4, <2>7 DEF TypeInv, TypeOK, WellFormed, JobCompletes, caches, db
<1>3. CASE JobExpires(m)
  BY <1>3, MigrationAssumption DEF TypeInv, TypeOK, WellFormed, JobExpires, Changed,
       caches, kube, db, JobObject, NoJob, NewJob, Owners, Absent, Kinds
<1> QED
  BY <1>1, <1>2, <1>3

LEMMA FaultyPodTypes ==
  ASSUME TypeInv, NEW m \in Migrations, NEW i \in Incs,
         Crash(m, i) \/ Evict(m, i) \/ PodTerminate(m, i)
  PROVE  TypeInv'
<1>1. NoPod(m, i) \in PodState
  BY NewPodTypes, MigrationAssumption DEF NoPod, Incs
<1>2. NewPod("check", pod[m][i].sql) \in PodState
  <2>1. pod[m][i].sql \in Batches
    BY DEF TypeInv, TypeOK, PodState
  <2> QED
    BY <2>1, NewPodTypes
<1>3. CASE Crash(m, i)
  <2>1. budget' \in Nat
    BY <1>3, FaultTypes DEF Crash
  <2> QED
    BY <1>2, <1>3, <2>1, AttemptTypes
    DEF Crash, ScriptFails, TypeInv, TypeOK, WellFormed, caches
<1>4. CASE Evict(m, i)
  <2>1. budget' \in Nat
    BY <1>4, FaultTypes DEF Evict
  <2> QED
    BY <1>1, <1>4, <2>1, AttemptTypes
    DEF Evict, TypeInv, TypeOK, WellFormed, caches, db
<1>5. CASE PodTerminate(m, i)
  <2>1. pod' \in [Migrations -> [Incs -> PodState]]
    BY <1>1, <1>5, PodUpdateTypes DEF PodTerminate
  <2> QED
    BY <1>5, <2>1 DEF PodTerminate, TypeInv, TypeOK, WellFormed, api, caches, db
<1> QED
  BY <1>3, <1>4, <1>5

LEMMA DatabaseTypes ==
  ASSUME TypeInv, DatabaseDown \/ DatabaseUp
  PROVE  TypeInv'
BY FaultTypes DEF DatabaseDown, DatabaseUp, TypeInv, TypeOK, WellFormed, api, caches,
     kube

LEMMA NextTypes == TypeInv /\ [Next]_vars => TypeInv'
<1> SUFFICES ASSUME TypeInv, [Next]_vars
             PROVE  TypeInv'
  OBVIOUS
<1>1. CASE Controller
  BY <1>1, ReconcileTypes, EnsureTypes, VerdictTypes DEF Controller
<1>2. ASSUME NEW m \in Migrations, Cluster(m)
      PROVE  TypeInv'
  BY <1>2, UserTypes, JobTypes, InformerTypes, ScriptTypes, FaultyPodTypes DEF Cluster
<1>3. CASE DeliverDatabase \/ DatabaseUp
  BY <1>3, InformerTypes, DatabaseTypes
<1>4. CASE Environment
  BY <1>4, InformerTypes, DatabaseTypes, UserTypes, FaultyPodTypes DEF Environment
<1>5. CASE UNCHANGED vars
  BY <1>5 DEF TypeInv, TypeOK, WellFormed, vars, api, caches, kube, db
<1> QED
  BY <1>1, <1>2, <1>3, <1>4, <1>5 DEF Next

\* Every variable keeps its type, whatever the interleaving of user,
\* controller, cluster and faults.
THEOREM TypeCorrect == Spec => []TypeOK
<1>1. TypeInv => TypeOK
  BY DEF TypeInv
<1> QED
  BY <1>1, InitTypes, NextTypes, PTL DEF Spec

-----------------------------------------------------------------------------
(***************************************************************************)
(* StatusSound.  It is not inductive: a status is written from what the    *)
(* worker holds, which comes from a cached Migration or from a cached Job, *)
(* whose status comes from a Pod, which knows what the database answered.  *)
(* SoundInv makes the same claim of every copy on that way.  The verdict   *)
(* on a Job is turned into the hash of the Migration being reconciled, so  *)
(* SoundInv also says that the Job judged is that Migration's: ensureJob   *)
(* established it and only the worker creates Jobs.                        *)
(***************************************************************************)

SoundStatus(s) ==
  /\ s.applied /= NoHash => s.applied \in recorded
  /\ s.cond = "Ready" => s.applied /= NoHash

SoundJob(m, j) ==
  j.phase = "complete" => j.inc \in Incs /\ BatchOf[m][j.inc] \in recorded

SoundCopies ==
  /\ \A m \in Migrations : SoundStatus(mig[m].status) /\ SoundStatus(cMig[m].status)
  /\ SoundStatus(w.status)
  /\ \A m \in Migrations : SoundJob(m, job[m]) /\ SoundJob(m, cJob[m])
  /\ \A m \in Migrations, i \in Incs :
       pod[m][i].pc = "done" => BatchOf[m][i] \in recorded

FreshJobCache == \A m \in Migrations : "job" \notin pend[m] => cJob[m] = job[m]

OwnJob ==
  w.pc = "get" => /\ job[w.m].inc \in {w.inc, Absent}
                  /\ cJob[w.m].inc \in {w.inc, Absent}

SoundInv == SoundCopies /\ FreshJobCache /\ OwnJob

LEMMA InitSound == Init => SoundInv
BY MigrationAssumption
DEF Init, SoundInv, SoundCopies, SoundStatus, SoundJob, FreshJobCache, OwnJob, NoMig, NoJob, NewJob,
    NoStatus, Idle, NoPod, NewPod, Incs

\* The invariant survives a step that leaves alone what it is about.
LEMMA SoundFrame ==
  ASSUME SoundInv, recorded \subseteq recorded',
         UNCHANGED <<mig, cMig, job, cJob, w, pend, pod>>
  PROVE  SoundInv'
BY DEF SoundInv, SoundCopies, SoundStatus, SoundJob, FreshJobCache, OwnJob

LEMMA UserSound ==
  ASSUME TypeInv, SoundInv, NEW m \in Migrations,
         CreateMigration(m) \/ DeleteMigration(m) \/ CollectConfigMap(m) \/ CollectJob(m)
  PROVE  SoundInv'
<1>1. SoundStatus(NoStatus)
  BY DEF SoundStatus, NoStatus
<1>2. CASE CreateMigration(m) \/ DeleteMigration(m)
  <2>1. \A n \in Migrations : mig'[n].status \in {mig[n].status, NoStatus}
    <3>1. mig[m] \in MigObject
      BY DEF TypeInv, TypeOK
    <3>2. \E o : o.status = NoStatus /\ mig' = [mig EXCEPT ![m] = o]
      <4>1. [mig[m] EXCEPT !.live = FALSE, !.status = NoStatus].status = NoStatus
        BY <3>1 DEF MigObject
      <4>2. [inc |-> mig[m].inc + 1, live |-> TRUE, status |-> NoStatus].status = NoStatus
        OBVIOUS
      <4> QED
        BY <1>2, <4>1, <4>2 DEF CreateMigration, DeleteMigration
    <3> QED
      BY <3>2 DEF TypeInv, TypeOK
  <2>2. UNCHANGED <<cMig, job, cJob, w, pod, recorded>>
    BY <1>2 DEF CreateMigration, DeleteMigration, caches, kube, db
  <2>3. \A n \in Migrations : pend[n] \subseteq pend'[n]
    BY <1>2 DEF CreateMigration, DeleteMigration, Changed, TypeInv, TypeOK
  <2> QED
    BY <1>1, <2>1, <2>2, <2>3 DEF SoundInv, SoundCopies, SoundStatus, SoundJob,
         FreshJobCache, OwnJob
<1>3. CASE CollectConfigMap(m)
  <2>1. UNCHANGED <<mig, cMig, job, cJob, w, pod, recorded>>
    BY <1>3 DEF CollectConfigMap, caches, kube, db
  <2>2. \A n \in Migrations : pend[n] \subseteq pend'[n]
    BY <1>3 DEF CollectConfigMap, Changed, TypeInv, TypeOK
  <2> QED
    BY <2>1, <2>2 DEF SoundInv, SoundCopies, SoundStatus, SoundJob, FreshJobCache,
         OwnJob
<1>4. CASE CollectJob(m)
  <2>1. UNCHANGED <<mig, cMig, cJob, w, pod, recorded>> /\ job' = [job EXCEPT ![m] = NoJob]
    BY <1>4 DEF CollectJob, caches, kube, db
  <2>2. pend' = [pend EXCEPT ![m] = pend[m] \cup {"job"}]
    BY <1>4 DEF CollectJob, Changed
  <2> QED
    BY <2>1, <2>2 DEF SoundInv, SoundCopies, SoundStatus, SoundJob, FreshJobCache,
         OwnJob,
                      TypeInv, TypeOK, NoJob, NewJob
<1> QED
  BY <1>2, <1>3, <1>4

LEMMA InformerSound ==
  ASSUME TypeInv, SoundInv,
         \/ \E m \in Migrations, k \in Kinds : Deliver(m, k)
         \/ DeliverDatabase \/ RestartOperator
  PROVE  SoundInv'
<1>1. ASSUME NEW m \in Migrations, NEW k \in Kinds, Deliver(m, k)
      PROVE  SoundInv'
  <2>1. UNCHANGED <<mig, job, w, pod, recorded>>
    BY <1>1 DEF Deliver, api, kube, db
  <2>2. \A n \in Migrations : cMig'[n] \in {cMig[n], mig[n]} /\ cJob'[n] \in {cJob[n], job[n]}
    BY <1>1 DEF Deliver, TypeInv, TypeOK
  <2>3. FreshJobCache'
    BY <1>1, <2>1 DEF Deliver, SoundInv, FreshJobCache, TypeInv, TypeOK, Kinds
  <2>4. OwnJob'
    BY <2>1, <2>2 DEF SoundInv, OwnJob, TypeInv, WellFormed
  <2> QED
    BY <2>1, <2>2, <2>3, <2>4 DEF SoundInv, SoundCopies, SoundStatus, SoundJob
<1>2. CASE DeliverDatabase
  BY <1>2, SoundFrame DEF DeliverDatabase, api, kube, db
<1>3. CASE RestartOperator
  BY <1>3 DEF RestartOperator, SoundInv, SoundCopies, SoundStatus, SoundJob,
       FreshJobCache, OwnJob,
              api, kube, db, Idle, NoStatus
<1> QED
  BY <1>1, <1>2, <1>3

LEMMA NotReadySound ==
  ASSUME NEW wk \in Worker, NEW reason \in Reasons \ {"Ready"}, SoundStatus(wk.status)
  PROVE  SoundStatus(NotReady(wk, reason).status) /\ NotReady(wk, reason).pc = "status"
BY DEF NotReady, Worker, Status, SoundStatus

LEMMA ReconcileSound ==
  ASSUME TypeInv, SoundInv, NEW m \in Migrations, Reconcile(m)
  PROVE  SoundInv'
<1> DEFINE start == [pc |-> "configmap", m |-> m, inc |-> cMig[m].inc,
                     status |-> cMig[m].status, again |-> FALSE]
<1>1. start \in Worker /\ start.status = cMig[m].status /\ start.pc = "configmap"
  BY DEF TypeInv, TypeOK, MigObject, Worker
<1>2. w' \in {Idle, start, NotReady(start, "DatabaseNotReady")}
  BY DEF Reconcile
<1>3. UNCHANGED <<mig, cMig, job, cJob, pend, pod, recorded>>
  BY DEF Reconcile, api, caches, kube, db
<1> HIDE DEF start
<1>4. SoundStatus(w'.status) /\ w'.pc /= "get"
  BY <1>1, <1>2, NotReadySound DEF SoundInv, SoundCopies, SoundStatus, Idle, NoStatus,
       Reasons
<1> QED
  BY <1>3, <1>4 DEF SoundInv, SoundCopies, SoundStatus, SoundJob, FreshJobCache, OwnJob

LEMMA EnsureSound ==
  ASSUME TypeInv, SoundInv, EnsureConfigMap \/ EnsureJob
  PROVE  SoundInv'
<1>1. w \in Worker /\ SoundStatus(w.status) /\ w.m \in Migrations
  BY DEF TypeInv, TypeOK, WellFormed, SoundInv, SoundCopies, EnsureConfigMap, EnsureJob
<1>2. CASE EnsureConfigMap
  <2>1. w' \in {NotReady(w, "ConfigMapFailed"), Idle, [w EXCEPT !.pc = "job"]}
    BY <1>2 DEF EnsureConfigMap
  <2>2. SoundStatus(w'.status) /\ w'.pc /= "get"
    BY <1>1, <2>1, NotReadySound DEF SoundStatus, Idle, NoStatus, Reasons, Worker
  <2>3. UNCHANGED <<mig, cMig, job, cJob, pod, recorded>>
    BY <1>2 DEF EnsureConfigMap, caches, kube, db
  <2>4. \A n \in Migrations : pend[n] \subseteq pend'[n]
    <3>1. pend' = pend \/ Changed(w.m, "cm")
      BY <1>2 DEF EnsureConfigMap
    <3> QED
      BY <3>1 DEF Changed, TypeInv, TypeOK
  <2> QED
    BY <2>2, <2>3, <2>4 DEF SoundInv, SoundCopies, SoundStatus, SoundJob,
         FreshJobCache, OwnJob
<1>3. CASE EnsureJob
  <2>1. UNCHANGED <<mig, cMig, cJob, pod, recorded>>
    BY <1>3 DEF EnsureJob, caches, db
  <2>2. CASE w' = NotReady(w, "JobFailed") /\ UNCHANGED <<job, pend>>
    <3>1. SoundStatus(w'.status) /\ w'.pc /= "get"
      BY <1>1, <2>2, NotReadySound DEF Reasons
    <3> QED
      BY <2>1, <2>2, <3>1 DEF SoundInv, SoundCopies, SoundStatus, SoundJob,
           FreshJobCache, OwnJob
  <2>3. CASE /\ EnsureCreates(cJob[w.m].inc, job[w.m].inc)
             /\ w' = [w EXCEPT !.pc = "get"]
             /\ job' = [job EXCEPT ![w.m] = NewJob(w.inc)]
             /\ Changed(w.m, "job")
    <3>1. w'.m = w.m /\ w'.inc = w.inc /\ w'.status = w.status
      BY <1>1, <2>3 DEF Worker
    <3>2. cJob[w.m].inc = Absent
      BY <2>3 DEF EnsureCreates
    <3>3. job'[w.m].inc = w.inc /\ job'[w.m].phase = "active"
      BY <1>1, <2>3 DEF NewJob, TypeInv, TypeOK
    <3>4. \A n \in Migrations \ {w.m} : job'[n] = job[n] /\ pend'[n] = pend[n]
      BY <2>3 DEF TypeInv, TypeOK, Changed
    <3>5. "job" \in pend'[w.m]
      BY <1>1, <2>3 DEF TypeInv, TypeOK, Changed
    <3>6. SoundCopies'
      BY <2>1, <3>1, <3>3, <3>4 DEF SoundInv, SoundCopies, SoundStatus, SoundJob
    <3>7. FreshJobCache'
      BY <2>1, <3>4, <3>5 DEF SoundInv, FreshJobCache
    <3>8. OwnJob'
      BY <2>1, <3>1, <3>2, <3>3 DEF OwnJob
    <3> QED
      BY <3>6, <3>7, <3>8 DEF SoundInv
  <2>4. CASE /\ ~EnsureFails(cJob[w.m].inc, job[w.m].inc, w.inc, TRUE, "job" \in pend[w.m])
             /\ ~EnsureCreates(cJob[w.m].inc, job[w.m].inc)
             /\ w' = [w EXCEPT !.pc = "get"]
             /\ UNCHANGED <<job, pend>>
    <3>1. w'.m = w.m /\ w'.inc = w.inc /\ w'.status = w.status
      BY <1>1, <2>4 DEF Worker
    <3>2. cJob[w.m].inc = w.inc /\ "job" \notin pend[w.m]
      BY <2>4 DEF EnsureFails, EnsureCreates
    <3>3. job[w.m] = cJob[w.m]
      BY <1>1, <3>2 DEF SoundInv, FreshJobCache
    <3> QED
      BY <2>1, <2>4, <3>1, <3>2, <3>3
      DEF SoundInv, SoundCopies, SoundStatus, SoundJob, FreshJobCache, OwnJob
  <2> QED
    BY <1>3, <2>2, <2>3, <2>4 DEF EnsureJob
<1> QED
  BY <1>2, <1>3

LEMMA VerdictSound ==
  ASSUME TypeInv, SoundInv, JudgeJob \/ UpdateStatus
  PROVE  SoundInv'
<1>1. /\ w \in Worker /\ SoundStatus(w.status)
      /\ w.m \in Migrations /\ w.inc \in Incs
  BY DEF TypeInv, TypeOK, WellFormed, SoundInv, SoundCopies, JudgeJob, UpdateStatus
<1>2. CASE JudgeJob
  <2>1. UNCHANGED <<mig, cMig, job, cJob, pend, pod, recorded>>
    BY <1>2 DEF JudgeJob, api, caches, kube, db
  <2>2. CASE \E r \in Reasons \ {"Ready"} : w' = NotReady(w, r)
    BY <1>1, <2>1, <2>2, NotReadySound
    DEF SoundInv, SoundCopies, SoundStatus, SoundJob, FreshJobCache, OwnJob
  <2>3. CASE w' = Succeeded(w) /\ HasSucceeded(cJob[w.m]) /\ cJob[w.m].inc /= Absent
    <3>1. cJob[w.m].inc = w.inc
      BY <1>2, <2>3 DEF SoundInv, OwnJob, JudgeJob
    <3>2. BatchOf[w.m][w.inc] \in recorded
      BY <1>1, <2>3, <3>1 DEF SoundInv, SoundCopies, SoundJob, HasSucceeded
    <3>3. BatchOf[w.m][w.inc] /= NoHash
      BY <1>1, MigrationAssumption DEF Incs
    <3>4. w'.status.applied = BatchOf[w.m][w.inc] /\ w'.pc = "status"
      BY <1>1, <2>3 DEF Succeeded, Worker
    <3>5. SoundStatus(w'.status)
      BY <3>2, <3>3, <3>4 DEF SoundStatus
    <3> QED
      BY <2>1, <3>4, <3>5 DEF SoundInv, SoundCopies, SoundStatus, SoundJob,
           FreshJobCache, OwnJob
  <2> QED
    BY <1>2, <2>2, <2>3 DEF JudgeJob, Reasons
<1>3. CASE UpdateStatus
  <2>1. w' = Idle /\ UNCHANGED <<cMig, job, cJob, pod, recorded>>
    BY <1>3 DEF UpdateStatus, Return, caches, kube, db
  <2>2. \/ mig' = mig /\ pend' = pend
        \/ mig' = [mig EXCEPT ![w.m].status = w.status] /\ Changed(w.m, "mig")
    BY <1>3 DEF UpdateStatus
  <2>3. \A n \in Migrations : mig'[n].status \in {mig[n].status, w.status}
    <3>1. mig[w.m] \in MigObject
      BY <1>1 DEF TypeInv, TypeOK
    <3>2. [mig[w.m] EXCEPT !.status = w.status].status = w.status
      BY <3>1 DEF MigObject
    <3>3. mig' = mig \/ mig' = [mig EXCEPT ![w.m] = [mig[w.m] EXCEPT !.status = w.status]]
      BY <2>2
    <3> QED
      BY <3>2, <3>3 DEF TypeInv, TypeOK
  <2>4. \A n \in Migrations : pend[n] \subseteq pend'[n]
    BY <2>2 DEF TypeInv, TypeOK, Changed
  <2>5. SoundStatus(Idle.status) /\ Idle.pc = "idle"
    BY DEF SoundStatus, Idle, NoStatus
  <2> QED
    BY <2>1, <2>3, <2>4, <2>5 DEF SoundInv, SoundCopies, SoundStatus, SoundJob,
         FreshJobCache, OwnJob
<1> QED
  BY <1>2, <1>3

\* A failed attempt completes no Job, and the Pod it leaves is not done.
LEMMA AttemptSound ==
  ASSUME TypeInv, SoundInv, NEW m \in Migrations, NEW i \in Incs, NEW next \in PodState,
         next.pc /= "done", NEW evicted \in BOOLEAN, Attempt(m, i, next, evicted),
         UNCHANGED <<mig, cMig, cJob, w, recorded>>
  PROVE  SoundInv'
<1>1. \E p : p.pc /= "done" /\ pod' = [pod EXCEPT ![m][i] = p]
  BY DEF Attempt, NoPod, NewPod
<1>2. \A n \in Migrations, j \in Incs : pod'[n][j].pc = "done" => pod[n][j].pc = "done"
  BY <1>1 DEF TypeInv, TypeOK
<1>3. \/ job' = job /\ pend' = pend
      \/ /\ job[m].inc = i
         /\ \E p \in {"failed", "active"} :
              job' = [job EXCEPT ![m] = [inc |-> i, failed |-> TRUE, phase |-> p]]
         /\ Changed(m, "job")
  BY DEF Attempt
<1>4. \A n \in Migrations :
        /\ job'[n].inc = job[n].inc
        /\ job'[n].phase = "complete" => job[n].phase = "complete"
        /\ "job" \notin pend'[n] => "job" \notin pend[n] /\ job'[n] = job[n]
  BY <1>3 DEF TypeInv, TypeOK, Changed
<1>5. SoundCopies'
  BY <1>2, <1>4 DEF SoundInv, SoundCopies, SoundStatus, SoundJob
<1>6. FreshJobCache'
  BY <1>4 DEF SoundInv, FreshJobCache
<1>7. OwnJob'
  BY <1>4 DEF SoundInv, OwnJob, TypeInv, WellFormed
<1> QED
  BY <1>5, <1>6, <1>7 DEF SoundInv

LEMMA ScriptSound ==
  ASSUME TypeInv, SoundInv, NEW m \in Migrations, NEW i \in Incs, Script(m, i)
  PROVE  SoundInv'
<1>1. UNCHANGED <<mig, cMig, cJob, w>>
  BY DEF Script, caches
<1>2. pod[m][i] \in PodState /\ pod[m][i].sql \in Batches
  BY DEF TypeInv, TypeOK, PodState
<1>3. CASE ScriptFails(m, i)
  <2>1. NewPod("check", pod[m][i].sql) \in PodState /\ NewPod("check", pod[m][i].sql).pc /= "done"
    BY <1>2, NewPodTypes DEF NewPod
  <2> QED
    BY <1>1, <1>3, <2>1, AttemptSound DEF ScriptFails
<1>4. CASE ~ScriptFails(m, i)
  <2>1. UNCHANGED <<job, pend>>
    BY <1>4 DEF Script, ScriptCheck, ScriptApply, ScriptRecord
  <2>2. recorded \subseteq recorded'
    BY <1>4 DEF Script, ScriptCheck, ScriptApply, ScriptRecord
  <2>3. PICK p : /\ pod' = [pod EXCEPT ![m][i] = p]
                 /\ p.pc = "done" => BatchOf[m][i] \in recorded'
    <3>1. CASE ScriptCheck(m, i)
      <4> DEFINE p == [pod[m][i] EXCEPT !.pc = IF AlreadyApplied(m, i) THEN "done" ELSE "apply"]
      <4>1. pod' = [pod EXCEPT ![m][i] = p] /\ recorded' = recorded
        BY <3>1 DEF ScriptCheck
      <4>2. p.pc = IF AlreadyApplied(m, i) THEN "done" ELSE "apply"
        BY <1>2 DEF PodState
      <4>3. p.pc = "done" => BatchOf[m][i] \in recorded'
        BY <4>1, <4>2 DEF AlreadyApplied
      <4> HIDE DEF p
      <4> QED
        BY <4>1, <4>3
    <3>2. CASE ScriptApply(m, i)
      <4> DEFINE p == [pod[m][i] EXCEPT !.at = pod[m][i].at + 1,
                                        !.pc = After(pod[m][i].at + 1)]
      <4>1. pod' = [pod EXCEPT ![m][i] = p]
        BY <1>4, <3>2 DEF ScriptApply
      <4>2. p.pc /= "done"
        BY <1>2 DEF PodState, After
      <4> QED
        BY <4>1, <4>2
    <3>3. CASE ScriptRecord(m, i)
      BY <1>4, <3>3 DEF ScriptRecord
    <3> QED
      BY <3>1, <3>2, <3>3 DEF Script
  <2>4. \A n \in Migrations, j \in Incs :
          pod'[n][j].pc = "done" => BatchOf[n][j] \in recorded'
    BY <2>2, <2>3 DEF SoundInv, SoundCopies, TypeInv, TypeOK
  <2> QED
    BY <1>1, <2>1, <2>2, <2>4
    DEF SoundInv, SoundCopies, SoundStatus, SoundJob, FreshJobCache, OwnJob
<1> QED
  BY <1>3, <1>4

LEMMA JobSound ==
  ASSUME TypeInv, SoundInv, NEW m \in Migrations,
         PodStart(m) \/ JobCompletes(m) \/ JobExpires(m)
  PROVE  SoundInv'
<1>1. UNCHANGED <<mig, cMig, cJob, w, recorded>>
  BY DEF PodStart, JobCompletes, JobExpires, api, caches, kube, db
<1>2. CASE PodStart(m)
  <2>1. \E p : p.pc = "check" /\ pod' = [pod EXCEPT ![m][job[m].inc] = p]
    BY <1>2 DEF PodStart, NewPod
  <2>2. \A n \in Migrations, j \in Incs : pod'[n][j].pc = "done" => pod[n][j].pc = "done"
    BY <2>1 DEF TypeInv, TypeOK
  <2>3. UNCHANGED <<job, pend>>
    BY <1>2 DEF PodStart, api
  <2> QED
    BY <1>1, <2>2, <2>3
    DEF SoundInv, SoundCopies, SoundStatus, SoundJob, FreshJobCache, OwnJob
<1>3. CASE JobCompletes(m)
  <2> DEFINE i == job[m].inc
             j == [job[m] EXCEPT !.phase = "complete"]
  <2>1. i \in Incs
    BY <1>3, MigrationAssumption DEF JobCompletes, TypeInv, TypeOK, JobObject, Owners,
         Incs, Absent
  <2>2. BatchOf[m][i] \in recorded
    BY <1>3, <2>1 DEF JobCompletes, SoundInv, SoundCopies
  <2>3. j.inc = i
    BY DEF TypeInv, TypeOK, JobObject
  <2>4. job' = [job EXCEPT ![m] = j]
    BY <1>3 DEF JobCompletes
  <2>5. \E p : p.pc = "none" /\ pod' = [pod EXCEPT ![m][i] = p]
    BY <1>3 DEF JobCompletes, NoPod, NewPod
  <2>6. \A n \in Migrations, k \in Incs : pod'[n][k].pc = "done" => pod[n][k].pc = "done"
    BY <2>5 DEF TypeInv, TypeOK
  <2>7. \A n \in Migrations :
          /\ job'[n].inc = job[n].inc
          /\ "job" \notin pend'[n] => "job" \notin pend[n] /\ job'[n] = job[n]
    BY <1>3, <2>3, <2>4 DEF JobCompletes, Changed, TypeInv, TypeOK
  <2>8. \A n \in Migrations : SoundJob(n, job[n]) => SoundJob(n, job'[n])
    BY <2>1, <2>2, <2>3, <2>4 DEF SoundJob, TypeInv, TypeOK
  <2>9. SoundCopies'
    BY <1>1, <2>6, <2>8 DEF SoundInv, SoundCopies, SoundStatus, SoundJob
  <2>10. FreshJobCache' /\ OwnJob'
    BY <1>1, <2>7 DEF SoundInv, FreshJobCache, OwnJob, TypeInv, WellFormed
  <2> QED
    BY <2>9, <2>10 DEF SoundInv
<1>4. CASE JobExpires(m)
  <2>1. pod' = pod /\ job' = [job EXCEPT ![m] = NoJob]
    BY <1>4 DEF JobExpires, kube
  <2>2. pend' = [pend EXCEPT ![m] = pend[m] \cup {"job"}]
    BY <1>4 DEF JobExpires, Changed
  <2> QED
    BY <1>1, <2>1, <2>2
    DEF SoundInv, SoundCopies, SoundStatus, SoundJob, FreshJobCache, OwnJob,
        TypeInv, TypeOK, NoJob, NewJob
<1> QED
  BY <1>2, <1>3, <1>4

LEMMA FaultyPodSound ==
  ASSUME TypeInv, SoundInv, NEW m \in Migrations, NEW i \in Incs,
         Crash(m, i) \/ Evict(m, i) \/ PodTerminate(m, i)
  PROVE  SoundInv'
<1>1. UNCHANGED <<mig, cMig, cJob, w, recorded>>
  BY DEF Crash, ScriptFails, Evict, PodTerminate, api, caches, db
<1>2. NoPod(m, i) \in PodState /\ NoPod(m, i).pc /= "done"
  BY NewPodTypes, MigrationAssumption DEF NoPod, NewPod, Incs
<1>3. NewPod("check", pod[m][i].sql) \in PodState /\ NewPod("check", pod[m][i].sql).pc /= "done"
  <2>1. pod[m][i].sql \in Batches
    BY DEF TypeInv, TypeOK, PodState
  <2> QED
    BY <2>1, NewPodTypes DEF NewPod
<1>4. CASE Crash(m, i)
  BY <1>1, <1>3, <1>4, AttemptSound DEF Crash, ScriptFails
<1>5. CASE Evict(m, i)
  BY <1>1, <1>2, <1>5, AttemptSound DEF Evict
<1>6. CASE PodTerminate(m, i)
  <2>1. pod' = [pod EXCEPT ![m][i] = NoPod(m, i)] /\ UNCHANGED <<job, pend>>
    BY <1>6 DEF PodTerminate, api
  <2>2. \A n \in Migrations, j \in Incs : pod'[n][j].pc = "done" => pod[n][j].pc = "done"
    BY <1>2, <2>1 DEF TypeInv, TypeOK
  <2> QED
    BY <1>1, <2>1, <2>2
    DEF SoundInv, SoundCopies, SoundStatus, SoundJob, FreshJobCache, OwnJob
<1> QED
  BY <1>4, <1>5, <1>6

LEMMA NextSound == TypeInv /\ SoundInv /\ [Next]_vars => SoundInv'
<1> SUFFICES ASSUME TypeInv, SoundInv, [Next]_vars
             PROVE  SoundInv'
  OBVIOUS
<1>1. CASE Controller
  BY <1>1, ReconcileSound, EnsureSound, VerdictSound DEF Controller
<1>2. ASSUME NEW m \in Migrations, Cluster(m)
      PROVE  SoundInv'
  BY <1>2, UserSound, JobSound, InformerSound, ScriptSound, FaultyPodSound DEF Cluster
<1>3. CASE DeliverDatabase
  BY <1>3, InformerSound
<1>4. CASE DatabaseUp \/ DatabaseDown
  BY <1>4, SoundFrame DEF DatabaseUp, DatabaseDown, api, caches, kube
<1>5. CASE Environment
  BY <1>4, <1>5, InformerSound, UserSound, FaultyPodSound DEF Environment
<1>6. CASE UNCHANGED vars
  BY <1>6, SoundFrame DEF vars, api, caches, kube, db
<1> QED
  BY <1>1, <1>2, <1>3, <1>4, <1>5, <1>6 DEF Next

\* An AppliedHash in a status is the hash of a batch recorded in the database,
\* and Ready is reported together with one: whatever the cache shows, whatever
\* crashes, and however often names are reused.
THEOREM StatusIsSound == Spec => []StatusSound
<1>1. SoundInv => StatusSound
  BY DEF SoundInv, SoundCopies, SoundStatus, StatusSound
<1> QED
  BY <1>1, InitTypes, NextTypes, InitSound, NextSound, PTL DEF Spec

-----------------------------------------------------------------------------
(***************************************************************************)
(* NeverAdopt.  No invariant but the types is needed: EnsureResource       *)
(* creates only where the API server has nothing, and what it takes for    *)
(* the owner's it does not write to, so that a stale cache cannot make a   *)
(* child change hands.                                                     *)
(***************************************************************************)

ChildKept(m) ==
  /\ cm[m] /= Absent => cm'[m] \in {Absent, cm[m]}
  /\ job[m].inc /= Absent => job'[m].inc \in {Absent, job[m].inc}

LEMMA EnsureKeeps ==
  ASSUME TypeInv, EnsureConfigMap \/ EnsureJob, NEW n \in Migrations
  PROVE  ChildKept(n)
<1>1. w.m \in Migrations
  BY DEF TypeInv, WellFormed, EnsureConfigMap, EnsureJob
<1>2. /\ cCm[w.m] \in Nat /\ cm[w.m] \in Nat
      /\ cJob[w.m].inc \in Nat /\ job[w.m].inc \in Nat
  BY <1>1 DEF TypeInv, TypeOK, Owners, JobObject
<1>3. CASE EnsureConfigMap
  <2>1. job' = job
    BY <1>3 DEF EnsureConfigMap
  <2>2. \/ cm' = cm
        \/ /\ ~EnsureFails(cCm[w.m], cm[w.m], w.inc, FALSE, "cm" \in pend[w.m])
           /\ cm' = [cm EXCEPT ![w.m] = Ensured(cCm[w.m], cm[w.m], w.inc)]
    BY <1>3 DEF EnsureConfigMap
  <2>3. cm[w.m] /= Absent => cm'[w.m] = cm[w.m]
    BY <1>1, <1>2, <2>2 DEF EnsureFails, Ensured, TypeInv, TypeOK
  <2>4. n /= w.m => cm'[n] = cm[n]
    BY <2>2 DEF TypeInv, TypeOK
  <2> QED
    BY <2>1, <2>3, <2>4 DEF ChildKept
<1>4. CASE EnsureJob
  <2>1. cm' = cm
    BY <1>4 DEF EnsureJob
  <2>2. \/ job' = job
        \/ /\ EnsureCreates(cJob[w.m].inc, job[w.m].inc)
           /\ job' = [job EXCEPT ![w.m] = NewJob(w.inc)]
    BY <1>4 DEF EnsureJob
  <2>3. job[w.m].inc /= Absent => job' = job
    BY <2>2 DEF EnsureCreates
  <2>4. n /= w.m => job'[n] = job[n]
    BY <2>2 DEF TypeInv, TypeOK
  <2> QED
    BY <2>1, <2>3, <2>4 DEF ChildKept
<1> QED
  BY <1>3, <1>4

\* Everybody else deletes a child or leaves its owner alone.
LEMMA AttemptKeeps ==
  ASSUME TypeInv, NEW m \in Migrations, NEW i \in Incs, NEW next, NEW evicted \in BOOLEAN,
         Attempt(m, i, next, evicted), UNCHANGED cm, NEW n \in Migrations
  PROVE  ChildKept(n)
<1>1. \/ job' = job
      \/ /\ job[m].inc = i
         /\ \E p : job' = [job EXCEPT ![m] = [inc |-> i, failed |-> TRUE, phase |-> p]]
  BY DEF Attempt
<1>2. job'[n].inc = job[n].inc
  BY <1>1 DEF TypeInv, TypeOK
<1> QED
  BY <1>2 DEF ChildKept

LEMMA NextKeeps == TypeInv /\ [Next]_vars => [\A m \in Migrations : ChildKept(m)]_vars
<1> SUFFICES ASSUME TypeInv, [Next]_vars, NEW n \in Migrations
             PROVE  ChildKept(n)
  BY DEF vars
<1>1. CASE UNCHANGED <<cm, job>>
  BY <1>1 DEF ChildKept
<1>2. CASE EnsureConfigMap \/ EnsureJob
  BY <1>2, EnsureKeeps
<1>3. ASSUME NEW m \in Migrations, CollectConfigMap(m) \/ CollectJob(m) \/ JobExpires(m)
      PROVE  ChildKept(n)
  BY <1>3 DEF CollectConfigMap, CollectJob, JobExpires, ChildKept, TypeInv, TypeOK,
       NoJob, NewJob
<1>4. ASSUME NEW m \in Migrations, JobCompletes(m)
      PROVE  ChildKept(n)
  <2>1. job'[n].inc = job[n].inc /\ cm' = cm
    BY <1>4 DEF JobCompletes, TypeInv, TypeOK, JobObject
  <2> QED
    BY <2>1 DEF ChildKept
<1>5. ASSUME NEW m \in Migrations, NEW i \in Incs,
             Script(m, i) \/ Crash(m, i) \/ Evict(m, i)
      PROVE  ChildKept(n)
  <2>1. cm' = cm
    BY <1>5 DEF Script, Crash, Evict
  <2>2. \/ UNCHANGED job
        \/ \E p : Attempt(m, i, p, FALSE) \/ Attempt(m, i, p, TRUE)
    <3>1. Script(m, i) => ScriptFails(m, i) \/ UNCHANGED job
      BY DEF Script, ScriptCheck, ScriptApply, ScriptRecord
    <3>2. Crash(m, i) => ScriptFails(m, i)
      BY DEF Crash
    <3> QED
      BY <1>5, <3>1, <3>2 DEF ScriptFails, Evict
  <2> QED
    BY <1>1, <2>1, <2>2, AttemptKeeps
<1> QED
  BY <1>1, <1>2, <1>3, <1>4, <1>5
  DEF Next, Controller, Cluster, Environment, Reconcile, JudgeJob, UpdateStatus,
      PodStart, Deliver, PodTerminate, DeliverDatabase, RestartOperator, DatabaseUp,
      DatabaseDown, CreateMigration, DeleteMigration, vars, api

\* A ConfigMap or a Job changes hands only by being deleted, although ownership
\* is checked on a cached copy and names are reused.
THEOREM NeverAdopts == Spec => NeverAdopt
<1>1. TypeInv /\ [Next]_vars => [\A m \in Migrations : ChildKept(m)]_vars
  BY NextKeeps
<1> QED
  BY <1>1, InitTypes, NextTypes, PTL DEF Spec, NeverAdopt, ChildKept

-----------------------------------------------------------------------------
(***************************************************************************)
(* NoLostWakeup.  The one reconciliation that ends without asking for      *)
(* another one and without writing is the early return for a batch that is *)
(* applied, and what it goes by is the status it read some steps ago.  So  *)
(* WakeInv says that this status is the cache's unless an event has queued *)
(* the Migration since, and that the cache is the API server's unless an   *)
(* event is on its way.                                                    *)
(***************************************************************************)

FreshMigCache == \A m \in Migrations : "mig" \notin pend[m] => cMig[m] = mig[m]

ReadsLatest == w.pc = "configmap" /\ ~q[w.m] => w.status = cMig[w.m].status

Awake(m) ==
  mig[m].live /\ mig[m].status.applied = NoHash =>
    q[m] \/ (w.pc /= "idle" /\ w.m = m) \/ pend[m] /= {}

WakeInv == FreshMigCache /\ ReadsLatest /\ \A m \in Migrations : Awake(m)

LEMMA InitWake == Init => WakeInv
BY DEF Init, WakeInv, FreshMigCache, ReadsLatest, Awake, NoMig, Idle

\* Steps that concern the Migration neither at the API server nor in the
\* controller.
LEMMA WakeFrame ==
  ASSUME WakeInv, UNCHANGED <<mig, cMig, q, w>>,
         \A n \in Migrations : pend[n] \subseteq pend'[n]
  PROVE  WakeInv'
BY DEF WakeInv, FreshMigCache, ReadsLatest, Awake

\* Steps of the worker on the Migration it holds that end further on in
\* Reconcile.
LEMMA WakeGoesOn ==
  ASSUME WakeInv, UNCHANGED <<mig, cMig, q>>,
         \A n \in Migrations : pend[n] \subseteq pend'[n],
         w'.pc \notin {"idle", "configmap"}, w'.m = w.m
  PROVE  WakeInv'
BY DEF WakeInv, FreshMigCache, ReadsLatest, Awake

LEMMA ChangedGrows ==
  ASSUME TypeInv, NEW m, NEW k, Changed(m, k) \/ UNCHANGED pend
  PROVE  \A n \in Migrations : pend[n] \subseteq pend'[n]
BY DEF Changed, TypeInv, TypeOK

LEMMA UserWake ==
  ASSUME TypeInv, WakeInv, NEW m \in Migrations, CreateMigration(m) \/ DeleteMigration(m)
  PROVE  WakeInv'
<1>1. \A n \in Migrations \ {m} : mig'[n] = mig[n]
  BY DEF CreateMigration, DeleteMigration, TypeInv, TypeOK
<1>2. "mig" \in pend'[m] /\ \A n \in Migrations : pend[n] \subseteq pend'[n]
  BY DEF CreateMigration, DeleteMigration, Changed, TypeInv, TypeOK
<1>3. UNCHANGED <<cMig, q, w>>
  BY DEF CreateMigration, DeleteMigration, caches
<1> QED
  BY <1>1, <1>2, <1>3 DEF WakeInv, FreshMigCache, ReadsLatest, Awake

LEMMA InformerWake ==
  ASSUME TypeInv, WakeInv,
         (\E m \in Migrations, k \in Kinds : Deliver(m, k)) \/ RestartOperator
  PROVE  WakeInv'
<1>1. ASSUME NEW m \in Migrations, NEW k \in Kinds, Deliver(m, k)
      PROVE  WakeInv'
  <2>1. UNCHANGED <<mig, w>>
    BY <1>1 DEF Deliver, api
  <2>2. q' = [q EXCEPT ![m] = TRUE] /\ pend' = [pend EXCEPT ![m] = pend[m] \ {k}]
    BY <1>1 DEF Deliver
  <2>3. cMig' = IF k = "mig" THEN [cMig EXCEPT ![m] = mig[m]] ELSE cMig
    BY <1>1 DEF Deliver
  <2>4. FreshMigCache'
    BY <2>1, <2>2, <2>3 DEF WakeInv, FreshMigCache, TypeInv, TypeOK
  <2>5. ReadsLatest'
    <3>1. w.pc = "configmap" => w.m \in Migrations
      BY DEF TypeInv, WellFormed
    <3>2. w.pc = "configmap" /\ ~q'[w.m] => ~q[w.m] /\ cMig'[w.m] = cMig[w.m]
      BY <2>2, <2>3, <3>1 DEF TypeInv, TypeOK
    <3> QED
      BY <2>1, <3>2 DEF WakeInv, ReadsLatest
  <2>6. \A n \in Migrations : Awake(n)'
    BY <2>1, <2>2 DEF WakeInv, Awake, TypeInv, TypeOK
  <2> QED
    BY <2>4, <2>5, <2>6 DEF WakeInv
<1>2. CASE RestartOperator
  BY <1>2 DEF RestartOperator, api, Idle, WakeInv, FreshMigCache, ReadsLatest, Awake
<1> QED
  BY <1>1, <1>2

LEMMA ReconcileWake ==
  ASSUME TypeInv, WakeInv, NEW m \in Migrations, Reconcile(m)
  PROVE  WakeInv'
<1> DEFINE start == [pc |-> "configmap", m |-> m, inc |-> cMig[m].inc,
                     status |-> cMig[m].status, again |-> FALSE]
<1>1. start \in Worker /\ start.m = m /\ start.status = cMig[m].status
  BY DEF TypeInv, TypeOK, MigObject, Worker
<1>2. w' = IF ~cMig[m].live THEN Idle
           ELSE IF cDb THEN start ELSE NotReady(start, "DatabaseNotReady")
  BY DEF Reconcile
<1>3. /\ UNCHANGED <<mig, cMig, pend>> /\ w.pc = "idle"
      /\ \A n \in Migrations \ {m} : q'[n] = q[n]
  BY DEF Reconcile, api, caches, TypeInv, TypeOK
<1> HIDE DEF start
<1>4. cMig[m].live => w'.pc /= "idle" /\ w'.m = m
  BY <1>1, <1>2, NotReadyTypes DEF Reasons, start
<1>5. ReadsLatest'
  <2>1. NotReady(start, "DatabaseNotReady").pc = "status"
    BY <1>1 DEF NotReady, Worker
  <2> QED
    BY <1>1, <1>2, <1>3, <2>1 DEF ReadsLatest, Idle
<1>6. Awake(m)'
  <2>1. pend[m] = {} => cMig[m] = mig[m]
    BY DEF WakeInv, FreshMigCache
  <2> QED
    BY <1>3, <1>4, <2>1 DEF Awake
<1>7. \A n \in Migrations \ {m} : Awake(n)'
  BY <1>3 DEF WakeInv, Awake
<1> QED
  BY <1>3, <1>5, <1>6, <1>7 DEF WakeInv, FreshMigCache

LEMMA EnsureWake ==
  ASSUME TypeInv, WakeInv, EnsureConfigMap \/ EnsureJob
  PROVE  WakeInv'
<1>1. w \in Worker /\ w.m \in Migrations /\ UNCHANGED <<mig, cMig, q>>
  BY DEF TypeInv, TypeOK, WellFormed, EnsureConfigMap, EnsureJob, caches
<1>2. \A n \in Migrations : pend[n] \subseteq pend'[n]
  BY ChangedGrows DEF EnsureConfigMap, EnsureJob
<1>3. \A r \in Reasons : NotReady(w, r).pc = "status" /\ NotReady(w, r).m = w.m
  BY <1>1 DEF NotReady, Worker
<1>4. CASE w' = Idle /\ w.pc = "configmap" /\ w.status.applied /= NoHash
  <2>1. PICK m \in Migrations : m = w.m
    BY <1>1
  <2>2. Awake(m)'
    <3>1. q[m] \/ pend[m] /= {} \/ mig[m].status.applied /= NoHash
      BY <1>4, <2>1 DEF WakeInv, ReadsLatest, FreshMigCache
    <3>2. pend[m] \subseteq pend'[m]
      BY <1>2
    <3> QED
      BY <1>1, <3>1, <3>2 DEF Awake
  <2>3. \A n \in Migrations \ {m} : Awake(n)'
    BY <1>1, <1>2, <1>4, <2>1 DEF WakeInv, Awake
  <2> QED
    BY <1>1, <1>2, <1>4, <2>2, <2>3 DEF WakeInv, FreshMigCache, ReadsLatest, Idle
<1>5. CASE w' \in {[w EXCEPT !.pc = "job"], [w EXCEPT !.pc = "get"],
                   NotReady(w, "ConfigMapFailed"), NotReady(w, "JobFailed")}
  <2>1. w'.pc \notin {"idle", "configmap"} /\ w'.m = w.m
    BY <1>1, <1>3, <1>5 DEF Worker, Reasons
  <2> QED
    BY <1>1, <1>2, <2>1, WakeGoesOn
<1> QED
  BY <1>4, <1>5 DEF EnsureConfigMap, EnsureJob

LEMMA VerdictWake ==
  ASSUME TypeInv, WakeInv, JudgeJob \/ UpdateStatus
  PROVE  WakeInv'
<1>1. w \in Worker /\ w.m \in Migrations
  BY DEF TypeInv, TypeOK, WellFormed, JudgeJob, UpdateStatus
<1>2. CASE JudgeJob
  <2>1. w' = Succeeded(w) \/ \E r \in Reasons : w' = NotReady(w, r)
    BY <1>2 DEF JudgeJob, Reasons
  <2>2. w'.pc = "status" /\ w'.m = w.m
    BY <1>1, <2>1 DEF Succeeded, NotReady, Worker
  <2>3. UNCHANGED <<mig, cMig, q, pend>>
    BY <1>2 DEF JudgeJob, api, caches
  <2> QED
    BY <2>2, <2>3, WakeGoesOn
<1>3. CASE UpdateStatus
  <2>1. w' = Idle /\ UNCHANGED cMig
    BY <1>3 DEF UpdateStatus, Return, caches
  <2>2. \A n \in Migrations : q[n] => q'[n]
    BY <1>3 DEF UpdateStatus, Return, TypeInv, TypeOK
  <2>3. PICK m \in Migrations : m = w.m
    BY <1>1
  <2>4. \/ UNCHANGED <<mig, pend>> /\ q'[m]
        \/ mig' = [mig EXCEPT ![m].status = w.status] /\ Changed(m, "mig")
    BY <1>3, <2>3 DEF UpdateStatus, Return, TypeInv, TypeOK
  <2>5. \A n \in Migrations \ {m} : mig'[n] = mig[n]
    BY <2>4 DEF TypeInv, TypeOK
  <2>6. \/ UNCHANGED <<mig, pend>> /\ q'[m]
        \/ "mig" \in pend'[m]
    BY <2>4 DEF Changed, TypeInv, TypeOK
  <2>7. \A n \in Migrations : pend[n] \subseteq pend'[n]
    BY <2>4, ChangedGrows
  <2>8. Awake(m)'
    BY <2>6 DEF Awake
  <2>9. \A n \in Migrations \ {m} : Awake(n)'
    BY <2>2, <2>3, <2>5, <2>7 DEF WakeInv, Awake
  <2>10. FreshMigCache'
    BY <2>1, <2>5, <2>6, <2>7 DEF WakeInv, FreshMigCache
  <2> QED
    BY <2>1, <2>8, <2>9, <2>10 DEF WakeInv, ReadsLatest, Idle
<1> QED
  BY <1>2, <1>3

LEMMA ClusterWake ==
  ASSUME TypeInv, WakeInv,
         \/ \E m \in Migrations :
              \/ CollectConfigMap(m) \/ CollectJob(m)
              \/ PodStart(m) \/ JobCompletes(m) \/ JobExpires(m)
              \/ \E i \in Incs : \/ Script(m, i) \/ PodTerminate(m, i)
                                 \/ Crash(m, i) \/ Evict(m, i)
         \/ DeliverDatabase \/ DatabaseUp \/ DatabaseDown
  PROVE  WakeInv'
<1>1. UNCHANGED <<mig, cMig, q, w>>
  BY DEF CollectConfigMap, CollectJob, PodStart, JobCompletes, JobExpires, Script,
         PodTerminate, Crash, Evict, DeliverDatabase, DatabaseUp, DatabaseDown, api, caches
<1>2. ASSUME NEW m, NEW i, Script(m, i) \/ Crash(m, i) \/ Evict(m, i)
      PROVE  Changed(m, "job") \/ UNCHANGED pend
  <2>1. ScriptFails(m, i) => Changed(m, "job") \/ UNCHANGED pend
    BY DEF ScriptFails, Attempt
  <2>2. Evict(m, i) => Changed(m, "job") \/ UNCHANGED pend
    BY DEF Evict, Attempt
  <2>3. Script(m, i) => ScriptFails(m, i) \/ UNCHANGED pend
    BY DEF Script, ScriptCheck, ScriptApply, ScriptRecord
  <2> QED
    BY <1>2, <2>1, <2>2, <2>3 DEF Crash
<1>3. (\E m : Changed(m, "cm") \/ Changed(m, "job")) \/ UNCHANGED pend
  BY <1>2 DEF CollectConfigMap, CollectJob, PodStart, JobCompletes, JobExpires,
              PodTerminate, DeliverDatabase, DatabaseUp, DatabaseDown
<1> QED
  BY <1>1, <1>3, ChangedGrows, WakeFrame

LEMMA NextWake == TypeInv /\ WakeInv /\ [Next]_vars => WakeInv'
<1> SUFFICES ASSUME TypeInv, WakeInv, [Next]_vars
             PROVE  WakeInv'
  OBVIOUS
<1>1. CASE Controller
  BY <1>1, ReconcileWake, EnsureWake, VerdictWake DEF Controller
<1>2. ASSUME NEW m \in Migrations, Cluster(m)
      PROVE  WakeInv'
  BY <1>2, ClusterWake, InformerWake DEF Cluster
<1>3. CASE DeliverDatabase \/ DatabaseUp
  BY <1>3, ClusterWake
<1>4. CASE Environment
  BY <1>4, ClusterWake, InformerWake, UserWake DEF Environment
<1>5. CASE UNCHANGED vars
  BY <1>5, WakeFrame DEF vars, api, caches
<1> QED
  BY <1>1, <1>2, <1>3, <1>4, <1>5 DEF Next

\* A Migration that is not applied is queued, being reconciled, or has an event
\* on its way, whatever fails and however far behind the caches are.
THEOREM NoWakeupIsLost == Spec => []NoLostWakeup
<1>1. WakeInv => NoLostWakeup
  BY DEF WakeInv, Awake, NoLostWakeup
<1> QED
  BY <1>1, InitTypes, NextTypes, InitWake, NextWake, PTL DEF Spec

-----------------------------------------------------------------------------
(***************************************************************************)
(* RecordedIsComplete, for Migrations that hold the same batch whenever    *)
(* they are created again, as those of the Projects do: their batch is a   *)
(* constant of the operator.  CompleteInv follows a Pod through the script *)
(* and says what the database holds at each place, however the statements  *)
(* of several Pods on the same batch interleave.                           *)
(***************************************************************************)

NamesKeepBatches == \A m \in Migrations, i, j \in Incs : BatchOf[m][i] = BatchOf[m][j]

\* The batch a Pod executes is the one it will record, the statements it has
\* executed are in the database, and it records when it has executed them all.
PodComplete(m, i) ==
  LET p == pod[m][i]
  IN  /\ p.sql = BatchOf[m][i]
      /\ p.at <= done[p.sql]
      /\ p.pc = "record" => p.at = N

CompleteInv ==
  /\ \A m \in Migrations, i \in Incs : PodComplete(m, i)
  /\ \A b \in recorded : done[b] = N

LEMMA InitComplete == Init => CompleteInv
<1> SUFFICES ASSUME Init PROVE CompleteInv
  OBVIOUS
<1>1. ASSUME NEW m \in Migrations, NEW i \in Incs
      PROVE  PodComplete(m, i)
  <2>1. pod[m][i] = NoPod(m, i) /\ BatchOf[m][i] \in Batches
    BY MigrationAssumption DEF Init, Incs
  <2>2. done[BatchOf[m][i]] = 0
    BY <2>1 DEF Init
  <2> QED
    BY <2>1, <2>2 DEF PodComplete, NoPod, NewPod
<1> QED
  BY <1>1 DEF Init, CompleteInv

\* A Pod that is started, restarted or removed has executed nothing.
LEMMA NewPodComplete ==
  ASSUME TypeInv, CompleteInv, NEW m \in Migrations, NEW i \in Incs,
         NEW pc \in {"none", "check"},
         pod' = [pod EXCEPT ![m][i] = NewPod(pc, BatchOf[m][i])],
         UNCHANGED <<recorded, done>>
  PROVE  CompleteInv'
<1>1. BatchOf[m][i] \in Batches
  BY MigrationAssumption DEF Incs
<1>2. 0 <= done[BatchOf[m][i]]
  BY <1>1, MigrationAssumption DEF TypeInv, TypeOK
<1>3. PodComplete(m, i)'
  BY <1>2 DEF TypeInv, TypeOK, PodComplete, NewPod
<1>4. \A n \in Migrations, j \in Incs : n /= m \/ j /= i => PodComplete(n, j)'
  BY DEF TypeInv, TypeOK, CompleteInv, PodComplete
<1> QED
  BY <1>3, <1>4 DEF CompleteInv

LEMMA AttemptComplete ==
  ASSUME TypeInv, CompleteInv, NEW m \in Migrations, NEW i \in Incs, NEW evicted,
         \/ Attempt(m, i, NewPod("check", pod[m][i].sql), evicted)
         \/ Attempt(m, i, NoPod(m, i), evicted),
         UNCHANGED <<recorded, done>>
  PROVE  CompleteInv'
<1>1. pod[m][i].sql = BatchOf[m][i]
  BY DEF CompleteInv, PodComplete
<1>2. \/ pod' = [pod EXCEPT ![m][i] = NewPod("check", BatchOf[m][i])]
      \/ pod' = [pod EXCEPT ![m][i] = NewPod("none", BatchOf[m][i])]
  BY <1>1 DEF Attempt, NoPod
<1> QED
  BY <1>2, NewPodComplete

LEMMA ScriptComplete ==
  ASSUME TypeInv, CompleteInv, NEW m \in Migrations, NEW i \in Incs, Script(m, i)
  PROVE  CompleteInv'
<1> DEFINE b == BatchOf[m][i]
<1>1. /\ pod[m][i] \in PodState /\ pod[m][i].sql = b /\ b \in Batches
      /\ done \in [Batches -> 0..N] /\ N \in Nat /\ recorded \subseteq Batches
      /\ pod \in [Migrations -> [Incs -> PodState]]
  BY MigrationAssumption DEF TypeInv, TypeOK, CompleteInv, PodComplete, Incs
<1>2. CASE ScriptFails(m, i)
  BY <1>2, AttemptComplete DEF ScriptFails
<1>3. CASE ScriptCheck(m, i)
  <2>1. PICK pc \in {"done", "apply"} :
          pod' = [pod EXCEPT ![m][i] = [pod[m][i] EXCEPT !.pc = pc]]
    BY <1>3 DEF ScriptCheck
  <2>2. /\ pod'[m][i].pc /= "record" /\ pod'[m][i].sql = b
        /\ pod'[m][i].at = pod[m][i].at
    BY <1>1, <2>1 DEF PodState
  <2>3. UNCHANGED <<recorded, done>>
    BY <1>3 DEF ScriptCheck
  <2>4. PodComplete(m, i)'
    BY <1>1, <2>2, <2>3 DEF CompleteInv, PodComplete
  <2>5. \A n \in Migrations, j \in Incs : n /= m \/ j /= i => PodComplete(n, j)'
    BY <1>1, <2>1, <2>3 DEF CompleteInv, PodComplete
  <2> QED
    BY <2>3, <2>4, <2>5 DEF CompleteInv
<1>4. CASE ScriptApply(m, i) /\ ~ScriptFails(m, i)
  <2> DEFINE n == pod[m][i].at + 1
             p == [pod[m][i] EXCEPT !.at = n, !.pc = After(n)]
  <2>1. /\ done' = [done EXCEPT ![b] = IF n > done[b] THEN n ELSE done[b]]
        /\ pod' = [pod EXCEPT ![m][i] = p]
        /\ UNCHANGED recorded
    BY <1>1, <1>4 DEF ScriptApply
  <2>2. n \in 0..N
    BY <1>1, <1>4 DEF ScriptApply, PodState
  <2>3. p.sql = b /\ p.at = n /\ p.pc = After(n)
    BY <1>1 DEF PodState
  <2>4. pod'[m][i] = p
    BY <1>1, <2>1
  <2> HIDE DEF n, p, b
  <2>5. \A c \in Batches : done[c] <= done'[c] /\ done'[c] <= N
    BY <1>1, <2>1, <2>2
  <2>6. n <= done'[b]
    BY <1>1, <2>1, <2>2
  <2>7. p.pc = "record" => n = N
    BY <2>3 DEF After
  <2>8. PodComplete(m, i)'
    BY <2>3, <2>4, <2>6, <2>7 DEF PodComplete, b
  <2>9. ASSUME NEW k \in Migrations, NEW j \in Incs, k /= m \/ j /= i
        PROVE  PodComplete(k, j)'
    <3>1. pod'[k][j] = pod[k][j] /\ pod[k][j] \in PodState
      BY <1>1, <2>1, <2>9
    <3>2. pod[k][j].at \in Nat /\ pod[k][j].sql \in Batches
      BY <1>1, <3>1 DEF PodState
    <3>3. PodComplete(k, j)
      BY DEF CompleteInv
    <3>4. done[pod[k][j].sql] \in Nat /\ done'[pod[k][j].sql] \in Nat
      BY <1>1, <2>1, <2>2, <3>2
    <3>5. pod[k][j].at <= done'[pod[k][j].sql]
      BY <2>5, <3>2, <3>3, <3>4 DEF PodComplete
    <3> QED
      BY <3>1, <3>3, <3>5 DEF PodComplete
  <2>10. ASSUME NEW c \in recorded
         PROVE  done'[c] = N
    <3>1. c \in Batches /\ done[c] = N
      BY <1>1 DEF CompleteInv
    <3>2. done'[c] \in 0..N
      BY <1>1, <2>1, <2>2, <3>1
    <3> QED
      BY <1>1, <2>5, <3>1, <3>2
  <2> QED
    BY <2>1, <2>8, <2>9, <2>10 DEF CompleteInv
<1>5. CASE ScriptRecord(m, i) /\ ~ScriptFails(m, i)
  <2>1. /\ recorded' = recorded \cup {b}
        /\ pod' = [pod EXCEPT ![m][i].pc = "done"]
        /\ UNCHANGED done
        /\ pod[m][i].pc = "record"
    BY <1>5 DEF ScriptRecord
  <2>2. done[b] = N
    <3>1. N <= done[b]
      <4>1. PodComplete(m, i)
        BY DEF CompleteInv
      <4> QED
        BY <1>1, <2>1, <4>1 DEF PodComplete
    <3>2. done[b] \in Nat /\ done[b] <= N /\ N \in Nat
      BY <1>1
    <3> HIDE DEF b
    <3> QED
      BY <3>1, <3>2
  <2>3. PodComplete(m, i)'
    BY <1>1, <2>1 DEF CompleteInv, PodComplete, PodState
  <2>4. \A k \in Migrations, j \in Incs : k /= m \/ j /= i => PodComplete(k, j)'
    BY <1>1, <2>1 DEF CompleteInv, PodComplete
  <2> QED
    BY <2>1, <2>2, <2>3, <2>4 DEF CompleteInv
<1> QED
  BY <1>2, <1>3, <1>4, <1>5 DEF Script

LEMMA PodsComplete ==
  ASSUME TypeInv, CompleteInv, NamesKeepBatches, NEW m \in Migrations,
         \/ PodStart(m) \/ JobCompletes(m)
         \/ \E i \in Incs : Crash(m, i) \/ Evict(m, i) \/ PodTerminate(m, i)
  PROVE  CompleteInv'
<1>1. PodStart(m) \/ JobCompletes(m) => job[m].inc \in Incs
  BY MigrationAssumption
  DEF PodStart, JobCompletes, TypeInv, TypeOK, JobObject, Owners, Incs, Absent
<1>2. CASE PodStart(m)
  <2>1. cm[m] \in Incs
    BY <1>2, MigrationAssumption DEF PodStart, TypeInv, TypeOK, Owners, Incs, Absent
  <2>2. BatchOf[m][cm[m]] = BatchOf[m][job[m].inc]
    BY <1>1, <1>2, <2>1 DEF NamesKeepBatches
  <2> QED
    BY <1>1, <1>2, <2>2, NewPodComplete DEF PodStart, db
<1>3. CASE JobCompletes(m)
  BY <1>1, <1>3, NewPodComplete DEF JobCompletes, NoPod, db
<1>4. ASSUME NEW i \in Incs, Crash(m, i) \/ Evict(m, i) \/ PodTerminate(m, i)
      PROVE  CompleteInv'
  <2>1. UNCHANGED <<recorded, done>>
    BY <1>4 DEF Crash, ScriptFails, Evict, PodTerminate, db
  <2>2. CASE PodTerminate(m, i)
    BY <2>1, <2>2, NewPodComplete DEF PodTerminate, NoPod
  <2>3. CASE Crash(m, i) \/ Evict(m, i)
    BY <2>1, <2>3, AttemptComplete DEF Crash, ScriptFails, Evict
  <2> QED
    BY <1>4, <2>2, <2>3
<1> QED
  BY <1>2, <1>3, <1>4

LEMMA NextComplete ==
  NamesKeepBatches /\ TypeInv /\ CompleteInv /\ [Next]_vars => CompleteInv'
<1> SUFFICES ASSUME NamesKeepBatches, TypeInv, CompleteInv, [Next]_vars
             PROVE  CompleteInv'
  OBVIOUS
<1>1. CASE UNCHANGED <<pod, recorded, done>>
  BY <1>1 DEF CompleteInv, PodComplete
<1>2. ASSUME NEW m \in Migrations, NEW i \in Incs,
             Script(m, i) \/ PodTerminate(m, i) \/ Crash(m, i) \/ Evict(m, i)
      PROVE  CompleteInv'
  BY <1>2, ScriptComplete, PodsComplete
<1>3. ASSUME NEW m \in Migrations, PodStart(m) \/ JobCompletes(m)
      PROVE  CompleteInv'
  BY <1>3, PodsComplete
<1> QED
  BY <1>1, <1>2, <1>3
  DEF Next, Controller, Cluster, Environment, Reconcile, EnsureConfigMap, EnsureJob,
      JudgeJob, UpdateStatus, CollectConfigMap, CollectJob, JobExpires, Deliver,
      DeliverDatabase, RestartOperator, DatabaseUp, DatabaseDown, CreateMigration,
      DeleteMigration, vars, kube, db

\* A recorded hash stands for a batch applied to the end, for any number of
\* Migrations, sharing batches or not, whatever is killed and run again.
THEOREM RecordedIsAlwaysComplete == NamesKeepBatches => (Spec => []RecordedIsComplete)
<1> SUFFICES ASSUME NamesKeepBatches PROVE Spec => []RecordedIsComplete
  OBVIOUS
<1>1. CompleteInv => RecordedIsComplete
  BY DEF CompleteInv, RecordedIsComplete
<1>2. TypeInv /\ CompleteInv /\ [Next]_vars => CompleteInv'
  BY NextComplete
<1> QED
  BY <1>1, <1>2, InitTypes, NextTypes, InitComplete, PTL DEF Spec

-----------------------------------------------------------------------------
(***************************************************************************)
(* AppliedOnce, for one runner per batch: no name is used twice, and no    *)
(* two Migrations hold the same batch.  The script's check is not atomic   *)
(* with what follows; UnrecordedInv says that it need not be, since the    *)
(* Pod that checked is the only one that could record the batch meanwhile. *)
(***************************************************************************)

OneRunner ==
  /\ MaxInc = 1
  /\ \A m, n \in Migrations : BatchOf[m][1] = BatchOf[n][1] => m = n

Unrecorded(m, i) == pod[m][i].pc \in {"apply", "record"} => BatchOf[m][i] \notin recorded

UnrecordedInv == \A m \in Migrations, i \in Incs : Unrecorded(m, i)

LEMMA NewPodUnrecorded ==
  ASSUME TypeInv, UnrecordedInv, NEW m, NEW i, NEW p, p.pc \notin {"apply", "record"},
         pod' = [pod EXCEPT ![m][i] = p], UNCHANGED recorded
  PROVE  UnrecordedInv'
BY DEF TypeInv, TypeOK, UnrecordedInv, Unrecorded

LEMMA AttemptUnrecorded ==
  ASSUME TypeInv, UnrecordedInv, NEW m, NEW i, NEW p, p.pc \notin {"apply", "record"},
         NEW evicted, Attempt(m, i, p, evicted), UNCHANGED recorded
  PROVE  UnrecordedInv'
<1>1. NoPod(m, i).pc \notin {"apply", "record"}
  BY DEF NoPod, NewPod
<1> QED
  BY <1>1, NewPodUnrecorded DEF Attempt

LEMMA ScriptUnrecorded ==
  ASSUME OneRunner, TypeInv, UnrecordedInv, NEW m \in Migrations, NEW i \in Incs, Script(m, i)
  PROVE  UnrecordedInv'
<1>1. pod[m][i] \in PodState /\ pod \in [Migrations -> [Incs -> PodState]]
  BY DEF TypeInv, TypeOK
<1>2. CASE ScriptFails(m, i)
  <2>1. NewPod("check", pod[m][i].sql).pc = "check"
    BY DEF NewPod
  <2> QED
    BY <1>2, <2>1, AttemptUnrecorded DEF ScriptFails
<1>3. CASE ScriptCheck(m, i)
  <2>1. /\ pod' = [pod EXCEPT ![m][i].pc = IF AlreadyApplied(m, i) THEN "done" ELSE "apply"]
        /\ UNCHANGED recorded
    BY <1>3 DEF ScriptCheck
  <2>2. pod'[m][i].pc = IF AlreadyApplied(m, i) THEN "done" ELSE "apply"
    BY <1>1, <2>1 DEF PodState
  <2>3. Unrecorded(m, i)'
    BY <2>1, <2>2 DEF Unrecorded, AlreadyApplied
  <2>4. \A n \in Migrations, j \in Incs : n /= m \/ j /= i => Unrecorded(n, j)'
    BY <1>1, <2>1 DEF UnrecordedInv, Unrecorded
  <2> QED
    BY <2>3, <2>4 DEF UnrecordedInv
<1>4. CASE ScriptApply(m, i) /\ ~ScriptFails(m, i)
  <2> DEFINE n == pod[m][i].at + 1
  <2>1. /\ pod' = [pod EXCEPT ![m][i] = [pod[m][i] EXCEPT !.at = n, !.pc = After(n)]]
        /\ UNCHANGED recorded /\ pod[m][i].pc = "apply"
    BY <1>4 DEF ScriptApply
  <2>2. Unrecorded(m, i)'
    BY <2>1 DEF UnrecordedInv, Unrecorded
  <2>3. \A k \in Migrations, j \in Incs : k /= m \/ j /= i => Unrecorded(k, j)'
    BY <1>1, <2>1 DEF UnrecordedInv, Unrecorded
  <2> QED
    BY <2>2, <2>3 DEF UnrecordedInv
<1>5. CASE ScriptRecord(m, i) /\ ~ScriptFails(m, i)
  <2>1. /\ recorded' = recorded \cup {BatchOf[m][i]}
        /\ pod' = [pod EXCEPT ![m][i].pc = "done"]
    BY <1>5 DEF ScriptRecord
  <2>2. pod'[m][i].pc = "done"
    BY <1>1, <2>1 DEF PodState
  <2>3. ASSUME NEW k \in Migrations, NEW j \in Incs, k /= m \/ j /= i
        PROVE  Unrecorded(k, j)'
    <3>1. i = 1 /\ j = 1
      BY DEF OneRunner, Incs
    <3>2. BatchOf[k][j] /= BatchOf[m][i]
      BY <2>3, <3>1 DEF OneRunner
    <3>3. pod'[k][j] = pod[k][j]
      BY <1>1, <2>1, <2>3
    <3> QED
      BY <2>1, <3>2, <3>3 DEF UnrecordedInv, Unrecorded
  <2> QED
    BY <2>2, <2>3 DEF UnrecordedInv, Unrecorded
<1> QED
  BY <1>2, <1>3, <1>4, <1>5 DEF Script

LEMMA NextUnrecorded ==
  OneRunner /\ TypeInv /\ UnrecordedInv /\ [Next]_vars => UnrecordedInv'
<1> SUFFICES ASSUME OneRunner, TypeInv, UnrecordedInv, [Next]_vars
             PROVE  UnrecordedInv'
  OBVIOUS
<1>1. CASE UNCHANGED <<pod, recorded>>
  BY <1>1 DEF UnrecordedInv, Unrecorded
<1>2. ASSUME NEW m \in Migrations, NEW i \in Incs, Script(m, i)
      PROVE  UnrecordedInv'
  BY <1>2, ScriptUnrecorded
<1>3. ASSUME NEW m \in Migrations, NEW i \in Incs,
             PodTerminate(m, i) \/ Crash(m, i) \/ Evict(m, i)
      PROVE  UnrecordedInv'
  <2>1. NoPod(m, i).pc = "none" /\ NewPod("check", pod[m][i].sql).pc = "check"
    BY DEF NoPod, NewPod
  <2>2. UNCHANGED recorded
    BY <1>3 DEF PodTerminate, Crash, Evict, ScriptFails, db
  <2>3. CASE PodTerminate(m, i)
    BY <2>1, <2>2, <2>3, NewPodUnrecorded DEF PodTerminate
  <2>4. CASE Crash(m, i) \/ Evict(m, i)
    BY <2>1, <2>2, <2>4, AttemptUnrecorded DEF Crash, Evict, ScriptFails
  <2> QED
    BY <1>3, <2>3, <2>4
<1>4. ASSUME NEW m \in Migrations, PodStart(m) \/ JobCompletes(m)
      PROVE  UnrecordedInv'
  <2>1. PICK pc, b : /\ pc \in {"none", "check"}
                     /\ pod' = [pod EXCEPT ![m][job[m].inc] = NewPod(pc, b)]
    BY <1>4 DEF PodStart, JobCompletes, NoPod
  <2>2. NewPod(pc, b).pc \notin {"apply", "record"}
    BY <2>1 DEF NewPod
  <2>3. UNCHANGED recorded
    BY <1>4 DEF PodStart, JobCompletes, db
  <2> QED
    BY <2>1, <2>2, <2>3, NewPodUnrecorded
<1> QED
  BY <1>1, <1>2, <1>3, <1>4
  DEF Next, Controller, Cluster, Environment, Reconcile, EnsureConfigMap, EnsureJob,
      JudgeJob, UpdateStatus, CollectConfigMap, CollectJob, JobExpires, Deliver,
      DeliverDatabase, RestartOperator, DatabaseUp, DatabaseDown, CreateMigration,
      DeleteMigration, vars, kube, db

Once(m, i) == pod'[m][i].at > pod[m][i].at => pod[m][i].sql \notin recorded

\* Only the script executes a statement; every other step leaves a Pod alone or
\* puts one in its place that has executed nothing.
LEMMA AdvancesInScript ==
  ASSUME TypeInv, [Next]_vars, NEW n \in Migrations, NEW j \in Incs,
         pod'[n][j].at > pod[n][j].at
  PROVE  ScriptApply(n, j)
<1>1. pod \in [Migrations -> [Incs -> PodState]] /\ pod[n][j].at \in Nat
  BY DEF TypeInv, TypeOK, PodState
<1>2. ASSUME NEW m, NEW i, NEW pc, NEW b, pod' = [pod EXCEPT ![m][i] = NewPod(pc, b)]
      PROVE  FALSE
  <2>1. pod'[n][j] \in {NewPod(pc, b), pod[n][j]}
    BY <1>1, <1>2
  <2> QED
    BY <1>1, <2>1 DEF NewPod
<1>3. ASSUME NEW m, NEW i, NEW pc, pod' = [pod EXCEPT ![m][i].pc = pc]
      PROVE  FALSE
  <2>1. pod'[n][j].at = pod[n][j].at
    BY <1>1, <1>3 DEF PodState
  <2> QED
    BY <1>1, <2>1
<1>4. pod' /= pod
  BY <1>1
<1>5. ASSUME NEW m \in Migrations, NEW i \in Incs,
             PodTerminate(m, i) \/ Crash(m, i) \/ Evict(m, i) \/ ScriptFails(m, i)
      PROVE  FALSE
  <2>1. \E pc, b : pod' = [pod EXCEPT ![m][i] = NewPod(pc, b)]
    <3>1. CASE PodTerminate(m, i)
      BY <3>1 DEF PodTerminate, NoPod
    <3>2. CASE ScriptFails(m, i) \/ Crash(m, i)
      BY <3>2 DEF Crash, ScriptFails, Attempt, NoPod
    <3>3. CASE Evict(m, i)
      BY <3>3 DEF Evict, Attempt, NoPod
    <3> QED
      BY <1>5, <3>1, <3>2, <3>3
  <2> QED
    BY <1>2, <2>1
<1>6. ASSUME NEW m \in Migrations, PodStart(m) \/ JobCompletes(m)
      PROVE  FALSE
  <2>1. \E pc, b : pod' = [pod EXCEPT ![m][job[m].inc] = NewPod(pc, b)]
    BY <1>6 DEF PodStart, JobCompletes, NoPod
  <2> QED
    BY <1>2, <2>1
<1>7. ASSUME NEW m \in Migrations, NEW i \in Incs, Script(m, i)
      PROVE  ScriptApply(n, j)
  <2>1. ~ScriptCheck(m, i)
    BY <1>3 DEF ScriptCheck
  <2>2. ~ScriptRecord(m, i)
    BY <1>3, <1>5 DEF ScriptRecord
  <2>3. ScriptApply(m, i) /\ ~ScriptFails(m, i)
    BY <1>5, <1>7, <2>1, <2>2 DEF Script
  <2>4. \E p : pod' = [pod EXCEPT ![m][i] = p]
    BY <2>3 DEF ScriptApply
  <2>5. n = m /\ j = i
    BY <1>1, <2>4
  <2> QED
    BY <2>3, <2>5
<1> QED
  BY <1>4, <1>5, <1>6, <1>7
  DEF Next, Controller, Cluster, Environment, Reconcile, EnsureConfigMap, EnsureJob,
      JudgeJob, UpdateStatus, CollectConfigMap, CollectJob, JobExpires, Deliver,
      DeliverDatabase, RestartOperator, DatabaseUp, DatabaseDown, CreateMigration,
      DeleteMigration, vars, kube

\* No statement of a recorded batch is executed, if the batch has one runner.
THEOREM AppliedOnlyOnce == OneRunner => (Spec => AppliedOnce)
<1> SUFFICES ASSUME OneRunner PROVE Spec => AppliedOnce
  OBVIOUS
<1>1. Init => UnrecordedInv
  BY DEF Init, UnrecordedInv, Unrecorded, NoPod, NewPod
<1>2. TypeInv /\ UnrecordedInv /\ [Next]_vars => UnrecordedInv'
  BY NextUnrecorded
<1>3. NamesKeepBatches
  BY DEF OneRunner, NamesKeepBatches, Incs
<1>4. TypeInv /\ CompleteInv /\ [Next]_vars => CompleteInv'
  BY <1>3, NextComplete
<1>5. TypeInv /\ CompleteInv /\ UnrecordedInv /\ [Next]_vars
        => [\A m \in Migrations, i \in Incs : Once(m, i)]_vars
  <2> SUFFICES ASSUME TypeInv, CompleteInv, UnrecordedInv, [Next]_vars,
                      NEW m \in Migrations, NEW i \in Incs, pod'[m][i].at > pod[m][i].at
               PROVE  pod[m][i].sql \notin recorded
    BY DEF Once
  <2>1. pod[m][i].pc = "apply"
    BY AdvancesInScript DEF ScriptApply
  <2> QED
    BY <2>1 DEF CompleteInv, PodComplete, UnrecordedInv, Unrecorded
<1> QED
  BY <1>1, <1>2, <1>4, <1>5, InitTypes, NextTypes, InitComplete, PTL
  DEF Spec, AppliedOnce, Once
=============================================================================
