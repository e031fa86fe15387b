------------------------ MODULE SingleDatabaseProofs ------------------------
(***************************************************************************)
(* Proofs about SingleDatabase, for every set of Pods, claims and faults.  *)
(***************************************************************************)
EXTENDS SingleDatabase, TLAPS

\* No hash is ahead of the Secret, and none that a Pod was created with is ahead
\* of the setting whose password it has brought into the data directory.
Ordered ==
  /\ secret \in {NoPw, last}
  /\ cSecret <= last /\ w.hash <= last
  /\ sts.tmpl.hash <= last /\ cSts.tmpl.hash <= last
  /\ pod.tmpl.hash <= last /\ data <= last
  /\ pod.pc /= "none" => pod.tmpl.hash /= NoPw
  /\ pod.pc = "synced" /\ data /= NoPw => pod.tmpl.hash <= data
  /\ pod.pc = "up" => data /= NoPw /\ pod.tmpl.hash <= data

Inv == TypeOK /\ Ordered

-----------------------------------------------------------------------------
(***************************************************************************)
(* Inv holds initially and is kept by every action.                        *)
(***************************************************************************)

LEMMA InitInv == Init => Inv
<1> SUFFICES ASSUME Init PROVE Inv
  OBVIOUS
<1>1. PICK p \in Pods, c \in Claims : sdb = [pod |-> p, claim |-> c, cond |-> "None"]
  BY DEF Init
<1>2. sdb \in Object
  BY <1>1 DEF Object, Reasons
<1>3. TypeOK
  <2>1. << >> \in Seq(Nat \ {0})
    OBVIOUS
  <2> QED
    BY <1>1, <1>2, <2>1, SingleDatabaseAssumption
    DEF Init, TypeOK, Worker, StatefulSet, Template, Pod, NoPw
<1>4. Ordered
  BY DEF Init, Ordered, last, NoPw
<1> QED
  BY <1>3, <1>4 DEF Inv

LEMMA ChangedTypes ==
  ASSUME TypeOK, NEW e \in Kinds, Changed(e) \/ UNCHANGED pend
  PROVE  pend' \subseteq Kinds
BY DEF TypeOK, Changed

LEMMA FaultTypes ==
  ASSUME TypeOK, NEW f, Fault(f) \/ UNCHANGED budget
  PROVE  budget' \in Nat
BY DEF TypeOK, Fault

\* A call that may fail costs at most a fault.
LEMMA ErrsTypes ==
  ASSUME TypeOK, NEW reason, Errs(reason) \/ UNCHANGED budget
  PROVE  budget' \in Nat
BY FaultTypes DEF Errs

LEMMA LastType ==
  ASSUME Inv
  PROVE  last \in Nat /\ values \in Seq(Nat \ {NoPw})
BY DEF Inv, TypeOK, last

\* A setting is numbered after all others, which keep their passwords.
Kept == \A n \in 1..last : values'[n] = values[n]

LEMMA SetPasswordInv ==
  ASSUME Inv, NEW value \in Nat \ {NoPw}, SetPassword(value)
  PROVE  /\ secret' \in Nat /\ values' \in Seq(Nat \ {NoPw})
         /\ last' \in Nat /\ last' = last + 1 /\ secret' = last'
         /\ pend' \subseteq Kinds /\ Kept
<1>1. values' = Append(values, value) /\ secret' = last + 1
  BY DEF SetPassword
<1>2. /\ values' \in Seq(Nat \ {NoPw}) /\ Len(values') = Len(values) + 1
      /\ \A n \in 1..Len(values) : values'[n] = values[n]
  BY <1>1, LastType
<1>3. pend' \subseteq Kinds
  BY ChangedTypes DEF Inv, SetPassword, Kinds
<1> QED
  BY <1>1, <1>2, <1>3, LastType DEF last, Kept

\* What EnsureSecret and the user may set is a password.
LEMMA SettingInv ==
  ASSUME Inv, NewPassword \/ RotatePassword
  PROVE  \E value \in Nat \ {NoPw} : SetPassword(value)
<1>1. last + 1 \in Nat \ {NoPw}
  BY LastType DEF NoPw
<1>2. \A n \in 1..last : values[n] \in Nat \ {NoPw}
  BY LastType DEF last
<1>3. CASE NewPassword
  BY <1>1, <1>3 DEF NewPassword
<1>4. CASE RotatePassword
  <2>1. PICK value \in {values[n] : n \in 1..last} \cup {last + 1} : SetPassword(value)
    BY <1>4 DEF RotatePassword
  <2>2. value \in Nat \ {NoPw}
    BY <1>1, <1>2, <2>1
  <2> QED
    BY <2>1, <2>2
<1> QED
  BY <1>3, <1>4

LEMMA HashTypes ==
  ASSUME Inv
  PROVE  /\ last \in Nat /\ data \in Nat /\ cSecret \in Nat /\ w.hash \in Nat
         /\ sts.tmpl.hash \in Nat /\ cSts.tmpl.hash \in Nat /\ pod.tmpl.hash \in Nat
BY LastType DEF Inv, TypeOK, Worker, StatefulSet, Template, Pod

\* What is not ahead of the last setting is not ahead of a later one.
LEMMA OrderedLater ==
  ASSUME Inv, last' \in Nat, last <= last', secret' \in {NoPw, last'},
         UNCHANGED <<cSecret, sts, cSts, pod, data>>, w'.hash = w.hash
  PROVE  Ordered'
BY HashTypes DEF Inv, Ordered

LEMMA UserInv ==
  ASSUME Inv,
         \/ RotatePassword \/ EditPod \/ EditStorage
         \/ DeleteSecret \/ DeleteService \/ DeleteStatefulSet
  PROVE  Inv'
<1>1. CASE RotatePassword
  <2>1. UNCHANGED <<sdb, pvc, service, sts, caches, q, w, pod, data>>
    BY <1>1 DEF RotatePassword
  <2>2. budget' \in Nat
    BY <1>1, FaultTypes DEF RotatePassword, Inv
  <2>3. PICK value \in Nat \ {NoPw} : SetPassword(value)
    BY <1>1, SettingInv
  <2>4. /\ secret' \in Nat /\ values' \in Seq(Nat \ {NoPw}) /\ pend' \subseteq Kinds
        /\ last' \in Nat /\ last <= last' /\ secret' = last'
    BY <2>3, SetPasswordInv, LastType
  <2>5. Ordered'
    BY <2>1, <2>4, OrderedLater DEF caches
  <2> QED
    BY <2>1, <2>2, <2>4, <2>5 DEF Inv, TypeOK, caches
<1>2. CASE EditPod \/ EditStorage
  <2>1. sdb' \in Object
    BY <1>2 DEF EditPod, EditStorage, Inv, TypeOK, Object
  <2>2. pend' \subseteq Kinds /\ budget' \in Nat
    BY <1>2, ChangedTypes, FaultTypes DEF EditPod, EditStorage, Inv, Kinds
  <2> QED
    BY <1>2, <2>1, <2>2 DEF EditPod, EditStorage, Inv, TypeOK, Ordered, last, caches
<1>3. CASE DeleteSecret \/ DeleteService
  <2>1. pend' \subseteq Kinds /\ budget' \in Nat
    BY <1>3, ChangedTypes, FaultTypes DEF DeleteSecret, DeleteService, Inv, Kinds
  <2>2. /\ secret' \in {NoPw, secret} /\ service' \in {FALSE, service}
        /\ UNCHANGED <<sdb, pvc, sts, caches, q, w, pod, data, values>>
    BY <1>3 DEF DeleteSecret, DeleteService
  <2>3. Ordered'
    BY <2>2 DEF Inv, Ordered, last, caches
  <2>4. secret' \in Nat
    BY <2>2 DEF Inv, TypeOK, NoPw
  <2>5. service' \in BOOLEAN
    <3>1. CASE service' = FALSE
      BY <3>1
    <3>2. CASE service' = service
      BY <3>2 DEF Inv, TypeOK
    <3> QED
      BY <2>2, <3>1, <3>2
  <2> QED
    BY <2>1, <2>2, <2>3, <2>4, <2>5 DEF Inv, TypeOK, caches
<1>4. CASE DeleteStatefulSet
  <2>1. pend' \subseteq Kinds /\ budget' \in Nat
    BY <1>4, ChangedTypes, FaultTypes DEF DeleteStatefulSet, Inv, Kinds
  <2>2. sts' \in StatefulSet /\ sts'.tmpl.hash = 0
    BY <1>4 DEF DeleteStatefulSet, Inv, TypeOK, StatefulSet, Template, NoPw
  <2>3. pod' \in Pod /\ pod'.pc = "none" /\ pod'.tmpl = pod.tmpl
    BY <1>4 DEF DeleteStatefulSet, Inv, TypeOK, Pod
  <2> QED
    BY <1>4, <2>1, <2>2, <2>3 DEF DeleteStatefulSet, Inv, TypeOK, Ordered, last, caches
<1> QED
  BY <1>1, <1>2, <1>3, <1>4

LEMMA InformerInv ==
  ASSUME Inv, RestartOperator \/ \E e \in Kinds : Deliver(e)
  PROVE  Inv'
<1>1. CASE RestartOperator
  <2>1. w' \in Worker /\ w'.hash = w.hash
    BY <1>1 DEF RestartOperator, Inv, TypeOK, Worker
  <2> QED
    BY <1>1, <2>1, FaultTypes
    DEF RestartOperator, Inv, TypeOK, Ordered, last, api, NoPw
<1>2. ASSUME NEW e \in Kinds, Deliver(e) PROVE Inv'
  <2>1. q' \in BOOLEAN
    BY <1>2 DEF Deliver, Wakes
  <2> QED
    BY <1>2, <2>1 DEF Deliver, Inv, TypeOK, Ordered, last, api, NoPw
<1> QED
  BY <1>1, <1>2

\* The worker on its way to an update of the status or at its end.
LEMMA WorkerTypes ==
  ASSUME Inv
  PROVE  /\ \A r \in Reasons : NotReady(r) => w' \in Worker /\ w'.hash = w.hash
         /\ \A again \in BOOLEAN :
              Return(again) => w' \in Worker /\ w'.hash = w.hash /\ q' \in BOOLEAN
         /\ \A c \in {"read", "service", "sts", "judge"} :
              w' = [w EXCEPT !.pc = c] => w' \in Worker /\ w'.hash = w.hash
<1>1. w \in Worker /\ q \in BOOLEAN
  BY DEF Inv, TypeOK
<1>2. ASSUME NEW r \in Reasons, NotReady(r) PROVE w' \in Worker /\ w'.hash = w.hash
  <2> DEFINE o == [w.obj EXCEPT !.cond = r]
  <2>1. o \in Object
    BY <1>1 DEF Worker, Object
  <2>2. w' = [w EXCEPT !.pc = "status", !.obj = o, !.next = "again"]
    BY <1>1, <1>2 DEF NotReady, Worker
  <2> HIDE DEF o
  <2> QED
    BY <1>1, <2>1, <2>2 DEF Worker
<1> QED
  BY <1>1, <1>2 DEF Return, Worker

LEMMA ReadInv ==
  ASSUME Inv, Reconcile \/ ReadSecret \/ JudgeStatefulSet
  PROVE  Inv'
<1>1. CASE Reconcile
  <2>1. w' \in Worker /\ w'.hash = 0
    BY <1>1 DEF Reconcile, Inv, TypeOK, Worker, NoPw
  <2>2. Ordered'
    BY <1>1, <2>1, HashTypes DEF Reconcile, Inv, Ordered, last, api, caches
  <2>3. q' \in BOOLEAN
    BY <1>1 DEF Reconcile
  <2> QED
    BY <1>1, <2>1, <2>2, <2>3 DEF Reconcile, Inv, TypeOK, api, caches
<1>2. CASE ReadSecret
  <2>1. w' \in Worker /\ w'.hash \in {w.hash, cSecret} /\ q' \in BOOLEAN
    BY <1>2, WorkerTypes DEF ReadSecret, ReadCached, Inv, TypeOK, Worker
  <2> QED
    BY <1>2, <2>1 DEF ReadSecret, Inv, TypeOK, Ordered, last, api, caches
<1>3. CASE JudgeStatefulSet
  <2>1. w' \in Worker /\ w'.hash = w.hash
    <3> DEFINE o == [w.obj EXCEPT !.cond = "Ready"]
    <3>1. w \in Worker /\ o \in Object
      BY DEF Inv, TypeOK, Worker, Object, Reasons
    <3>2. \/ NotReady("Failed") \/ NotReady("StatefulSetNotReady")
          \/ w' = [w EXCEPT !.pc = "status", !.obj = o, !.next = "return"]
      BY <1>3, <3>1 DEF JudgeStatefulSet, Worker
    <3> HIDE DEF o
    <3> QED
      BY <3>1, <3>2, WorkerTypes DEF Worker, Reasons
  <2> QED
    BY <1>3, <2>1 DEF JudgeStatefulSet, Inv, TypeOK, Ordered, last, api, caches
<1> QED
  BY <1>1, <1>2, <1>3

LEMMA EnsureInv ==
  ASSUME Inv, EnsureSecret \/ EnsurePVC \/ EnsureService
  PROVE  Inv'
<1>1. CASE EnsureSecret
  <2>1. w' \in Worker /\ w'.hash = w.hash
    BY <1>1, WorkerTypes DEF EnsureSecret, Reasons
  <2>2. budget' \in Nat
    BY <1>1, ErrsTypes DEF EnsureSecret, Inv
  <2>3. NewPassword \/ UNCHANGED <<secret, values, pend>>
    BY <1>1 DEF EnsureSecret
  <2>4. UNCHANGED <<sdb, pvc, service, sts, caches, q, pod, data>>
    BY <1>1 DEF EnsureSecret
  <2>5. CASE NewPassword
    <3>1. PICK value \in Nat \ {NoPw} : SetPassword(value)
      BY <2>5, SettingInv
    <3>2. /\ secret' \in Nat /\ values' \in Seq(Nat \ {NoPw}) /\ pend' \subseteq Kinds
          /\ last' \in Nat /\ last <= last' /\ secret' = last'
      BY <3>1, SetPasswordInv, LastType
    <3>3. Ordered'
      BY <2>1, <2>4, <3>2, OrderedLater DEF caches
    <3> QED
      BY <2>1, <2>2, <2>4, <3>2, <3>3 DEF Inv, TypeOK, caches
  <2>6. CASE UNCHANGED <<secret, values, pend>>
    BY <2>1, <2>2, <2>4, <2>6 DEF Inv, TypeOK, Ordered, last, caches
  <2> QED
    BY <2>3, <2>5, <2>6
<1>2. CASE EnsurePVC
  <2>1. w' \in Worker /\ w'.hash = w.hash
    BY <1>2, WorkerTypes DEF EnsurePVC, Reasons
  <2>2. budget' \in Nat /\ pend' \subseteq Kinds
    BY <1>2, ErrsTypes, ChangedTypes DEF EnsurePVC, Inv, Kinds
  <2>3. pvc' \in Claims \cup {NoClaim}
    BY <1>2 DEF EnsurePVC, Inv, TypeOK, Worker, Object
  <2> QED
    BY <1>2, <2>1, <2>2, <2>3 DEF EnsurePVC, Inv, TypeOK, Ordered, last, caches
<1>3. CASE EnsureService
  <2>1. w' \in Worker /\ w'.hash = w.hash
    BY <1>3, WorkerTypes DEF EnsureService, Reasons
  <2>2. budget' \in Nat /\ pend' \subseteq Kinds
    BY <1>3, ErrsTypes, ChangedTypes DEF EnsureService, Inv, Kinds
  <2>3. service' \in BOOLEAN
    BY <1>3 DEF EnsureService, Inv, TypeOK
  <2> QED
    BY <1>3, <2>1, <2>2, <2>3 DEF EnsureService, Inv, TypeOK, Ordered, last, caches
<1> QED
  BY <1>1, <1>2, <1>3

LEMMA WriteInv ==
  ASSUME Inv, EnsureStatefulSet \/ UpdateStatus
  PROVE  Inv'
<1>1. CASE EnsureStatefulSet
  <2>1. w' \in Worker /\ w'.hash = w.hash
    BY <1>1, WorkerTypes DEF EnsureStatefulSet, Reasons
  <2>2. budget' \in Nat /\ pend' \subseteq Kinds
    BY <1>1, ErrsTypes, ChangedTypes DEF EnsureStatefulSet, Inv, Kinds
  <2>3. sts' \in StatefulSet /\ sts'.tmpl.hash \in {sts.tmpl.hash, w.hash}
    <3> DEFINE t == [hash |-> w.hash, pod |-> w.obj.pod]
    <3>1. t \in Template /\ t.hash = w.hash /\ sts \in StatefulSet
      BY HashTypes DEF Inv, TypeOK, Template, Worker, Object
    <3>2. sts' = sts \/ sts' = [sts EXCEPT !.tmpl = t]
      BY <1>1 DEF EnsureStatefulSet
    <3> HIDE DEF t
    <3> QED
      BY <3>1, <3>2 DEF StatefulSet
  <2> QED
    BY <1>1, <2>1, <2>2, <2>3 DEF EnsureStatefulSet, Inv, TypeOK, Ordered, last, caches
<1>2. CASE UpdateStatus
  <2>1. w' \in Worker /\ w'.hash = w.hash /\ q' \in BOOLEAN
    BY <1>2, WorkerTypes DEF UpdateStatus
  <2>2. budget' \in Nat /\ pend' \subseteq Kinds
    BY <1>2, ErrsTypes, ChangedTypes DEF UpdateStatus, Inv, Kinds
  <2>3. sdb' \in Object
    BY <1>2 DEF UpdateStatus, Inv, TypeOK, Worker, Object
  <2> QED
    BY <1>2, <2>1, <2>2, <2>3 DEF UpdateStatus, Inv, TypeOK, Ordered, last, caches
<1> QED
  BY <1>1, <1>2

LEMMA StatefulSetInv ==
  ASSUME Inv, CreatePod \/ ReplacePod \/ ReportReady
  PROVE  Inv'
<1>1. CASE CreatePod \/ ReplacePod
  <2>1. /\ pod' \in Pod /\ pod'.pc \in {"init", "none"}
        /\ pod'.tmpl.hash \in {pod.tmpl.hash, sts.tmpl.hash}
        /\ pod'.pc = "init" => pod'.tmpl.hash /= NoPw
    BY <1>1 DEF CreatePod, ReplacePod, Inv, TypeOK, Pod, StatefulSet, NoTemplate
  <2> QED
    BY <1>1, <2>1 DEF CreatePod, ReplacePod, Inv, TypeOK, Ordered, last, api, caches
<1>2. CASE ReportReady
  <2>1. sts' \in StatefulSet /\ sts'.tmpl = sts.tmpl
    BY <1>2 DEF ReportReady, Inv, TypeOK, StatefulSet
  <2>2. pend' \subseteq Kinds
    BY <1>2, ChangedTypes DEF ReportReady, Inv, Kinds
  <2> QED
    BY <1>2, <2>1, <2>2 DEF ReportReady, Inv, TypeOK, Ordered, last, caches
<1> QED
  BY <1>1, <1>2

LEMMA KubeletInv ==
  ASSUME Inv, RunInitContainers \/ StartPostgres \/ CrashPostgres \/ EvictPod
  PROVE  Inv'
<1>1. pod' \in Pod /\ pod'.tmpl = pod.tmpl
  BY DEF RunInitContainers, StartPostgres, CrashPostgres, EvictPod, Inv, TypeOK, Pod
<1>2. CASE RunInitContainers
  <2>1. pod'.pc = "synced"
    BY <1>2 DEF RunInitContainers, Inv, TypeOK, Pod
  <2> QED
    BY <1>1, <1>2, <2>1
    DEF RunInitContainers, PasswordSynced, Inv, TypeOK, Ordered, last, api, caches, NoPw, Pod, Template
<1>3. CASE StartPostgres
  <2>1. pod'.pc = "up" /\ pod.pc = "synced"
    BY <1>3 DEF StartPostgres, Inv, TypeOK, Pod
  <2> QED
    BY <1>1, <1>3, <2>1
    DEF StartPostgres, Inv, TypeOK, Ordered, last, api, caches, NoPw, Pod, Template
<1>4. CASE CrashPostgres \/ EvictPod
  <2>1. pod'.pc = "none" \/ (pod.pc = "up" /\ pod'.pc = "synced")
    BY <1>4 DEF CrashPostgres, EvictPod, Inv, TypeOK, Pod
  <2>2. budget' \in Nat
    BY <1>4, FaultTypes DEF CrashPostgres, EvictPod, Inv
  <2> QED
    BY <1>1, <1>4, <2>1, <2>2
    DEF CrashPostgres, EvictPod, Inv, TypeOK, Ordered, last, api, caches
<1> QED
  BY <1>2, <1>3, <1>4

LEMMA NextInv == Inv /\ [Next]_vars => Inv'
<1> SUFFICES ASSUME Inv, [Next]_vars PROVE Inv'
  OBVIOUS
<1>1. CASE Controller
  BY <1>1, ReadInv, EnsureInv, WriteInv DEF Controller
<1>2. CASE Cluster
  BY <1>2, InformerInv, StatefulSetInv, KubeletInv DEF Cluster
<1>3. CASE Environment
  BY <1>3, UserInv, InformerInv, KubeletInv DEF Environment
<1>4. CASE UNCHANGED vars
  BY <1>4 DEF Inv, TypeOK, Ordered, last, vars, api, caches
<1> QED
  BY <1>1, <1>2, <1>3, <1>4 DEF Next

-----------------------------------------------------------------------------
\* Every reachable state is well typed.
THEOREM TypeCorrect == Spec => []TypeOK
<1>1. Inv => TypeOK
  BY DEF Inv
<1> QED
  BY <1>1, InitInv, NextInv, PTL DEF Spec

\* A server whose Pod carries the hash of the present Secret has its password,
\* or a later one that was taken back, however edits, deletions, evictions and
\* restarts come between the controller that reads the one and the kubelet that
\* reads the other.
THEOREM RunningIsAlwaysCurrent == Spec => []RunningIsCurrent
<1>1. Inv => RunningIsCurrent
  <2> SUFFICES ASSUME Inv, pod.pc = "up", Value(pod.tmpl.hash) = Value(secret),
                      Value(data) /= Value(secret)
               PROVE  SetBack
    BY DEF RunningIsCurrent
  <2>1. /\ pod.tmpl.hash <= data /\ data <= last /\ secret \in {NoPw, last}
        /\ pod.tmpl.hash /= NoPw
    BY DEF Inv, Ordered
  <2>2. pod.tmpl.hash \in 1..last
    BY <2>1, HashTypes DEF NoPw
  <2>3. secret /= NoPw
    <3>1. values[pod.tmpl.hash] /= NoPw
      BY <2>2, LastType DEF last
    <3> QED
      BY <2>2, <3>1 DEF Value, NoPw
  <2>4. pod.tmpl.hash /= data /\ data /= secret
    OBVIOUS
  <2> QED
    BY <2>1, <2>3, <2>4, HashTypes DEF SetBack
<1> QED
  BY <1>1, InitInv, NextInv, PTL DEF Spec
-----------------------------------------------------------------------------
(***************************************************************************)
(* SingleDatabase implements Database.                                     *)
(***************************************************************************)

LEMMA InitImplements == Init => Promise!Init
BY DEF Init, Promise!Init, NoPw, last

\* A new setting of the Secret is a Rotate.
LEMMA SettingImplements ==
  ASSUME Inv, NewPassword \/ RotatePassword, UNCHANGED <<pod, data>>
  PROVE  Promise!Rotate
<1>1. last' = last + 1
  BY SettingInv, SetPasswordInv
<1> QED
  BY <1>1 DEF Promise!Rotate

LEMMA StopImplements ==
  ASSUME Inv, UNCHANGED <<data, values>>, pod'.pc /= "up"
  PROVE  [Promise!Next]_Promise!dbVars
<1>1. CASE pod.pc = "up"
  BY <1>1 DEF Promise!Next, Promise!Stop, last
<1>2. CASE pod.pc /= "up"
  BY <1>2 DEF Promise!dbVars, last
<1> QED
  BY <1>1, <1>2

LEMMA StepImplements == Inv /\ [Next]_vars => [Promise!Next]_Promise!dbVars
<1> SUFFICES ASSUME Inv, [Next]_vars PROVE [Promise!Next]_Promise!dbVars
  OBVIOUS
<1>1. CASE UNCHANGED <<pod, data, values>>
  BY <1>1 DEF Promise!dbVars, last
<1>2. CASE EnsureSecret \/ RotatePassword
  <2>1. UNCHANGED <<pod, data>>
    BY <1>2 DEF EnsureSecret, RotatePassword
  <2>2. NewPassword \/ RotatePassword \/ UNCHANGED values
    BY <1>2 DEF EnsureSecret
  <2> QED
    BY <2>1, <2>2, SettingImplements DEF Promise!Next, Promise!dbVars, last
<1>3. CASE DeleteStatefulSet \/ CreatePod \/ ReplacePod \/ CrashPostgres \/ EvictPod
  <2>1. UNCHANGED <<data, values>> /\ pod'.pc /= "up"
    BY <1>3
    DEF DeleteStatefulSet, CreatePod, ReplacePod, CrashPostgres, EvictPod, Inv, TypeOK, Pod
  <2> QED
    BY <2>1, StopImplements
<1>4. CASE RunInitContainers
  <2>1. pod.pc /= "up" /\ pod'.pc /= "up" /\ last' = last /\ secret = last
    BY <1>4 DEF RunInitContainers, Inv, TypeOK, Ordered, last, Pod
  <2>2. CASE data = 0
    BY <1>4, <2>1, <2>2 DEF RunInitContainers, PasswordSynced, NoPw, Promise!dbVars
  <2>3. CASE data /= 0
    BY <1>4, <2>1, <2>3
    DEF RunInitContainers, PasswordSynced, NoPw, Inv, TypeOK, Promise!Next, Promise!Sync
  <2> QED
    BY <2>2, <2>3
<1>5. CASE StartPostgres
  <2>1. pod.pc /= "up" /\ pod'.pc = "up" /\ last' = last /\ secret = last /\ last > 0
    BY <1>5 DEF StartPostgres, Inv, TypeOK, Ordered, last, Pod, NoPw
  <2>2. data' \in {data, last} \ {0}
    BY <1>5, <2>1 DEF StartPostgres, NoPw
  <2> QED
    BY <2>1, <2>2 DEF Promise!Next, Promise!Start
<1> QED
  BY <1>1, <1>2, <1>3, <1>4, <1>5
  DEF Next, Controller, Cluster, Environment, Reconcile, ReadSecret, EnsurePVC,
      EnsureService, EnsureStatefulSet, JudgeStatefulSet, UpdateStatus, Deliver,
      ReportReady, EditPod, EditStorage, DeleteSecret, DeleteService,
      RestartOperator, vars

\* The administrators' password only changes while the server is down, and only
\* to the last setting of the Secret: SingleDatabase implements Database.
THEOREM DatabaseIsImplemented == Spec => ImplementsDatabase
<1> QED
  BY InitImplements, StepImplements, InitInv, NextInv, PTL
  DEF Spec, ImplementsDatabase, Promise!Spec

-----------------------------------------------------------------------------
(***************************************************************************)
(* Why a Ready database has been initialised: the word goes from the Pod   *)
(* that is up to the StatefulSet, its cache, the worker and the status,    *)
(* and a data directory is never emptied.                                  *)
(***************************************************************************)

Initialised == data /= NoPw

SaysReady ==
  \/ sts.ready \/ cSts.ready
  \/ sdb.cond = "Ready" \/ cSdb.cond = "Ready" \/ w.obj.cond = "Ready"

ReadyInv == SaysReady => Initialised

LEMMA InitReady == Init => ReadyInv
BY DEF Init, ReadyInv, SaysReady

\* Steps after which nobody says Ready who did not say so.
LEMMA NothingNew ==
  ASSUME ReadyInv, Initialised => Initialised', SaysReady' => SaysReady \/ pod.pc = "up", Inv
  PROVE  ReadyInv'
BY DEF ReadyInv, Inv, Ordered, last, Initialised, SaysReady

\* Where the worker's condition comes from.
LEMMA WorkerCond ==
  ASSUME Inv
  PROVE  /\ \A r : NotReady(r) => w'.obj.cond = r
         /\ \A again : Return(again) => w'.obj = w.obj
         /\ \A c : w' = [w EXCEPT !.pc = c] => w'.obj = w.obj
<1>1. w \in Worker
  BY DEF Inv, TypeOK
<1>2. \A r : NotReady(r) => w'.obj.cond = r
  BY <1>1 DEF NotReady, Worker, Object
<1> QED
  BY <1>1, <1>2 DEF Return, Worker

LEMMA ControllerReady ==
  ASSUME Inv, ReadyInv, Controller
  PROVE  ReadyInv'
<1>1. UNCHANGED <<cSdb, cSts, data, pod>> /\ w \in Worker
  BY DEF Controller, Reconcile, EnsureSecret, ReadSecret, EnsurePVC, EnsureService,
         EnsureStatefulSet, JudgeStatefulSet, UpdateStatus, api, caches, Inv, TypeOK
<1>2. sts'.ready = sts.ready
  BY DEF Controller, Reconcile, EnsureSecret, ReadSecret, EnsurePVC, EnsureService,
         EnsureStatefulSet, JudgeStatefulSet, UpdateStatus, api, Inv, TypeOK, StatefulSet
<1>3. CASE Reconcile
  BY <1>1, <1>2, <1>3, NothingNew DEF Reconcile, SaysReady, Initialised, api
<1>4. CASE EnsureSecret \/ ReadSecret \/ EnsurePVC \/ EnsureService \/ EnsureStatefulSet
  <2>1. w'.obj.cond \in {w.obj.cond, "Failed"}
    <3>1. \/ NotReady("Failed") \/ Return(TRUE)
          \/ \E c : w' = [w EXCEPT !.pc = c]
          \/ w' = [w EXCEPT !.pc = "pvc", !.hash = cSecret]
      BY <1>4 DEF EnsureSecret, ReadSecret, ReadCached, EnsurePVC, EnsureService,
                 EnsureStatefulSet
    <3>2. CASE w' = [w EXCEPT !.pc = "pvc", !.hash = cSecret]
      BY <1>1, <3>2 DEF Worker
    <3> QED
      BY <3>1, <3>2, WorkerCond
  <2>2. UNCHANGED sdb
    BY <1>4 DEF EnsureSecret, ReadSecret, EnsurePVC, EnsureService, EnsureStatefulSet,
         api
  <2> QED
    BY <1>1, <1>2, <2>1, <2>2, NothingNew DEF SaysReady, Initialised
<1>5. CASE JudgeStatefulSet
  <2>1. w'.obj.cond /= "Ready" \/ cSts.ready
    BY <1>5, WorkerCond DEF JudgeStatefulSet, ReplicasReady
  <2> QED
    BY <1>1, <1>2, <1>5, <2>1, NothingNew DEF JudgeStatefulSet, SaysReady,
         Initialised, api
<1>6. CASE UpdateStatus
  <2>1. w'.obj = w.obj /\ sdb'.cond \in {sdb.cond, w.obj.cond}
    BY <1>6, WorkerCond DEF UpdateStatus, Inv, TypeOK, Object
  <2> QED
    BY <1>1, <1>2, <2>1, NothingNew DEF SaysReady, Initialised
<1> QED
  BY <1>3, <1>4, <1>5, <1>6 DEF Controller

LEMMA NextReady == Inv /\ ReadyInv /\ [Next]_vars => ReadyInv'
<1> SUFFICES ASSUME Inv, ReadyInv, [Next]_vars PROVE ReadyInv'
  OBVIOUS
<1>1. CASE Controller
  BY <1>1, ControllerReady
<1>2. CASE (\E e \in Kinds : Deliver(e)) \/ RestartOperator
  <2>1. UNCHANGED <<sdb, sts, data>> /\ cSdb' \in {sdb, cSdb} /\ cSts' \in {sts, cSts}
        /\ w'.obj = w.obj
    BY <1>2 DEF Deliver, RestartOperator, api, Inv, TypeOK, Worker
  <2> QED
    BY <2>1, NothingNew DEF SaysReady, Initialised
<1>3. CASE ReportReady
  <2>1. sts'.ready => pod.pc = "up"
    BY <1>3 DEF ReportReady, Inv, TypeOK, StatefulSet
  <2> QED
    BY <1>3, <2>1, NothingNew DEF ReportReady, SaysReady, Initialised, caches
<1>4. CASE RunInitContainers \/ StartPostgres
  <2>1. UNCHANGED <<sdb, sts, cSdb, cSts, w>> /\ (Initialised => Initialised')
    BY <1>4 DEF RunInitContainers, StartPostgres, PasswordSynced, Initialised, api,
         caches
  <2> QED
    BY <2>1, NothingNew DEF SaysReady
<1>5. CASE \/ CreatePod \/ ReplacePod \/ CrashPostgres \/ EvictPod
           \/ RotatePassword \/ DeleteSecret \/ DeleteService
  BY <1>5, NothingNew
  DEF CreatePod, ReplacePod, CrashPostgres, EvictPod, RotatePassword, DeleteSecret,
      DeleteService, SaysReady, Initialised, api, caches
<1>6. CASE EditPod \/ EditStorage \/ DeleteStatefulSet
  <2>1. /\ UNCHANGED <<cSdb, cSts, w, data>> /\ sdb'.cond = sdb.cond
        /\ sts'.ready => sts.ready
    BY <1>6 DEF EditPod, EditStorage, DeleteStatefulSet, caches, Inv, TypeOK, Object,
         StatefulSet
  <2> QED
    BY <2>1, NothingNew DEF SaysReady, Initialised
<1>7. CASE UNCHANGED vars
  BY <1>7, NothingNew DEF SaysReady, Initialised, vars, api, caches
<1> QED
  BY <1>1, <1>2, <1>3, <1>4, <1>5, <1>6, <1>7 DEF Next, Cluster, Environment

\* A Ready database has been initialised, however stale the StatefulSet is from
\* which Reconcile concludes that it is ready.
THEOREM ReadyIsAlwaysInitialised == Spec => []ReadyIsInitialised
<1>1. ReadyInv => ReadyIsInitialised
  BY DEF ReadyInv, SaysReady, Initialised, ReadyIsInitialised
<1> QED
  BY <1>1, InitInv, NextInv, InitReady, NextReady, PTL DEF Spec

-----------------------------------------------------------------------------
(***************************************************************************)
(* Why the SingleDatabase is not forgotten.  As long as no event has       *)
(* reached the work queue since the worker took it, what the worker has    *)
(* read is what the caches hold, and what it has written is there, or has  *)
(* an event on its way.                                                    *)
(***************************************************************************)

FreshCaches ==
  /\ "sdb" \notin pend => cSdb = sdb
  /\ "secret" \notin pend => cSecret = secret
  /\ "service" \notin pend => cService = service
  /\ "sts" \notin pend => cSts = sts

\* The worker is about to stop without asking for another reconciliation.
Stopping == w.pc = "status" /\ w.next = "return"

Written == [hash |-> w.hash, pod |-> w.obj.pod]

SoFar ==
  /\ w.obj.pod = cSdb.pod
  /\ w.pc \in {"pvc", "service", "sts", "judge"} \/ Stopping => w.hash = cSecret
  /\ w.pc \in {"sts", "judge"} \/ Stopping => cService \/ "service" \in pend
  /\ w.pc = "judge" \/ Stopping => Same(sts.tmpl, Written) \/ "sts" \in pend
  /\ Stopping => cSts.ready /\ w.obj.cond = "Ready"

WakeInv == FreshCaches /\ (w.pc /= "idle" /\ ~q => SoFar) /\ NoLostWakeup

LEMMA InitWake == Init => WakeInv
BY DEF Init, WakeInv, FreshCaches, NoLostWakeup

\* A change of an object has an event on its way.
Announced ==
  /\ pend \subseteq pend'
  /\ UNCHANGED sdb \/ "sdb" \in pend'
  /\ UNCHANGED secret \/ "secret" \in pend'
  /\ UNCHANGED service \/ "service" \in pend'
  /\ UNCHANGED sts \/ "sts" \in pend'

\* Templates that agree still agree after the next setting of the Secret.
LEMMA SameLater ==
  ASSUME Inv, Kept
  PROVE  /\ Same(sts.tmpl, Wanted) /\ UNCHANGED <<sdb, secret, sts>> =>
              Same(sts.tmpl, Wanted)'
         /\ Same(sts.tmpl, Written) /\ UNCHANGED <<w, sts>> =>
              Same(sts.tmpl, Written)'
<1>1. \A n \in 0..last : n /= 0 => values'[n] = values[n]
  BY LastType DEF Kept
<1>2. sts.tmpl.hash \in 0..last /\ w.hash \in 0..last /\ secret \in 0..last
  BY HashTypes DEF Inv, Ordered, NoPw
<1> QED
  BY <1>1, <1>2 DEF Same, Value, NoPw, Wanted, Written

LEMMA OtherWake ==
  ASSUME Inv, WakeInv, Kept, Announced, UNCHANGED <<w, q, caches>>
  PROVE  WakeInv'
<1>1. FreshCaches'
  BY DEF WakeInv, FreshCaches, Announced, caches
<1>2. SoFar => SoFar'
  <2>1. Same(sts.tmpl, Written) => Same(sts.tmpl, Written)' \/ "sts" \in pend'
    BY SameLater DEF Announced
  <2> QED
    BY <2>1 DEF SoFar, Stopping, Announced, caches
<1>3. NoLostWakeup'
  <2>1. CASE pend' = {}
    <3>1. UNCHANGED <<sdb, secret, service, sts, pend>>
      BY <2>1 DEF Announced
    <3> QED
      BY <3>1, SameLater DEF WakeInv, NoLostWakeup, InSync
  <2>2. CASE pend' /= {}
    BY <2>2 DEF NoLostWakeup
  <2> QED
    BY <2>1, <2>2
<1> QED
  BY <1>1, <1>2, <1>3 DEF WakeInv

\* Steps after which the SingleDatabase is in the queue.
LEMMA QueuedWake ==
  ASSUME WakeInv, q', FreshCaches' \/ (Announced /\ UNCHANGED caches)
  PROVE  WakeInv'
BY DEF WakeInv, FreshCaches, NoLostWakeup, Announced, caches

\* Steps of the worker that do not end the reconciliation.
LEMMA WorkerWake ==
  ASSUME WakeInv, Announced, UNCHANGED <<q, caches>>, w.pc /= "idle", w'.pc /= "idle",
         SoFar => SoFar'
  PROVE  WakeInv'
BY DEF WakeInv, FreshCaches, NoLostWakeup, Announced, caches

LEMMA FailWake ==
  ASSUME Inv, WakeInv, NEW r, NotReady(r), w.pc /= "idle", Announced, UNCHANGED <<q, caches>>
  PROVE  WakeInv'
<1>1. w \in Worker
  BY DEF Inv, TypeOK
<1>2. w'.pc = "status" /\ w'.next = "again" /\ w'.obj.pod = w.obj.pod
  BY <1>1 DEF NotReady, Worker, Object
<1> QED
  BY <1>2, WorkerWake DEF SoFar, Stopping, caches

LEMMA StartWake ==
  ASSUME WakeInv, Reconcile
  PROVE  WakeInv'
BY DEF Reconcile, WakeInv, FreshCaches, SoFar, Stopping, NoLostWakeup, api, caches

LEMMA EnsureSecretWake ==
  ASSUME Inv, WakeInv, EnsureSecret
  PROVE  WakeInv'
<1>1. w \in Worker /\ w.pc = "secret" /\ UNCHANGED <<q, caches>>
  BY DEF EnsureSecret, Inv, TypeOK
<1>2. Announced
  BY DEF EnsureSecret, NewPassword, SetPassword, Changed, Announced
<1>3. CASE NotReady("Failed")
  BY <1>1, <1>2, <1>3, FailWake
<1>4. CASE w' = [w EXCEPT !.pc = "read"]
  <2>1. w'.pc = "read" /\ w'.obj = w.obj
    BY <1>1, <1>4 DEF Worker
  <2> QED
    BY <1>1, <1>2, <2>1, WorkerWake DEF SoFar, Stopping, caches
<1> QED
  BY <1>3, <1>4 DEF EnsureSecret

LEMMA ReadSecretWake ==
  ASSUME Inv, WakeInv, ReadSecret
  PROVE  WakeInv'
<1>1. w \in Worker /\ w.pc = "read" /\ UNCHANGED caches /\ Announced
  BY DEF ReadSecret, Inv, TypeOK, Announced, api
<1>2. CASE Return(TRUE)
  BY <1>1, <1>2, QueuedWake DEF Return
<1>3. CASE w' = [w EXCEPT !.pc = "pvc", !.hash = cSecret] /\ UNCHANGED q
  <2>1. w'.pc = "pvc" /\ w'.obj = w.obj /\ w'.hash = cSecret
    BY <1>1, <1>3 DEF Worker
  <2> QED
    BY <1>1, <1>3, <2>1, WorkerWake DEF SoFar, Stopping, caches
<1> QED
  BY <1>2, <1>3 DEF ReadSecret, ReadCached

LEMMA EnsurePVCWake ==
  ASSUME Inv, WakeInv, EnsurePVC
  PROVE  WakeInv'
<1>1. w \in Worker /\ w.pc = "pvc" /\ UNCHANGED <<q, caches>>
  BY DEF EnsurePVC, Inv, TypeOK
<1>2. Announced
  BY DEF EnsurePVC, Changed, Announced
<1>3. CASE NotReady("Failed")
  BY <1>1, <1>2, <1>3, FailWake
<1>4. CASE w' = [w EXCEPT !.pc = "service"]
  <2>1. w'.pc = "service" /\ w'.obj = w.obj /\ w'.hash = w.hash
    BY <1>1, <1>4 DEF Worker
  <2> QED
    BY <1>1, <1>2, <2>1, WorkerWake DEF SoFar, Stopping, caches
<1> QED
  BY <1>3, <1>4 DEF EnsurePVC

\* The Service is in the cache or was just created.
LEMMA EnsureServiceWake ==
  ASSUME Inv, WakeInv, EnsureService
  PROVE  WakeInv'
<1>1. w \in Worker /\ w.pc = "service" /\ UNCHANGED <<q, caches>>
  BY DEF EnsureService, Inv, TypeOK
<1>2. Announced
  BY DEF EnsureService, Changed, Announced
<1>3. CASE NotReady("Failed")
  BY <1>1, <1>2, <1>3, FailWake
<1>4. CASE w' = [w EXCEPT !.pc = "sts"] /\ ~NotReady("Failed")
  <2>1. w'.pc = "sts" /\ w'.obj = w.obj /\ w'.hash = w.hash
    BY <1>1, <1>4 DEF Worker
  <2>2. cService \/ "service" \in pend'
    BY <1>4 DEF EnsureService, EnsureFails, EnsureCreates, Exists, Absent, Changed
  <2> QED
    BY <1>1, <1>2, <2>1, <2>2, WorkerWake DEF SoFar, Stopping, caches
<1> QED
  BY <1>3, <1>4 DEF EnsureService

\* The template of the StatefulSet is the one asked for, or was just written.
LEMMA EnsureStatefulSetWake ==
  ASSUME Inv, WakeInv, EnsureStatefulSet
  PROVE  WakeInv'
<1>1. /\ w \in Worker /\ sts \in StatefulSet /\ w.pc = "sts"
      /\ UNCHANGED <<q, caches, values>>
  BY DEF EnsureStatefulSet, Inv, TypeOK
<1>2. Announced
  BY DEF EnsureStatefulSet, Changed, Announced
<1>3. CASE NotReady("Failed")
  BY <1>1, <1>2, <1>3, FailWake
<1>4. CASE /\ w' = [w EXCEPT !.pc = "judge"]
           /\ \/ Same(sts.tmpl, Written) /\ UNCHANGED sts
              \/ "sts" \in pend'
  <2>1. w'.pc = "judge" /\ w'.obj = w.obj /\ w'.hash = w.hash
    BY <1>1, <1>4 DEF Worker
  <2>2. Same(sts.tmpl, Written)' \/ "sts" \in pend'
    BY <1>1, <1>4, <2>1 DEF Same, Value, Written
  <2> QED
    BY <1>1, <1>2, <2>1, <2>2, WorkerWake DEF SoFar, Stopping, Announced, caches
<1> QED
  BY <1>3, <1>4 DEF EnsureStatefulSet, Changed, Written

LEMMA JudgeWake ==
  ASSUME Inv, WakeInv, JudgeStatefulSet
  PROVE  WakeInv'
<1>1. /\ w \in Worker /\ w.pc = "judge" /\ Announced
      /\ UNCHANGED <<q, caches, sts, values>>
  BY DEF JudgeStatefulSet, Inv, TypeOK, Announced, api
<1>2. CASE NotReady("Failed") \/ NotReady("StatefulSetNotReady")
  BY <1>1, <1>2, FailWake
<1>3. CASE /\ w' = [w EXCEPT !.pc = "status", !.obj.cond = "Ready", !.next = "return"]
           /\ cSts.ready
  <2>1. /\ w'.pc = "status" /\ w'.next = "return" /\ w'.obj.pod = w.obj.pod
        /\ w'.obj.cond = "Ready" /\ w'.hash = w.hash
    BY <1>1, <1>3 DEF Worker, Object
  <2>2. Same(sts.tmpl, Written) => Same(sts.tmpl, Written)'
    BY <1>1, <2>1 DEF Same, Value, Written
  <2> QED
    BY <1>1, <1>3, <2>1, <2>2, WorkerWake DEF SoFar, Stopping, Announced, caches
<1> QED
  BY <1>2, <1>3 DEF JudgeStatefulSet, ReplicasReady

\* Here a reconciliation ends without asking for another one: the status that is
\* skipped is that of a database in sync, one that is written is followed by an
\* event.
LEMMA UpdateStatusWake ==
  ASSUME Inv, WakeInv, UpdateStatus
  PROVE  WakeInv'
<1>1. w \in Worker /\ w.pc = "status" /\ q \in BOOLEAN /\ UNCHANGED caches
  BY DEF UpdateStatus, Inv, TypeOK
<1>2. Announced
  BY DEF UpdateStatus, Changed, Announced
<1>3. w'.pc = "idle"
  BY <1>1 DEF UpdateStatus, Return, Worker
<1>4. CASE q'
  BY <1>1, <1>2, <1>4, QueuedWake
<1>5. CASE /\ ~q' /\ ~q /\ Stopping
           /\ "sdb" \in pend' \/ (cSdb.cond = w.obj.cond /\ UNCHANGED <<api, pend>>)
  <2>1. FreshCaches'
    BY <1>1, <1>2 DEF WakeInv, FreshCaches, Announced, caches
  <2>2. CASE "sdb" \in pend' \/ pend' /= {}
    BY <1>3, <2>1, <2>2 DEF WakeInv, NoLostWakeup
  <2>3. CASE pend = {} /\ cSdb.cond = w.obj.cond /\ UNCHANGED <<api, pend>>
    <3>1. SoFar
      <4>1. w.pc /= "idle" /\ ~q
        BY <1>1, <1>5
      <4> QED
        BY <4>1 DEF WakeInv
    <3>2. cSdb = sdb /\ cSecret = secret /\ cService = service /\ cSts = sts
      BY <2>3 DEF WakeInv, FreshCaches
    <3>3. InSync
      <4>1. w.pc = "status" /\ w.next = "return"
        BY <1>5 DEF Stopping
      <4>2. /\ w.obj.pod = sdb.pod /\ w.hash = secret /\ cService
            /\ Same(sts.tmpl, Written) /\ cSts.ready /\ w.obj.cond = "Ready"
        BY <2>3, <3>1, <3>2, <4>1 DEF SoFar, Stopping
      <4>3. sdb.cond = "Ready" /\ Same(sts.tmpl, Wanted)
        BY <2>3, <3>2, <4>2 DEF Written, Wanted
      <4>4. sts.ready /\ service
        BY <3>2, <4>2
      <4> QED
        BY <4>3, <4>4 DEF InSync
    <3> QED
      <4>1. UNCHANGED <<sdb, secret, service, sts, values>>
        BY <2>3 DEF UpdateStatus, api
      <4>2. InSync'
        BY <3>3, <4>1 DEF InSync, Same, Value, Wanted
      <4> QED
        BY <1>3, <2>1, <4>2 DEF WakeInv, NoLostWakeup
  <2> QED
    BY <1>5, <2>2, <2>3
<1> QED
  BY <1>1, <1>4, <1>5 DEF UpdateStatus, Return, Stopping, Changed, Worker, api

LEMMA InformerWake ==
  ASSUME WakeInv, (\E e \in Kinds : Deliver(e)) \/ RestartOperator
  PROVE  WakeInv'
<1>1. q' /\ FreshCaches'
  BY DEF Deliver, Wakes, RestartOperator, WakeInv, FreshCaches, api
<1> QED
  BY <1>1, QueuedWake

LEMMA NextWake == Inv /\ WakeInv /\ [Next]_vars => WakeInv'
<1> SUFFICES ASSUME Inv, WakeInv, [Next]_vars PROVE WakeInv'
  OBVIOUS
<1>1. CASE Controller
  BY <1>1, StartWake, EnsureSecretWake, ReadSecretWake, EnsurePVCWake,
       EnsureServiceWake,
     EnsureStatefulSetWake, JudgeWake, UpdateStatusWake DEF Controller
<1>2. CASE (\E e \in Kinds : Deliver(e)) \/ RestartOperator
  BY <1>2, InformerWake
<1>3. CASE \/ CreatePod \/ ReplacePod \/ ReportReady \/ RunInitContainers \/ StartPostgres
           \/ CrashPostgres \/ EvictPod
  <2>1. Kept
    BY <1>3
    DEF CreatePod, ReplacePod, ReportReady, RunInitContainers, StartPostgres,
        CrashPostgres, EvictPod, Kept
  <2> QED
    BY <1>3, <2>1, OtherWake
    DEF CreatePod, ReplacePod, ReportReady, RunInitContainers, StartPostgres,
        CrashPostgres, EvictPod, Announced, Changed, api
<1>4. CASE RotatePassword
  <2>1. Kept
    BY <1>4, SettingInv, SetPasswordInv
  <2> QED
    BY <1>4, <2>1, OtherWake DEF RotatePassword, SetPassword, Announced, Changed
<1>5. CASE EditPod \/ EditStorage \/ DeleteSecret \/ DeleteService \/ DeleteStatefulSet
  <2>1. Kept
    BY <1>5 DEF EditPod, EditStorage, DeleteSecret, DeleteService, DeleteStatefulSet, Kept
  <2> QED
    BY <1>5, <2>1, OtherWake
    DEF EditPod, EditStorage, DeleteSecret, DeleteService, DeleteStatefulSet, Announced,
        Changed
<1>6. CASE UNCHANGED vars
  BY <1>6, OtherWake DEF Announced, Kept, vars, api
<1> QED
  BY <1>1, <1>2, <1>3, <1>4, <1>5, <1>6 DEF Next, Cluster, Environment

\* The controller never forgets the SingleDatabase: unless everything is as it
\* asks for, it is queued, being reconciled, or has an event on its way.
THEOREM NoWakeupIsLost == Spec => []NoLostWakeup
<1>1. WakeInv => NoLostWakeup
  BY DEF WakeInv
<1> QED
  BY <1>1, InitInv, NextInv, InitWake, NextWake, PTL DEF Spec
=============================================================================
