--------------------------- MODULE SingleDatabase ---------------------------
(***************************************************************************)
(* The SingleDatabase controller: the password Secret, the volume claim,   *)
(* the Service and the StatefulSet of one database, and how a change of    *)
(* the password reaches the roles of the server, which is by replacing the *)
(* Pod: the hash of the Secret is an annotation of its template, and       *)
(* singledatabase-password-sync.sh runs before the server starts.          *)
(*                                                                         *)
(* Every call of Reconcile that reads a cache or writes to the API server  *)
(* is an action.  The StatefulSet controller and the kubelet are external. *)
(***************************************************************************)
EXTENDS Naturals, Sequences, FiniteSets, Ensure

CONSTANTS
  Pods,       \* values of spec.pod
  Broken,     \* those of them whose Pod never becomes ready
  Claims,     \* values of spec.storage that differ in an immutable field
  NoClaim,    \* no value of it
  Faults,     \* the kinds of edit and disturbance that may happen
  MaxFaults,  \* bound: how many of them may happen, of whatever kind
  MaxStale    \* bound: caches that are behind when a reconciliation starts

ASSUME SingleDatabaseAssumption ==
  /\ Pods /= {} /\ Broken \subseteq Pods
  /\ Claims /= {} /\ NoClaim \notin Claims
  /\ Faults \subseteq {"rotate", "pod", "storage", "delete", "restart", "api",
                       "crash", "evict"}
  /\ MaxFaults \in Nat
  /\ MaxStale \in 0..5

VARIABLES
  \* the API server
  sdb,     \* the SingleDatabase: spec.pod, spec.storage, the Ready condition
  secret,  \* the setting of the password in <db>-postgres-auth
  pvc,     \* the claim <db>-postgres-data, as spec.storage has asked for it
  service, \* the Service <db>-postgres exists
  sts,     \* the StatefulSet <db>-postgres: its template, status.readyReplicas
  \* the informer caches, and the events on their way to them
  cSdb, cSecret, cPvc, cService, cSts, pend,
  \* the controller
  q,       \* the SingleDatabase is in the work queue
  w,       \* the worker: the reconciliation in progress
  \* the kubelet and the volume
  pod,     \* the Pod of the StatefulSet
  data,    \* the setting the administrators' password in the data directory is of
  values,  \* history: values[n] is the password of the n-th setting
  \* the environment
  budget   \* how many faults may still happen

api    == <<sdb, secret, pvc, service, sts>>
caches == <<cSdb, cSecret, cPvc, cService, cSts>>
vars   == <<api, caches, pend, q, w, pod, data, values, budget>>

\* What is read of the Secret is the number of its setting, 0 being none; the
\* program sees but the password, which may be that of an earlier setting.  The
\* hash of a Secret is identified with its password.
NoPw     == 0
last     == Len(values)
Value(n) == IF n = NoPw THEN NoPw ELSE values[n]

Kinds  == {"sdb", "secret", "pvc", "service", "sts"}
Reasons == {"None", "Ready", "StatefulSetNotReady", "Failed"}

\* podAnnotations and the rest of the template; hash NoPw: no StatefulSet.
Template == [hash : Nat, pod : Pods]
NoTemplate(t) == t.hash = NoPw
Same(t, u) == t.pod = u.pod /\ Value(t.hash) = Value(u.hash)

Object      == [pod : Pods, claim : Claims, cond : Reasons]
StatefulSet == [tmpl : Template, ready : BOOLEAN]

\* hash: of the Secret that Reconcile has read.
Worker == [pc : {"idle", "secret", "read", "pvc", "service", "sts", "judge", "status"},
           obj : Object, hash : Nat, next : {"return", "again"}]

\* init: the Pod is scheduled; synced: its init containers are done.
Pod == [pc : {"none", "init", "synced", "up"}, tmpl : Template]

TypeOK ==
  /\ sdb \in Object /\ cSdb \in Object
  /\ secret \in Nat /\ cSecret \in Nat
  /\ pvc \in Claims \cup {NoClaim} /\ cPvc \in Claims \cup {NoClaim}
  /\ service \in BOOLEAN /\ cService \in BOOLEAN
  /\ sts \in StatefulSet /\ cSts \in StatefulSet
  /\ pend \subseteq Kinds
  /\ q \in BOOLEAN
  /\ w \in Worker
  /\ pod \in Pod
  /\ data \in Nat /\ values \in Seq(Nat \ {NoPw})
  /\ budget \in Nat

\* The operator has listed a SingleDatabase that was just created.
Init ==
  /\ sdb \in {[pod |-> p, claim |-> c, cond |-> "None"] :
                p \in Pods \ Broken, c \in Claims}
  /\ secret = NoPw /\ pvc = NoClaim /\ service = FALSE
  /\ sts = [tmpl |-> [hash |-> NoPw, pod |-> sdb.pod], ready |-> FALSE]
  /\ cSdb = sdb /\ cSecret = secret /\ cPvc = pvc /\ cService = service
  /\ cSts = sts
  /\ pend = {}
  /\ q = TRUE
  /\ w = [pc |-> "idle", obj |-> sdb, hash |-> NoPw, next |-> "return"]
  /\ pod = [pc |-> "none", tmpl |-> sts.tmpl]
  /\ data = NoPw /\ values = << >>
  /\ budget = MaxFaults

Fault(f) == f \in Faults /\ budget > 0 /\ budget' = budget - 1

\* The API server changed the object of kind e; its watch event is on its way.
Changed(e) == pend' = pend \cup {e}

-----------------------------------------------------------------------------
(***************************************************************************)
(* The user.                                                               *)
(***************************************************************************)

SetPassword(value) ==
  /\ secret' = last + 1
  /\ values' = Append(values, value)
  /\ Changed("secret")

\* A password the Secret has not had before.
NewPassword == SetPassword(last + 1)

\* To a new password, or back to one the Secret had before.
RotatePassword ==
  /\ secret /= NoPw /\ Fault("rotate")
  /\ \E value \in {values[n] : n \in 1..last} \cup {last + 1} :
       value /= Value(secret) /\ SetPassword(value)
  /\ UNCHANGED <<sdb, pvc, service, sts, caches, q, w, pod, data>>

EditPod ==
  /\ Fault("pod")
  /\ \E p \in Pods \ {sdb.pod} : sdb' = [sdb EXCEPT !.pod = p]
  /\ Changed("sdb")
  /\ UNCHANGED <<secret, pvc, service, sts, caches, q, w, pod, data, values>>

EditStorage ==
  /\ Fault("storage")
  /\ \E c \in Claims \ {sdb.claim} : sdb' = [sdb EXCEPT !.claim = c]
  /\ Changed("sdb")
  /\ UNCHANGED <<secret, pvc, service, sts, caches, q, w, pod, data, values>>

DeleteSecret ==
  /\ secret /= NoPw /\ Fault("delete")
  /\ secret' = NoPw
  /\ Changed("secret")
  /\ UNCHANGED <<sdb, pvc, service, sts, caches, q, w, pod, data, values>>

DeleteService ==
  /\ service /\ Fault("delete")
  /\ service' = FALSE
  /\ Changed("service")
  /\ UNCHANGED <<sdb, secret, pvc, sts, caches, q, w, pod, data, values>>

\* With the Pod.
DeleteStatefulSet ==
  /\ ~NoTemplate(sts.tmpl) /\ Fault("delete")
  /\ sts' = [sts EXCEPT !.tmpl.hash = NoPw, !.ready = FALSE]
  /\ pod' = [pod EXCEPT !.pc = "none"]
  /\ Changed("sts")
  /\ UNCHANGED <<sdb, secret, pvc, service, caches, q, w, data, values>>

-----------------------------------------------------------------------------
(***************************************************************************)
(* Informers.  SetupWithManager watches the SingleDatabase and the four    *)
(* kinds it owns.                                                          *)
(***************************************************************************)

\* Faulty variant: Owns(Secret) is missing.
WakesButSecrets(e) == q' = (q \/ e /= "secret")

\* The event enqueues the SingleDatabase.
Wakes(e) == q' = TRUE

Deliver(e) ==
  /\ e \in pend
  /\ pend' = pend \ {e}
  /\ Wakes(e)
  /\ cSdb'     = IF e = "sdb" THEN sdb ELSE cSdb
  /\ cSecret'  = IF e = "secret" THEN secret ELSE cSecret
  /\ cPvc'     = IF e = "pvc" THEN pvc ELSE cPvc
  /\ cService' = IF e = "service" THEN service ELSE cService
  /\ cSts'     = IF e = "sts" THEN sts ELSE cSts
  /\ UNCHANGED <<api, w, pod, data, values, budget>>

RestartOperator ==
  /\ Fault("restart")
  /\ cSdb' = sdb /\ cSecret' = secret /\ cPvc' = pvc /\ cService' = service
  /\ cSts' = sts
  /\ pend' = {}
  /\ q' = TRUE
  /\ w' = [w EXCEPT !.pc = "idle"]
  /\ UNCHANGED <<api, pod, data, values>>

-----------------------------------------------------------------------------
(***************************************************************************)
(* Reconcile.                                                              *)
(***************************************************************************)

\* A call to the API server returns an error, for the reason given or because
\* the request itself fails.
Errs(reason) == IF reason THEN UNCHANGED budget ELSE Fault("api")

\* Faulty variant: the condition gets no reason, which the API server refuses.
NotReadyUnreasoned(reason) ==
  w' = [w EXCEPT !.pc = "status", !.obj.cond = "", !.next = "again"]

\* SetNotReady and the way to UpdateStatus; every such path of Reconcile ends
\* with an error or a RequeueAfter.
NotReady(reason) ==
  w' = [w EXCEPT !.pc = "status", !.obj.cond = reason, !.next = "again"]

\* Get of the SingleDatabase.
Reconcile ==
  /\ w.pc = "idle" /\ q
  /\ Cardinality(pend) <= MaxStale
  /\ q' = FALSE
  /\ w' = [pc |-> "secret", obj |-> cSdb, hash |-> NoPw, next |-> "return"]
  /\ UNCHANGED <<api, caches, pend, pod, data, values, budget>>

Exists(there) == IF there THEN 1 ELSE Absent

\* ensureSecret: MutateSecret keeps the password of a Secret that exists.
EnsureSecret ==
  /\ w.pc = "secret"
  /\ LET seen  == Exists(cSecret /= NoPw)
         there == Exists(secret /= NoPw)
         fails == EnsureFails(seen, there, 1, FALSE, "secret" \in pend)
     IN  \/ /\ Errs(fails)
            /\ NotReady("Failed")
            /\ UNCHANGED <<secret, values, pend>>
         \/ /\ ~fails
            /\ IF EnsureCreates(seen, there) THEN NewPassword
               ELSE UNCHANGED <<secret, values, pend>>
            /\ w' = [w EXCEPT !.pc = "read"]
            /\ UNCHANGED budget
  /\ UNCHANGED <<sdb, pvc, service, sts, caches, q, pod, data>>

\* The end of a reconciliation; asks for another one if `again`.
Return(again) ==
  /\ w' = [w EXCEPT !.pc = "idle"]
  /\ q' = (q \/ again)

\* Faulty variant: the hash is that of the Secret's name, and never changes.
ReadName ==
  IF cSecret = NoPw THEN Return(TRUE)
  ELSE w' = [w EXCEPT !.pc = "pvc", !.hash = 1] /\ UNCHANGED q

\* Get of the Secret, from the cache, and SecretHash of it; a Secret that is not
\* found is an error, without an update of the status.
ReadCached ==
  IF cSecret = NoPw THEN Return(TRUE)
  ELSE w' = [w EXCEPT !.pc = "pvc", !.hash = cSecret] /\ UNCHANGED q

ReadSecret ==
  /\ w.pc = "read"
  /\ ReadCached
  /\ UNCHANGED <<api, caches, pend, pod, data, values, budget>>

\* ensurePVC: MutatePVC refuses a change of an immutable field.
EnsurePVC ==
  /\ w.pc = "pvc"
  /\ LET seen  == Exists(cPvc /= NoClaim)
         there == Exists(pvc /= NoClaim)
         fails == \/ EnsureFails(seen, there, 1, FALSE, "pvc" \in pend)
                  \/ cPvc \notin {NoClaim, w.obj.claim}
     IN  \/ /\ Errs(fails)
            /\ NotReady("Failed")
            /\ UNCHANGED <<pvc, pend>>
         \/ /\ ~fails
            /\ IF EnsureCreates(seen, there)
               THEN pvc' = w.obj.claim /\ Changed("pvc")
               ELSE UNCHANGED <<pvc, pend>>
            /\ w' = [w EXCEPT !.pc = "service"]
            /\ UNCHANGED budget
  /\ UNCHANGED <<sdb, secret, service, sts, caches, q, pod, data, values>>

\* ensureService.
EnsureService ==
  /\ w.pc = "service"
  /\ LET seen  == Exists(cService)
         there == Exists(service)
         fails == EnsureFails(seen, there, 1, FALSE, "service" \in pend)
     IN  \/ /\ Errs(fails)
            /\ NotReady("Failed")
            /\ UNCHANGED <<service, pend>>
         \/ /\ ~fails
            /\ IF EnsureCreates(seen, there)
               THEN service' = TRUE /\ Changed("service")
               ELSE UNCHANGED <<service, pend>>
            /\ w' = [w EXCEPT !.pc = "sts"]
            /\ UNCHANGED budget
  /\ UNCHANGED <<sdb, secret, pvc, sts, caches, q, pod, data, values>>

\* ensureStatefulSet.  The defaults of the API server make the mutated object
\* differ from the cached one each time, so an Update is sent each time.
EnsureStatefulSet ==
  /\ w.pc = "sts"
  /\ LET tmpl  == [hash |-> w.hash, pod |-> w.obj.pod]
         seen  == Exists(~NoTemplate(cSts.tmpl))
         there == Exists(~NoTemplate(sts.tmpl))
         fails == EnsureFails(seen, there, 1, TRUE, "sts" \in pend)
     IN  \/ /\ Errs(fails)
            /\ NotReady("Failed")
            /\ UNCHANGED <<sts, pend>>
         \/ /\ ~fails
            /\ IF Same(sts.tmpl, tmpl) THEN UNCHANGED <<sts, pend>>
               ELSE sts' = [sts EXCEPT !.tmpl = tmpl] /\ Changed("sts")
            /\ w' = [w EXCEPT !.pc = "judge"]
            /\ UNCHANGED budget
  /\ UNCHANGED <<sdb, secret, pvc, service, caches, q, pod, data, values>>

\* Faulty variant: a StatefulSet that exists is ready.
ReplicasExist(s) == TRUE

ReplicasReady(s) == s.ready

\* Get of the StatefulSet, from the cache, and markReady.
JudgeStatefulSet ==
  /\ w.pc = "judge"
  /\ IF NoTemplate(cSts.tmpl) THEN NotReady("Failed")
     ELSE IF ~ReplicasReady(cSts) THEN NotReady("StatefulSetNotReady")
     ELSE w' = [w EXCEPT !.pc = "status", !.obj.cond = "Ready", !.next = "return"]
  /\ UNCHANGED <<api, caches, pend, q, pod, data, values, budget>>

\* UpdateStatus: reads the object from the cache again, and sends the update
\* with the resourceVersion found there if the status differs.
UpdateStatus ==
  /\ w.pc = "status"
  /\ LET skips    == cSdb.cond = w.obj.cond
         conflict == "sdb" \in pend
     IN  \/ /\ ~skips
            /\ Errs(conflict)
            /\ Return(TRUE)
            /\ UNCHANGED <<sdb, pend>>
         \/ /\ skips
            /\ Return(w.next = "again")
            /\ UNCHANGED <<sdb, pend, budget>>
         \/ /\ ~skips /\ ~conflict
            /\ sdb' = [sdb EXCEPT !.cond = w.obj.cond]
            /\ Changed("sdb")
            /\ Return(w.next = "again")
            /\ UNCHANGED budget
  /\ UNCHANGED <<secret, pvc, service, sts, caches, pod, data, values>>

-----------------------------------------------------------------------------
(***************************************************************************)
(* The StatefulSet controller, with the default OrderedReady: a Pod of an  *)
(* older template is replaced once it is ready.                            *)
(***************************************************************************)

CreatePod ==
  /\ ~NoTemplate(sts.tmpl) /\ pod.pc = "none"
  /\ pod' = [pc |-> "init", tmpl |-> sts.tmpl]
  /\ UNCHANGED <<api, caches, pend, q, w, data, values, budget>>

\* preStop stops the server before the Pod is gone.
ReplacePod ==
  /\ ~NoTemplate(sts.tmpl) /\ pod.pc = "up" /\ ~Same(pod.tmpl, sts.tmpl)
  /\ pod' = [pod EXCEPT !.pc = "none"]
  /\ UNCHANGED <<api, caches, pend, q, w, data, values, budget>>

ReportReady ==
  /\ ~NoTemplate(sts.tmpl) /\ sts.ready /= (pod.pc = "up")
  /\ sts' = [sts EXCEPT !.ready = ~@]
  /\ Changed("sts")
  /\ UNCHANGED <<sdb, secret, pvc, service, caches, q, w, pod, data, values, budget>>

-----------------------------------------------------------------------------
(***************************************************************************)
(* The kubelet: a container is created with the password the Secret has at *)
(* that moment, and not without one.                                       *)
(***************************************************************************)

\* Faulty variant: there is no init container password-sync.
NotSynced == data

\* Faulty variant: a data directory that does not exist yet is not told apart.
SyncedWithoutCheck == secret

\* singledatabase-password-sync.sh: skipped if there is no data directory.
PasswordSynced == IF data = NoPw THEN NoPw ELSE secret

RunInitContainers ==
  /\ pod.pc = "init" /\ secret /= NoPw /\ pvc /= NoClaim
  /\ data' = PasswordSynced
  /\ pod' = [pod EXCEPT !.pc = "synced"]
  /\ UNCHANGED <<api, caches, pend, q, w, values, budget>>

\* The server starts, after initdb with POSTGRES_PASSWORD if there is no data
\* directory, and pg_isready says so.
StartPostgres ==
  /\ pod.pc = "synced" /\ secret /= NoPw /\ pod.tmpl.pod \notin Broken
  /\ data' = IF data = NoPw THEN secret ELSE data
  /\ pod' = [pod EXCEPT !.pc = "up"]
  /\ UNCHANGED <<api, caches, pend, q, w, values, budget>>

\* The container is restarted in its Pod, whose init containers are done.
CrashPostgres ==
  /\ pod.pc = "up" /\ Fault("crash")
  /\ pod' = [pod EXCEPT !.pc = "synced"]
  /\ UNCHANGED <<api, caches, pend, q, w, data, values>>

EvictPod ==
  /\ pod.pc /= "none" /\ Fault("evict")
  /\ pod' = [pod EXCEPT !.pc = "none"]
  /\ UNCHANGED <<api, caches, pend, q, w, data, values>>

-----------------------------------------------------------------------------
Controller ==
  \/ Reconcile \/ EnsureSecret \/ ReadSecret \/ EnsurePVC \/ EnsureService
  \/ EnsureStatefulSet \/ JudgeStatefulSet \/ UpdateStatus

Cluster ==
  \/ \E e \in Kinds : Deliver(e)
  \/ CreatePod \/ ReplacePod \/ ReportReady
  \/ RunInitContainers \/ StartPostgres

Environment ==
  \/ RotatePassword \/ EditPod \/ EditStorage
  \/ DeleteSecret \/ DeleteService \/ DeleteStatefulSet
  \/ RestartOperator \/ CrashPostgres \/ EvictPod

Next == Controller \/ Cluster \/ Environment

Spec == Init /\ [][Next]_vars

\* The worker serves a queued SingleDatabase, informers deliver every event, the
\* StatefulSet controller and the kubelet act.
Fairness ==
  /\ WF_vars(Controller)
  /\ \A e \in Kinds : WF_vars(Deliver(e))
  /\ WF_vars(CreatePod) /\ WF_vars(ReplacePod) /\ WF_vars(ReportReady)
  /\ WF_vars(RunInitContainers) /\ WF_vars(StartPostgres)

FairSpec == Spec /\ Fairness
-----------------------------------------------------------------------------
(***************************************************************************)
(* Properties.                                                             *)
(***************************************************************************)

\* The server was started while the Secret had another password than the one its
\* Pod carries the hash of, and the Secret was set back to that one since.
SetBack == pod.tmpl.hash < data /\ data < secret

\* A server whose Pod carries the hash of the present Secret has its password, or
\* a later one that was taken back.  Hash and password are read by two programs
\* at two times, from a cache and from the API server, and nothing but their
\* order makes them agree: a server is never behind the hash of its Pod.
RunningIsCurrent ==
  pod.pc = "up" /\ Value(pod.tmpl.hash) = Value(secret) =>
    Value(data) = Value(secret) \/ SetBack

\* A Ready database has been initialised, although the StatefulSet that
\* JudgeStatefulSet reads is a cached one whose template may have changed.
ReadyIsInitialised == sdb.cond = "Ready" => data /= NoPw

\* The database is at rest as the SingleDatabase asks for it.
Wanted == [hash |-> secret, pod |-> sdb.pod]
InSync ==
  /\ sdb.cond = "Ready"
  /\ Same(sts.tmpl, Wanted)
  /\ sts.ready /\ service

\* The controller never forgets the SingleDatabase, whatever is deleted, edited
\* or missed by a cache: unless everything is as asked for, it is queued, being
\* reconciled, or has an event on its way that enqueues it.
NoLostWakeup == InSync \/ q \/ w.pc /= "idle" \/ pend /= {}

\* From some time on spec.storage is what the claim was created with, and there
\* is no Pod that cannot become ready: OrderedReady keeps it for ever.
Admissible ==
  <>[](pvc \in {NoClaim, sdb.claim} /\ pod.tmpl.pod \notin Broken)

AsWanted == InSync /\ pod.pc = "up" /\ Same(pod.tmpl, Wanted)

\* After the last edit and fault, the database runs for good as it is asked for,
\* and is Ready, with the password of the Secret unless that was set back behind
\* the server's start.
EventuallyCurrent ==
  Admissible => <>[](AsWanted /\ (Value(data) = Value(secret) \/ SetBack))

\* The administrators' password only changes while the server is down, and only
\* to the last setting of the Secret.
Promise == INSTANCE Database WITH admin <- data, up <- (pod.pc = "up")
ImplementsDatabase == Promise!Spec
-----------------------------------------------------------------------------
(***************************************************************************)
(* What one would expect of the code, and it does not do.                  *)
(***************************************************************************)

\* The hash in the template makes the Pod follow the password.  Not if the Secret
\* is set back: its hash is again the one the Pod carries, and nothing tells that
\* the server was started with the password in between.
EventuallyPassword == Admissible => <>[](AsWanted /\ Value(data) = Value(secret))
=============================================================================
