---------------------------- MODULE VectorProofs ----------------------------
(***************************************************************************)
(* Proofs about Vector, for every number of incarnations and bounds on     *)
(* faults and stale caches.                                                *)
(***************************************************************************)
EXTENDS Vector, FiniteSetTheorems, TLAPS

\* What the types leave out: a Vector has had a UID since the first one, and
\* the worker knows it when it writes permissions for it.
WellFormed ==
  /\ vec.uid \in Incs /\ cVec.uid \in Incs
  /\ w.pc \in {"role", "binding"} => w.uid \in Incs

TypeInv == TypeOK /\ WellFormed

-----------------------------------------------------------------------------
(***************************************************************************)
(* The values the actions build are well typed.                            *)
(***************************************************************************)

LEMMA IdleType == Idle \in Worker /\ Idle.pc = "idle"
BY VectorAssumption DEF Idle, Worker, Unread, Vector, Phases, Reasons

\* The worker on its way to an update of the status, to another write, or with
\* a Vector it has read.
LEMMA StatusTypes ==
  ASSUME NEW reason \in Reasons
  PROVE  /\ [Idle EXCEPT !.pc = "status", !.cond = reason] \in Worker
         /\ [Idle EXCEPT !.pc = "status", !.cond = reason].pc = "status"
BY IdleType DEF Worker

LEMMA GotoTypes ==
  ASSUME TypeInv, NEW pc, pc \in {"binding", "config", "daemonset", "judge", "unrole", "unfinalize"},
         Goto(pc)
  PROVE  /\ w' \in Worker
         /\ w'.pc = pc /\ w'.uid = w.uid /\ w'.read = w.read
BY DEF TypeInv, TypeOK, Goto, Worker

LEMMA BegunTypes ==
  ASSUME TypeInv
  PROVE  /\ Begun \in Worker
         /\ Begun.pc \in {"idle", "status", "role", "remove"}
         /\ Begun.pc = "role" => cVec.phase = "live" /\ Begun.uid = cVec.uid
<1> DEFINE begun == [pc     |-> IF cAn.phase = "live" THEN "role" ELSE "remove",
                     read   |-> Unread,
                     uid    |-> cVec.uid,
                     target |-> cPeer = "live",
                     ready  |-> cAn.ready,
                     cond   |-> "None"]
<1>1. /\ begun \in Worker /\ begun.pc \in {"role", "remove"} /\ begun.uid = cVec.uid
  <2>1. Unread \in Vector
    BY VectorAssumption DEF Unread, Vector, Phases, Reasons
  <2>2. cVec.uid \in 0..MaxInc /\ cAn.ready \in BOOLEAN
    BY DEF TypeInv, TypeOK, Vector, Analytics
  <2> QED
    BY <2>1, <2>2 DEF Worker, Reasons
<1>2. Begun = IF cVec.phase /= "live" THEN Idle
              ELSE IF cProj /= "live" THEN [Idle EXCEPT !.pc = "status", !.cond = "Waiting"]
              ELSE begun
  BY DEF Begun
<1> HIDE DEF begun
<1> QED
  BY <1>1, <1>2, IdleType, StatusTypes DEF Reasons

LEMMA ChangedTypes ==
  ASSUME TypeInv, NEW e \in Events, Changed(e) \/ UNCHANGED pend
  PROVE  pend' \subseteq Events
BY DEF TypeInv, TypeOK, Changed

LEMMA FaultTypes ==
  ASSUME TypeInv, NEW f, Fault(f) \/ UNCHANGED budget
  PROVE  budget' \in Nat
BY DEF TypeInv, TypeOK, Fault

-----------------------------------------------------------------------------
(***************************************************************************)
(* TypeInv holds initially and is kept by every action.                    *)
(***************************************************************************)

LEMMA InitTypes == Init => TypeInv
<1> SUFFICES ASSUME Init PROVE TypeInv
  OBVIOUS
<1>1. vec \in Vector /\ vec.uid \in Incs
  BY VectorAssumption DEF Init, Vector, Phases, Reasons, Incs
<1>2. an \in Analytics /\ NoConfig \in Config /\ NoDs \in DaemonSet
  BY VectorAssumption DEF Init, Analytics, Phases, NoConfig, Config, NoDs, DaemonSet,
       Absent
<1>3. TypeOK
  BY <1>1, <1>2, IdleType, VectorAssumption DEF Init, TypeOK, Phases
<1> QED
  BY <1>1, <1>3, IdleType DEF Init, TypeInv, WellFormed

LEMMA LifeTypes ==
  ASSUME TypeInv, Create \/ Delete
  PROVE  TypeInv'
<1>1. budget' \in Nat /\ pend' \subseteq Events
  BY FaultTypes, ChangedTypes DEF Create, Delete, Events
<1>2. vec' \in Vector /\ vec'.uid \in Incs
  <2>1. vec \in Vector /\ vec.uid \in Incs
    BY DEF TypeInv, TypeOK, WellFormed
  <2>2. CASE Create
    BY <2>1, <2>2, VectorAssumption DEF Create, Vector, Phases, Reasons, Incs
  <2>3. CASE Delete
    BY <2>1, <2>3 DEF Delete, Vector, Phases
  <2> QED
    BY <2>2, <2>3
<1>3. UNCHANGED <<an, peer, proj, role, binding, config, ds, nodes, caches, q, w>>
  BY DEF Create, Delete
<1> QED
  BY <1>1, <1>2, <1>3 DEF TypeInv, TypeOK, WellFormed, caches

LEMMA OthersTypes ==
  ASSUME TypeInv,
         \/ ChangeAnalytics \/ ChangePeer \/ ChangeProject \/ ChangeNodes
         \/ AnalyticsReady \/ FinishDelete \/ Rollout \/ CollectGarbage
  PROVE  TypeInv'
<1>1. budget' \in Nat
  BY FaultTypes DEF ChangeAnalytics, ChangePeer, ChangeProject, ChangeNodes,
     AnalyticsReady, FinishDelete, Rollout, CollectGarbage
<1>2. pend' \subseteq Events
  BY ChangedTypes DEF ChangeAnalytics, ChangePeer, ChangeProject, ChangeNodes,
     AnalyticsReady, FinishDelete, Rollout, CollectGarbage, Events
<1>3. an' \in Analytics
  <2>1. CASE ChangeAnalytics
    BY <2>1 DEF ChangeAnalytics, Follows, Analytics, Phases
  <2>2. CASE AnalyticsReady \/ FinishDelete
    BY <2>2 DEF AnalyticsReady, FinishDelete, Analytics, Phases, TypeInv, TypeOK
  <2> QED
    BY <2>1, <2>2 DEF ChangePeer, ChangeProject, ChangeNodes, Rollout, CollectGarbage,
         TypeInv, TypeOK
<1>4. peer' \in Phases /\ proj' \in Phases
  BY DEF ChangeAnalytics, ChangePeer, ChangeProject, ChangeNodes, AnalyticsReady,
     FinishDelete, Rollout, CollectGarbage, Follows, Phases, TypeInv, TypeOK
<1>5. nodes' \in BOOLEAN
  BY DEF ChangeAnalytics, ChangePeer, ChangeProject, ChangeNodes, AnalyticsReady,
     FinishDelete, Rollout, CollectGarbage, TypeInv, TypeOK
<1>6. ds' \in DaemonSet
  <2>1. NoDs \in DaemonSet /\ ds \in DaemonSet
    BY VectorAssumption DEF NoDs, DaemonSet, Absent, TypeInv, TypeOK
  <2>2. ASSUME NEW b \in BOOLEAN
        PROVE  [ds EXCEPT !.done = b] \in DaemonSet
    BY <2>1 DEF DaemonSet
  <2>3. CASE ChangeNodes
    <3>1. ds' = [ds EXCEPT !.done = (ds.owner /= Absent /\ nodes')]
      BY <2>3 DEF ChangeNodes
    <3>2. (ds.owner /= Absent /\ nodes') \in BOOLEAN
      OBVIOUS
    <3> QED
      BY <2>2, <3>1, <3>2
  <2>4. CASE Rollout
    BY <2>2, <2>4 DEF Rollout
  <2>5. CASE CollectGarbage
    BY <2>1, <2>5 DEF CollectGarbage
  <2> QED
    BY <2>1, <2>3, <2>4, <2>5
    DEF ChangeAnalytics, ChangePeer, ChangeProject, AnalyticsReady, FinishDelete
<1>7. config' \in Config
  <2>1. NoConfig \in Config
    BY VectorAssumption DEF NoConfig, Config, Absent
  <2> QED
    BY <2>1 DEF ChangeAnalytics, ChangePeer, ChangeProject, ChangeNodes, AnalyticsReady,
       FinishDelete, Rollout, CollectGarbage, TypeInv, TypeOK
<1>8. UNCHANGED <<vec, role, binding, caches, q, w>>
  BY DEF ChangeAnalytics, ChangePeer, ChangeProject, ChangeNodes, AnalyticsReady,
     FinishDelete, Rollout, CollectGarbage
<1> QED
  BY <1>1, <1>2, <1>3, <1>4, <1>5, <1>6, <1>7, <1>8 DEF TypeInv, TypeOK, WellFormed,
       caches

LEMMA RBACTypes ==
  ASSUME TypeInv, NEW u \in Incs, DeleteRBAC(u)
  PROVE  TypeInv'
<1>1. budget' \in Nat /\ pend' \subseteq Events
  BY FaultTypes, ChangedTypes DEF DeleteRBAC, Events
<1> QED
  BY <1>1 DEF DeleteRBAC, TypeInv, TypeOK, WellFormed, caches

LEMMA InformerTypes ==
  ASSUME TypeInv, (\E e \in Events : Deliver(e)) \/ RestartOperator
  PROVE  TypeInv'
<1>1. ASSUME NEW e \in Events, Deliver(e)
      PROVE  TypeInv'
  <2>1. q' \in BOOLEAN
    BY <1>1 DEF Deliver, Wakes, TypeInv, TypeOK
  <2> QED
    BY <1>1, <2>1 DEF Deliver, TypeInv, TypeOK, WellFormed, api
<1>2. CASE RestartOperator
  <2>1. budget' \in Nat
    BY <1>2, FaultTypes DEF RestartOperator
  <2> QED
    BY <1>2, <2>1, IdleType DEF RestartOperator, TypeInv, TypeOK, WellFormed, api
<1> QED
  BY <1>1, <1>2

LEMMA StartTypes ==
  ASSUME TypeInv, Start \/ Begin
  PROVE  TypeInv'
<1>1. cVec \in Vector /\ cVec.uid \in 0..MaxInc
  BY DEF TypeInv, TypeOK, Vector
<1>2. \/ w' = Begun
      \/ w' = [Idle EXCEPT !.pc = "unbind", !.uid = cVec.uid, !.read = cVec]
      \/ w' = [Idle EXCEPT !.pc = "finalizer", !.read = cVec]
  BY DEF Start, Begin
<1>3. w' \in Worker /\ (w'.pc \in {"role", "binding"} => w'.uid \in Incs)
  BY <1>1, <1>2, IdleType, BegunTypes DEF Worker, TypeInv, WellFormed
<1> QED
  BY <1>3 DEF Start, Begin, TypeInv, TypeOK, WellFormed, api, caches

LEMMA FinalizerTypes ==
  ASSUME TypeInv, AddFinalizer \/ RemoveFinalizer \/ UpdateStatus
  PROVE  TypeInv'
<1>1. w \in Worker /\ vec \in Vector
  BY DEF TypeInv, TypeOK
<1>2. vec' \in Vector /\ vec'.uid = vec.uid
  <2>1. CASE AddFinalizer \/ RemoveFinalizer
    BY <1>1, <2>1 DEF AddFinalizer, RemoveFinalizer, Vector, Phases
  <2>2. CASE UpdateStatus
    <3>1. Verdict \in Reasons
      BY <1>1 DEF Verdict, Worker, Reasons
    <3>2. vec' = vec \/ vec' = [vec EXCEPT !.cond = Verdict]
      BY <2>2 DEF UpdateStatus
    <3> QED
      BY <1>1, <3>1, <3>2 DEF Vector
  <2> QED
    BY <2>1, <2>2
<1>3. w' \in Worker /\ w'.pc \in {"idle", "begin"}
  <2>1. w' = Idle \/ w' = [Idle EXCEPT !.pc = "begin"]
    BY DEF AddFinalizer, RemoveFinalizer, UpdateStatus, Return
  <2> QED
    BY <2>1, IdleType DEF Worker
<1>4. q' \in BOOLEAN
  BY DEF AddFinalizer, RemoveFinalizer, UpdateStatus, Return, TypeInv, TypeOK
<1>5. pend' \subseteq Events /\ budget' \in Nat
  BY FaultTypes, ChangedTypes DEF AddFinalizer, RemoveFinalizer, UpdateStatus, Errs,
       Events
<1>6. UNCHANGED <<an, peer, proj, role, binding, config, ds, nodes, caches>>
  BY DEF AddFinalizer, RemoveFinalizer, UpdateStatus
<1> QED
  BY <1>2, <1>3, <1>4, <1>5, <1>6 DEF TypeInv, TypeOK, WellFormed, caches

LEMMA ChildrenTypes ==
  ASSUME TypeInv,
         \/ EnsureRole \/ EnsureBinding \/ EnsureConfigMap \/ EnsureDaemonSet
         \/ RemoveDaemonSet \/ DeleteBinding \/ DeleteRole
  PROVE  TypeInv'
<1>1. w \in Worker /\ w.uid \in 0..MaxInc /\ w.target \in BOOLEAN /\ cConfig.target \in BOOLEAN
  BY DEF TypeInv, TypeOK, Worker, Config
<1>2. w' \in Worker /\ (w'.pc \in {"role", "binding"} => w'.uid \in Incs)
  <2>1. CASE EnsureRole \/ EnsureBinding \/ EnsureConfigMap \/ EnsureDaemonSet
             \/ RemoveDaemonSet
    BY <2>1, GotoTypes, StatusTypes, IdleType
    DEF EnsureRole, EnsureBinding, EnsureConfigMap, EnsureDaemonSet, RemoveDaemonSet,
        NotReady, Return, Reasons, TypeInv, WellFormed
  <2>2. CASE DeleteBinding \/ DeleteRole
    BY <2>2, GotoTypes, IdleType DEF DeleteBinding, DeleteRole, Return
  <2> QED
    BY <2>1, <2>2
<1>3. role' \subseteq Incs /\ binding' \subseteq Incs
  BY DEF EnsureRole, EnsureBinding, EnsureConfigMap, EnsureDaemonSet, RemoveDaemonSet,
     DeleteBinding, DeleteRole, TypeInv, TypeOK, WellFormed
<1>4. config' \in Config
  <2>1. [owner |-> w.uid, target |-> w.target] \in Config
    BY <1>1 DEF Config
  <2>2. CASE EnsureConfigMap
    BY <2>1, <2>2 DEF EnsureConfigMap, TypeInv, TypeOK
  <2> QED
    BY <2>2 DEF EnsureRole, EnsureBinding, EnsureDaemonSet, RemoveDaemonSet,
       DeleteBinding, DeleteRole, TypeInv, TypeOK
<1>5. ds' \in DaemonSet
  <2>1. /\ [owner |-> w.uid, hash |-> cConfig.target, done |-> FALSE] \in DaemonSet
        /\ NoDs \in DaemonSet
    BY <1>1, VectorAssumption DEF DaemonSet, NoDs, Absent
  <2>2. CASE EnsureDaemonSet \/ RemoveDaemonSet
    BY <2>1, <2>2 DEF EnsureDaemonSet, RemoveDaemonSet, TypeInv, TypeOK
  <2> QED
    BY <2>2 DEF EnsureRole, EnsureBinding, EnsureConfigMap, DeleteBinding, DeleteRole,
       TypeInv, TypeOK
<1>6. q' \in BOOLEAN
  BY DEF EnsureRole, EnsureBinding, EnsureConfigMap, EnsureDaemonSet, RemoveDaemonSet,
     DeleteBinding, DeleteRole, Return, TypeInv, TypeOK
<1>7. pend' \subseteq Events
  BY ChangedTypes DEF EnsureRole, EnsureBinding, EnsureConfigMap, EnsureDaemonSet,
     RemoveDaemonSet, DeleteBinding, DeleteRole, Events
<1>8. budget' \in Nat
  BY FaultTypes DEF EnsureRole, EnsureBinding, EnsureConfigMap, EnsureDaemonSet,
     RemoveDaemonSet, DeleteBinding, DeleteRole, Errs
<1>9. UNCHANGED <<vec, an, peer, proj, nodes, caches>>
  BY DEF EnsureRole, EnsureBinding, EnsureConfigMap, EnsureDaemonSet,
     RemoveDaemonSet, DeleteBinding, DeleteRole
<1> QED
  BY <1>2, <1>3, <1>4, <1>5, <1>6, <1>7, <1>8, <1>9 DEF TypeInv, TypeOK, WellFormed,
       caches

LEMMA NextTypes == TypeInv /\ [Next]_vars => TypeInv'
<1> SUFFICES ASSUME TypeInv, [Next]_vars
             PROVE  TypeInv'
  OBVIOUS
<1>1. CASE Reconcile
  BY <1>1, StartTypes, FinalizerTypes, ChildrenTypes DEF Reconcile
<1>2. CASE Cluster
  BY <1>2, InformerTypes, OthersTypes DEF Cluster
<1>3. CASE Environment
  BY <1>3, LifeTypes, OthersTypes, RBACTypes, InformerTypes DEF Environment
<1>4. CASE UNCHANGED vars
  BY <1>4 DEF vars, api, caches, TypeInv, TypeOK, WellFormed
<1> QED
  BY <1>1, <1>2, <1>3, <1>4 DEF Next

\* Every variable keeps its type, whatever the interleaving of user,
\* controller, cluster and faults.
THEOREM TypeCorrect == Spec => []TypeOK
<1>1. TypeInv => TypeOK
  BY DEF TypeInv
<1> QED
  BY <1>1, InitTypes, NextTypes, PTL DEF Spec

-----------------------------------------------------------------------------
(***************************************************************************)
(* NoOrphanedRBAC.  RBACInv says why the worker, which goes by what it has *)
(* read, writes permissions only for a Vector that is there with its       *)
(* finalizer, and removes the finalizer of none that still has any.  Each  *)
(* part is about the distance between the Vector, its copy in the cache    *)
(* and the copy in the worker's hands.                                     *)
(***************************************************************************)

\* The Vector of UID u is there, and its finalizer keeps it.
Holds(u) == vec.phase /= "absent" /\ vec.uid = u /\ vec.fin

\* The cache shows the Vector as it is or was.
CacheIsPast ==
  /\ cVec.uid <= vec.uid
  /\ cVec.phase = "deleting" /\ vec.phase = "live" => cVec.uid < vec.uid
  /\ cVec.phase = "live" /\ cVec.fin => Holds(cVec.uid)

\* On its way to the permissions the worker has seen the finalizer.
GrantsHeld ==
  /\ w.pc = "finalizer" => w.read.phase = "live" /\ w.read.uid <= cVec.uid
  /\ w.pc = "begin" => Holds(cVec.uid)
  /\ w.pc \in {"role", "binding"} => Holds(w.uid)

\* A deletion the worker deals with is not taken back.
Removing == w.pc \in {"unbind", "unrole", "unfinalize"}

RemovesDeleted ==
  Removing =>
    /\ w.read.phase = "deleting" /\ w.read.uid = w.uid /\ w.uid <= cVec.uid
    /\ vec.phase = "live" => w.uid < vec.uid
    /\ cVec.phase = "live" => w.uid < cVec.uid

\* The permissions that are left are those the cache knows of, and none is left
\* behind the worker.
Revokes ==
  /\ w.pc = "unbind" /\ w.uid \in binding => w.uid \in cBinding
  /\ w.pc \in {"unbind", "unrole"} /\ w.uid \in role => w.uid \in cRole
  /\ w.pc \in {"unrole", "unfinalize"} => w.uid \notin binding
  /\ w.pc = "unfinalize" => w.uid \notin role

FreshRBAC ==
  /\ "role" \notin pend => cRole = role
  /\ "binding" \notin pend => cBinding = binding

RBACInv ==
  /\ \A u \in role \cup binding : Holds(u)
  /\ CacheIsPast /\ GrantsHeld /\ RemovesDeleted /\ Revokes /\ FreshRBAC

\* What the invariant rests on: the permissions in the cache are current when a
\* reconciliation finds the Vector being deleted.
CleansUpCurrent ==
  w.pc = "idle" /\ w'.pc = "unbind" => {"role", "binding"} \cap pend = {}

LEMMA InitRBAC == Init => RBACInv
BY IdleType DEF Init, RBACInv, CacheIsPast, GrantsHeld, Removing, RemovesDeleted,
     Revokes, FreshRBAC,
   Incs, Idle

\* Steps that concern neither the Vector nor its permissions nor the worker.
LEMMA FrameRBAC ==
  ASSUME RBACInv, UNCHANGED <<vec, role, binding, cVec, cRole, cBinding, w>>,
         pend \subseteq pend'
  PROVE  RBACInv'
BY DEF RBACInv, Holds, CacheIsPast, GrantsHeld, Removing, RemovesDeleted, Revokes,
     FreshRBAC

\* Steps of the worker that leave the permissions alone, on their way to
\* neither granting nor removing any.
LEMMA WorkerRBAC ==
  ASSUME RBACInv, UNCHANGED <<vec, role, binding, cVec, cRole, cBinding>>,
         pend \subseteq pend',
         w'.pc \notin {"finalizer", "begin", "role", "binding", "unbind", "unrole", "unfinalize"}
  PROVE  RBACInv'
BY DEF RBACInv, Holds, CacheIsPast, GrantsHeld, Removing, RemovesDeleted, Revokes,
     FreshRBAC

LEMMA LifeRBAC ==
  ASSUME TypeInv, RBACInv, Create \/ Delete
  PROVE  RBACInv'
<1>1. vec \in Vector /\ cVec \in Vector /\ w.uid \in Nat /\ vec.uid \in Nat /\ cVec.uid \in Nat
      /\ w.read.uid \in Nat
  BY DEF TypeInv, TypeOK, Vector, Worker
<1>2. UNCHANGED <<role, binding, cVec, cRole, cBinding, w>> /\ pend \subseteq pend'
  BY DEF Create, Delete, caches, Changed
<1>3. CASE Create
  <2>1. vec.phase = "absent" /\ vec'.phase = "live" /\ vec'.uid = vec.uid + 1
    BY <1>3 DEF Create
  <2>2. role \cup binding = {}
    BY <2>1 DEF RBACInv, Holds
  <2> QED
    BY <1>1, <1>2, <2>1, <2>2
    DEF RBACInv, Holds, CacheIsPast, GrantsHeld, Removing, RemovesDeleted, Revokes, FreshRBAC
<1>4. CASE Delete
  <2>1. /\ vec.phase = "live" /\ vec'.phase = IF vec.fin THEN "deleting" ELSE "absent"
        /\ vec'.uid = vec.uid /\ vec'.fin = vec.fin
    BY <1>1, <1>4 DEF Delete, Vector
  <2> QED
    BY <1>1, <1>2, <2>1
    DEF RBACInv, Holds, CacheIsPast, GrantsHeld, Removing, RemovesDeleted, Revokes, FreshRBAC
<1> QED
  BY <1>3, <1>4

LEMMA TamperRBAC ==
  ASSUME TypeInv, RBACInv, NEW u \in Incs, DeleteRBAC(u)
  PROVE  RBACInv'
BY DEF DeleteRBAC, Changed, caches,
   RBACInv, Holds, CacheIsPast, GrantsHeld, Removing, RemovesDeleted, Revokes, FreshRBAC

LEMMA InformerRBAC ==
  ASSUME TypeInv, RBACInv, (\E e \in Events : Deliver(e)) \/ RestartOperator
  PROVE  RBACInv'
<1>1. /\ w.uid \in Nat /\ vec.uid \in Nat /\ cVec.uid \in Nat /\ w.read.uid \in Nat
  BY DEF TypeInv, TypeOK, Vector, Worker
<1>2. ASSUME NEW e \in Events, Deliver(e)
      PROVE  RBACInv'
  <2>1. /\ UNCHANGED <<vec, role, binding, w>> /\ pend' = pend \ {e}
        /\ cVec' = IF e = "vec" THEN vec ELSE cVec
        /\ cRole' = IF e = "role" THEN role ELSE cRole
        /\ cBinding' = IF e = "binding" THEN binding ELSE cBinding
    BY <1>2 DEF Deliver, api
  <2>2. CacheIsPast' /\ GrantsHeld' /\ RemovesDeleted'
    <3>1. CASE e = "vec"
      BY <1>1, <2>1, <3>1 DEF RBACInv, Holds, CacheIsPast, GrantsHeld, Removing,
           RemovesDeleted
    <3>2. CASE e /= "vec"
      BY <2>1, <3>2 DEF RBACInv, Holds, CacheIsPast, GrantsHeld, Removing,
           RemovesDeleted
    <3> QED
      BY <3>1, <3>2
  <2>3. Revokes' /\ FreshRBAC'
    BY <2>1 DEF RBACInv, Revokes, FreshRBAC
  <2> QED
    BY <2>1, <2>2, <2>3 DEF RBACInv, Holds
<1>3. CASE RestartOperator
  <2>1. vec.uid <= vec.uid /\ w' = Idle /\ w'.pc = "idle"
    BY <1>1, <1>3, IdleType DEF RestartOperator
  <2> QED
    BY <1>3, <2>1
    DEF RestartOperator, api,
        RBACInv, Holds, CacheIsPast, GrantsHeld, Removing, RemovesDeleted, Revokes, FreshRBAC
<1> QED
  BY <1>2, <1>3

LEMMA BeginRBAC ==
  ASSUME TypeInv, RBACInv, Start \/ Begin, w'.pc /= "idle", w' = Begun
  PROVE  RBACInv'
<1>1. UNCHANGED <<vec, role, binding, cVec, cRole, cBinding, pend>>
  BY DEF Start, Begin, api, caches
<1>2. w'.pc = "role" => w'.uid = cVec.uid /\ cVec.phase = "live"
  BY BegunTypes
<1>3. w'.pc \in {"status", "role", "remove"}
  BY BegunTypes
<1>4. CASE w'.pc = "role"
  <2>1. Holds(cVec.uid)
    <3>1. CASE Begin
      BY <3>1 DEF Begin, RBACInv, GrantsHeld
    <3>2. CASE Start
      <4>1. Idle.pc = "idle" /\ [Idle EXCEPT !.pc = "finalizer", !.read = cVec].pc = "finalizer"
        BY IdleType DEF Worker
      <4>2. cVec.fin
        BY <1>2, <1>4, <3>2, <4>1 DEF Start, TypeInv, TypeOK, Vector
      <4> QED
        BY <1>2, <1>4, <4>2 DEF RBACInv, CacheIsPast
    <3> QED
      BY <3>1, <3>2
  <2> QED
    BY <1>1, <1>2, <1>4, <2>1
    DEF RBACInv, Holds, CacheIsPast, GrantsHeld, Removing, RemovesDeleted, Revokes, FreshRBAC
<1>5. CASE w'.pc /= "role"
  BY <1>1, <1>3, <1>5, WorkerRBAC
<1> QED
  BY <1>4, <1>5

LEMMA StartRBAC ==
  ASSUME TypeInv, RBACInv, Start \/ Begin, CleansUpCurrent
  PROVE  RBACInv'
<1>1. UNCHANGED <<vec, role, binding, cVec, cRole, cBinding, pend>>
  BY DEF Start, Begin, api, caches
<1>2. cVec \in Vector /\ cVec.uid \in Nat /\ vec.uid \in Nat /\ cVec.fin \in BOOLEAN
  BY DEF TypeInv, TypeOK, Vector
<1>3. CASE w'.pc = "idle"
  BY <1>1, <1>3, WorkerRBAC
<1>4. CASE w' = Begun /\ w'.pc /= "idle"
  BY <1>4, BeginRBAC
<1>5. CASE /\ Start /\ cVec.phase = "deleting"
           /\ w' = [Idle EXCEPT !.pc = "unbind", !.uid = cVec.uid, !.read = cVec]
  <2>1. w'.pc = "unbind" /\ w'.uid = cVec.uid /\ w'.read = cVec
    BY <1>5, IdleType DEF Worker
  <2>2. cRole = role /\ cBinding = binding
    BY <1>5, <2>1 DEF Start, CleansUpCurrent, RBACInv, FreshRBAC
  <2> QED
    BY <1>1, <1>2, <1>5, <2>1, <2>2
    DEF RBACInv, Holds, CacheIsPast, GrantsHeld, Removing, RemovesDeleted, Revokes, FreshRBAC
<1>6. CASE /\ Start /\ cVec.phase = "live"
           /\ w' = [Idle EXCEPT !.pc = "finalizer", !.read = cVec]
  <2>1. w'.pc = "finalizer" /\ w'.read = cVec
    BY <1>6, IdleType DEF Worker
  <2> QED
    BY <1>1, <1>2, <1>6, <2>1
    DEF RBACInv, Holds, CacheIsPast, GrantsHeld, Removing, RemovesDeleted, Revokes, FreshRBAC
<1> QED
  BY <1>3, <1>4, <1>5, <1>6 DEF Start, Begin

LEMMA FinalizerRBAC ==
  ASSUME TypeInv, RBACInv, AddFinalizer \/ RemoveFinalizer \/ UpdateStatus
  PROVE  RBACInv'
<1>1. vec \in Vector /\ cVec \in Vector /\ cVec.uid \in Nat /\ vec.uid \in Nat
  BY DEF TypeInv, TypeOK, Vector
<1>2. UNCHANGED <<role, binding, cVec, cRole, cBinding>> /\ pend \subseteq pend'
  BY DEF AddFinalizer, RemoveFinalizer, UpdateStatus, caches, Changed
<1>3. CASE vec' = vec /\ w' = Idle
  BY <1>2, <1>3, IdleType, WorkerRBAC
<1>4. CASE /\ AddFinalizer /\ w.read = vec
           /\ vec' = [vec EXCEPT !.fin = TRUE] /\ w' = [Idle EXCEPT !.pc = "begin"]
  <2>1. w'.pc = "begin"
    BY <1>4, IdleType DEF Worker
  <2>2. vec'.phase = vec.phase /\ vec'.uid = vec.uid /\ vec'.fin
    BY <1>1, <1>4 DEF Vector
  <2>3. vec.phase = "live" /\ cVec.uid = vec.uid
    BY <1>1, <1>4 DEF AddFinalizer, RBACInv, GrantsHeld, CacheIsPast
  <2> QED
    BY <1>2, <2>1, <2>2, <2>3
    DEF RBACInv, Holds, CacheIsPast, GrantsHeld, Removing, RemovesDeleted, Revokes, FreshRBAC
<1>5. CASE /\ RemoveFinalizer /\ w.read = vec
           /\ vec' = [vec EXCEPT !.phase = "absent", !.fin = FALSE] /\ w' = Idle
  <2>1. vec'.phase = "absent" /\ vec'.uid = vec.uid
    BY <1>1, <1>5 DEF Vector
  <2>2. w.pc = "unfinalize" /\ w.uid = vec.uid /\ (cVec.phase = "live" => w.uid < cVec.uid)
    BY <1>5 DEF RemoveFinalizer, RBACInv, Removing, RemovesDeleted
  <2>3. role \cup binding = {}
    BY <2>2 DEF RBACInv, Holds, Revokes
  <2>4. ~(cVec.phase = "live" /\ cVec.fin)
    BY <1>1, <2>2 DEF RBACInv, CacheIsPast
  <2> QED
    BY <1>2, <1>5, <2>1, <2>3, <2>4, IdleType
    DEF RBACInv, Holds, CacheIsPast, GrantsHeld, Removing, RemovesDeleted, Revokes, FreshRBAC
<1>6. CASE UpdateStatus /\ vec' = [vec EXCEPT !.cond = Verdict] /\ w' = Idle
  <2>1. vec'.phase = vec.phase /\ vec'.uid = vec.uid /\ vec'.fin = vec.fin
    BY <1>1, <1>6 DEF Vector
  <2> QED
    BY <1>2, <1>6, <2>1, IdleType
    DEF RBACInv, Holds, CacheIsPast, GrantsHeld, Removing, RemovesDeleted, Revokes, FreshRBAC
<1> QED
  BY <1>3, <1>4, <1>5, <1>6 DEF AddFinalizer, RemoveFinalizer, UpdateStatus, Return

LEMMA EnsureRBAC ==
  ASSUME TypeInv, RBACInv, EnsureRole \/ EnsureBinding
  PROVE  RBACInv'
<1>1. UNCHANGED <<vec, cVec, cRole, cBinding>> /\ pend \subseteq pend'
  BY DEF EnsureRole, EnsureBinding, caches, Changed
<1>2. Holds(w.uid)
  BY DEF EnsureRole, EnsureBinding, RBACInv, GrantsHeld
<1>3. \/ w'.pc \in {"status", "config"} /\ UNCHANGED <<role, binding>>
      \/ /\ w'.pc \in {"binding", "config"} /\ w'.uid = w.uid
         /\ \/ UNCHANGED <<role, binding>>
            \/ role' = role \cup {w.uid} /\ UNCHANGED binding /\ "role" \in pend'
            \/ binding' = binding \cup {w.uid} /\ UNCHANGED role /\ "binding" \in pend'
  BY GotoTypes, StatusTypes DEF EnsureRole, EnsureBinding, NotReady, Reasons, Changed
<1> QED
  BY <1>1, <1>2, <1>3
  DEF RBACInv, Holds, CacheIsPast, GrantsHeld, Removing, RemovesDeleted, Revokes, FreshRBAC

LEMMA RemoveRBAC ==
  ASSUME TypeInv, RBACInv, DeleteBinding \/ DeleteRole
  PROVE  RBACInv'
<1>1. UNCHANGED <<vec, cVec, cRole, cBinding>> /\ pend \subseteq pend'
  BY DEF DeleteBinding, DeleteRole, caches, Changed
<1>2. CASE w' = Idle /\ UNCHANGED <<role, binding>>
  BY <1>1, <1>2, IdleType, WorkerRBAC
<1>3. CASE /\ DeleteBinding /\ Goto("unrole")
           /\ IF w.uid \in cBinding /\ w.uid \in binding
              THEN binding' = binding \ {w.uid} /\ Changed("binding")
              ELSE UNCHANGED <<binding, pend>>
  <2>1. w'.pc = "unrole" /\ w'.uid = w.uid /\ w'.read = w.read
    BY <1>3, GotoTypes
  <2>2. role' = role /\ w.pc = "unbind" /\ w.uid \notin binding'
        /\ binding' \subseteq binding /\ (binding' /= binding => "binding" \in pend')
    BY <1>3 DEF DeleteBinding, Changed, RBACInv, Revokes
  <2> QED
    BY <1>1, <2>1, <2>2
    DEF RBACInv, Holds, CacheIsPast, GrantsHeld, Removing, RemovesDeleted, Revokes, FreshRBAC
<1>4. CASE /\ DeleteRole /\ Goto("unfinalize")
           /\ IF DeletesRole /\ w.uid \in role
              THEN role' = role \ {w.uid} /\ Changed("role")
              ELSE UNCHANGED <<role, pend>>
  <2>1. w'.pc = "unfinalize" /\ w'.uid = w.uid /\ w'.read = w.read
    BY <1>4, GotoTypes
  <2>2. binding' = binding /\ w.pc = "unrole" /\ w.uid \notin role'
        /\ role' \subseteq role /\ (role' /= role => "role" \in pend')
    BY <1>4 DEF DeleteRole, DeletesRole, Changed, RBACInv, Revokes
  <2> QED
    BY <1>1, <2>1, <2>2
    DEF RBACInv, Holds, CacheIsPast, GrantsHeld, Removing, RemovesDeleted, Revokes, FreshRBAC
<1> QED
  BY <1>2, <1>3, <1>4 DEF DeleteBinding, DeleteRole, Return

LEMMA OthersRBAC ==
  ASSUME TypeInv, RBACInv,
         \/ EnsureConfigMap \/ EnsureDaemonSet \/ RemoveDaemonSet
         \/ ChangeAnalytics \/ ChangePeer \/ ChangeProject \/ ChangeNodes
         \/ AnalyticsReady \/ FinishDelete \/ Rollout \/ CollectGarbage
  PROVE  RBACInv'
<1>1. /\ UNCHANGED <<vec, role, binding, cVec, cRole, cBinding>>
      /\ (\E e : Changed(e)) \/ UNCHANGED pend
  BY DEF EnsureConfigMap, EnsureDaemonSet, RemoveDaemonSet,
     ChangeAnalytics, ChangePeer, ChangeProject, ChangeNodes,
     AnalyticsReady, FinishDelete, Rollout, CollectGarbage, caches
<1>2. w' = w \/ w'.pc \in {"idle", "status", "daemonset", "judge"}
  BY GotoTypes, StatusTypes, IdleType
  DEF EnsureConfigMap, EnsureDaemonSet, RemoveDaemonSet, NotReady, Return, Reasons,
     ChangeAnalytics, ChangePeer, ChangeProject, ChangeNodes,
     AnalyticsReady, FinishDelete, Rollout, CollectGarbage
<1>3. pend \subseteq pend'
  BY <1>1 DEF Changed
<1> QED
  BY <1>1, <1>2, <1>3, FrameRBAC, WorkerRBAC

LEMMA NextRBAC == TypeInv /\ RBACInv /\ [Next]_vars /\ [CleansUpCurrent]_vars => RBACInv'
<1> SUFFICES ASSUME TypeInv, RBACInv, [Next]_vars, [CleansUpCurrent]_vars
             PROVE  RBACInv'
  OBVIOUS
<1>1. CASE UNCHANGED vars
  BY <1>1, FrameRBAC DEF vars, api, caches
<1>2. CASE CleansUpCurrent /\ Reconcile
  BY <1>2, StartRBAC, FinalizerRBAC, EnsureRBAC, RemoveRBAC, OthersRBAC DEF Reconcile
<1>3. CASE Cluster
  BY <1>3, InformerRBAC, OthersRBAC DEF Cluster
<1>4. CASE Environment
  BY <1>4, LifeRBAC, TamperRBAC, InformerRBAC, OthersRBAC DEF Environment
<1> QED
  BY <1>1, <1>2, <1>3, <1>4 DEF Next

\* No ClusterRole or ClusterRoleBinding outlives its Vector, however often it
\* is created again and whatever fails or is tampered with, if the cache has
\* them when a deletion is noticed; how stale it is otherwise does not matter.
THEOREM NoRBACIsOrphaned == Spec /\ [][CleansUpCurrent]_vars => []NoOrphanedRBAC
<1>1. RBACInv => NoOrphanedRBAC
  BY DEF RBACInv, Holds, NoOrphanedRBAC
<1> QED
  BY <1>1, InitTypes, NextTypes, InitRBAC, NextRBAC, PTL DEF Spec

\* So it is where reconciliations start with caches that are up to date.
THEOREM FreshCachesLeaveNoRBAC == MaxStale = 0 => (Spec => []NoOrphanedRBAC)
<1> SUFFICES ASSUME MaxStale = 0 PROVE Spec => []NoOrphanedRBAC
  OBVIOUS
<1>1. TypeInv /\ [Next]_vars => [CleansUpCurrent]_vars
  <2> SUFFICES ASSUME TypeInv, [Next]_vars, w.pc = "idle", w'.pc = "unbind"
               PROVE  pend = {}
    BY DEF CleansUpCurrent
  <2>1. IsFiniteSet(Events)
    <3>1. IsFiniteSet({})
      BY FS_EmptySet
    <3>2. \A S, e : IsFiniteSet(S) => IsFiniteSet(S \cup {e})
      BY FS_AddElement
    <3>3. Events = (((((((({} \cup {"vec"}) \cup {"an"}) \cup {"peer"}) \cup {"proj"})
                     \cup {"role"}) \cup {"binding"}) \cup {"config"}) \cup {"ds"})
      BY DEF Events
    <3> QED
      BY <3>1, <3>2, <3>3
  <2>2. IsFiniteSet(pend)
    BY <2>1, FS_Subset DEF TypeInv, TypeOK
  <2>3. w' /= w /\ w' /= Idle
    BY DEF Idle
  <2>4. ~Cluster /\ ~Environment
    BY <2>3
    DEF Cluster, Environment, Deliver, AnalyticsReady, FinishDelete, Rollout, CollectGarbage,
        Create, Delete, ChangeAnalytics, ChangePeer, ChangeProject, DeleteRBAC, ChangeNodes,
        RestartOperator
  <2>5. Reconcile
    BY <2>3, <2>4 DEF Next, vars
  <2>6. Start
    BY <2>5
    DEF Reconcile, AddFinalizer, Begin, RemoveDaemonSet, EnsureRole, EnsureBinding,
        EnsureConfigMap, EnsureDaemonSet, UpdateStatus, DeleteBinding, DeleteRole,
        RemoveFinalizer
  <2> QED
    BY <2>2, <2>6, FS_EmptySet, FS_CardinalityType DEF Start
<1> QED
  BY <1>1, InitTypes, NextTypes, NoRBACIsOrphaned, PTL DEF Spec
=============================================================================
