------------------------------- MODULE Vector -------------------------------
(***************************************************************************)
(* The controller of Vector, the log collector of a Project.  It differs   *)
(* from the other components in what it leaves behind: a ClusterRole and a *)
(* ClusterRoleBinding, which no owner reference can have collected.  They  *)
(* are named by the UID of the Vector, and a finalizer keeps the Vector    *)
(* until they are deleted.  It collects only while the Project has an      *)
(* Analytics to send to.                                                   *)
(*                                                                         *)
(* One Vector name is modelled, created again up to MaxInc times; what two *)
(* of them in one Project do is in module Component.  As there, a write is *)
(* an action, and so is a run of reads between two writes.                 *)
(***************************************************************************)
EXTENDS Naturals, FiniteSets, Ensure

CONSTANTS
  MaxInc,    \* bound: incarnations (UIDs) of the Vector, 1..MaxInc
  Faults,    \* the kinds of edit and disturbance that may happen
  MaxFaults, \* bound: how many of them may happen, of whatever kind
  MaxStale   \* bound: caches that are behind when a reconciliation starts

ASSUME VectorAssumption ==
  /\ MaxInc \in Nat \ {0} /\ MaxFaults \in Nat /\ MaxStale \in Nat
  /\ Faults \subseteq {"create", "delete", "analytics", "peer", "project", "nodes",
                       "rbac", "restart", "api"}

Incs == 1..MaxInc

VARIABLES
  \* the API server
  vec,       \* the Vector
  an,        \* the Analytics of the Project, and whether it is Ready
  peer,      \* a component whose logs are collected
  proj,      \* the Project
  role,      \* the UIDs with a ClusterRole
  binding,   \* the UIDs with a ClusterRoleBinding
  config,    \* the ConfigMap: its owner, and whether the peer is a target in it
  ds,        \* the DaemonSet: its owner, the ConfigMap its hash is of, its status
  nodes,     \* some node is eligible for Pods
  \* the informer caches and the watch events on their way to them
  cVec, cAn, cPeer, cProj, cRole, cBinding, cConfig, cDs, pend,
  \* the controller
  q,         \* the Vector is in the work queue
  w,         \* the reconciliation in progress
  budget     \* how many faults may still happen

api    == <<vec, an, peer, proj, role, binding, config, ds, nodes>>
caches == <<cVec, cAn, cPeer, cProj, cRole, cBinding, cConfig, cDs>>
vars   == <<api, caches, pend, q, w, budget>>

Phases  == {"absent", "live", "deleting"}
Reasons == {"None", "Ready", "Waiting", "DependencyNotFound"}

Vector    == [phase : Phases, uid : 0..MaxInc, fin : BOOLEAN, cond : Reasons]
Analytics == [phase : Phases, ready : BOOLEAN]
Config    == [owner : 0..MaxInc, target : BOOLEAN]
DaemonSet == [owner : 0..MaxInc, hash : BOOLEAN, done : BOOLEAN]

\* read: the Vector that an Update of the finalizers will send; uid, target and
\* ready: what Reconcile has read of the Vector, the peer and the Analytics; cond:
\* the reason it will publish.
Worker == [pc : {"idle", "finalizer", "begin", "remove", "role", "binding", "config",
                 "daemonset", "judge", "status", "unbind", "unrole", "unfinalize"},
           read : Vector, uid : 0..MaxInc, target : BOOLEAN, ready : BOOLEAN,
           cond : Reasons]

Unread == [phase |-> "absent", uid |-> 0, fin |-> FALSE, cond |-> "None"]

Idle == [pc |-> "idle", read |-> Unread, uid |-> 0, target |-> FALSE, ready |-> FALSE, cond |-> "None"]

Events == {"vec", "an", "peer", "proj", "role", "binding", "config", "ds"}

TypeOK ==
  /\ vec \in Vector /\ cVec \in Vector
  /\ an \in Analytics /\ cAn \in Analytics
  /\ peer \in Phases /\ cPeer \in Phases
  /\ proj \in Phases /\ cProj \in Phases
  /\ role \subseteq Incs /\ cRole \subseteq Incs
  /\ binding \subseteq Incs /\ cBinding \subseteq Incs
  /\ config \in Config /\ cConfig \in Config
  /\ ds \in DaemonSet /\ cDs \in DaemonSet
  /\ nodes \in BOOLEAN
  /\ pend \subseteq Events
  /\ q \in BOOLEAN
  /\ w \in Worker
  /\ budget \in Nat

NoConfig == [owner |-> Absent, target |-> FALSE]
NoDs     == [owner |-> Absent, hash |-> FALSE, done |-> FALSE]

Init ==
  /\ vec = [phase |-> "live", uid |-> 1, fin |-> FALSE, cond |-> "None"]
  /\ an = [phase |-> "live", ready |-> FALSE]
  /\ peer \in {"absent", "live"}
  /\ proj = "live"
  /\ role = {} /\ binding = {}
  /\ config = NoConfig /\ ds = NoDs
  /\ nodes = TRUE
  /\ cVec = vec /\ cAn = an /\ cPeer = peer /\ cProj = proj
  /\ cRole = {} /\ cBinding = {} /\ cConfig = NoConfig /\ cDs = NoDs
  /\ pend = {}
  /\ q = TRUE
  /\ w = Idle
  /\ budget = MaxFaults

Fault(f) == f \in Faults /\ budget > 0 /\ budget' = budget - 1

\* The API server changed an object; its watch event is on its way.
Changed(e) == pend' = pend \cup {e}

-----------------------------------------------------------------------------
(***************************************************************************)
(* The user and the cluster.                                               *)
(***************************************************************************)

Create ==
  /\ vec.phase = "absent" /\ vec.uid < MaxInc /\ Fault("create")
  /\ vec' = [phase |-> "live", uid |-> vec.uid + 1, fin |-> FALSE, cond |-> "None"]
  /\ Changed("vec")
  /\ UNCHANGED <<an, peer, proj, role, binding, config, ds, nodes, caches, q, w>>

\* A finalizer keeps the object until it is removed.
Delete ==
  /\ vec.phase = "live" /\ Fault("delete")
  /\ vec' = [vec EXCEPT !.phase = IF vec.fin THEN "deleting" ELSE "absent"]
  /\ Changed("vec")
  /\ UNCHANGED <<an, peer, proj, role, binding, config, ds, nodes, caches, q, w>>

\* The phases that may follow one another.
Follows(phase) ==
  CASE phase = "absent" -> {"live"}
    [] phase = "live" -> {"deleting", "absent"}
    [] OTHER -> {"absent"}

ChangeAnalytics ==
  /\ Fault("analytics")
  /\ \E phase \in Follows(an.phase) : an' = [phase |-> phase, ready |-> FALSE]
  /\ Changed("an")
  /\ UNCHANGED <<vec, peer, proj, role, binding, config, ds, nodes, caches, q, w>>

ChangePeer ==
  /\ Fault("peer")
  /\ peer' \in Follows(peer)
  /\ Changed("peer")
  /\ UNCHANGED <<vec, an, proj, role, binding, config, ds, nodes, caches, q, w>>

ChangeProject ==
  /\ Fault("project")
  /\ proj' \in Follows(proj)
  /\ Changed("proj")
  /\ UNCHANGED <<vec, an, peer, role, binding, config, ds, nodes, caches, q, w>>

\* Somebody deletes the ClusterRole or the ClusterRoleBinding.
DeleteRBAC(u) ==
  /\ Fault("rbac")
  /\ \/ u \in role /\ role' = role \ {u} /\ Changed("role") /\ UNCHANGED binding
     \/ u \in binding /\ binding' = binding \ {u} /\ Changed("binding") /\ UNCHANGED role
  /\ UNCHANGED <<vec, an, peer, proj, config, ds, nodes, caches, q, w>>

\* The last eligible node leaves, or one comes.
ChangeNodes ==
  /\ Fault("nodes")
  /\ nodes' = ~nodes
  /\ ds' = [ds EXCEPT !.done = ds.owner /= Absent /\ nodes']
  /\ Changed("ds")
  /\ UNCHANGED <<vec, an, peer, proj, role, binding, config, caches, q, w>>

AnalyticsReady ==
  /\ an.phase = "live" /\ ~an.ready
  /\ an' = [an EXCEPT !.ready = TRUE]
  /\ Changed("an")
  /\ UNCHANGED <<vec, peer, proj, role, binding, config, ds, nodes, caches, q, w, budget>>

\* A deletion under way comes to its end.
FinishDelete ==
  \/ /\ an.phase = "deleting"
     /\ an' = [an EXCEPT !.phase = "absent"]
     /\ Changed("an")
     /\ UNCHANGED <<vec, peer, proj, role, binding, config, ds, nodes, caches, q, w, budget>>
  \/ /\ peer = "deleting"
     /\ peer' = "absent"
     /\ Changed("peer")
     /\ UNCHANGED <<vec, an, proj, role, binding, config, ds, nodes, caches, q, w, budget>>

Rollout ==
  /\ ds.owner /= Absent /\ ~ds.done /\ nodes
  /\ ds' = [ds EXCEPT !.done = TRUE]
  /\ Changed("ds")
  /\ UNCHANGED <<vec, an, peer, proj, role, binding, config, nodes, caches, q, w, budget>>

\* The garbage collector removes what a Vector that is gone had owned.
CollectGarbage ==
  LET gone(u) == u /= Absent /\ (vec.phase = "absent" \/ vec.uid /= u)
  IN  /\ \/ gone(ds.owner) /\ ds' = NoDs /\ Changed("ds") /\ UNCHANGED config
         \/ gone(config.owner) /\ config' = NoConfig /\ Changed("config") /\ UNCHANGED ds
      /\ UNCHANGED <<vec, an, peer, proj, role, binding, nodes, caches, q, w, budget>>

\* Faulty variant: the components whose logs are collected are not watched.
WakesButPeers(e) == e = "vec" \/ (e /= "peer" /\ cVec.phase /= "absent")

\* SetupWithManager: every event but its own asks for the Vectors in the cache.
Wakes(e) == e = "vec" \/ cVec.phase /= "absent"

Deliver(e) ==
  /\ e \in pend
  /\ pend' = pend \ {e}
  /\ q' = (q \/ Wakes(e))
  /\ cVec' = IF e = "vec" THEN vec ELSE cVec
  /\ cAn' = IF e = "an" THEN an ELSE cAn
  /\ cPeer' = IF e = "peer" THEN peer ELSE cPeer
  /\ cProj' = IF e = "proj" THEN proj ELSE cProj
  /\ cRole' = IF e = "role" THEN role ELSE cRole
  /\ cBinding' = IF e = "binding" THEN binding ELSE cBinding
  /\ cConfig' = IF e = "config" THEN config ELSE cConfig
  /\ cDs' = IF e = "ds" THEN ds ELSE cDs
  /\ UNCHANGED <<api, w, budget>>

RestartOperator ==
  /\ Fault("restart")
  /\ cVec' = vec /\ cAn' = an /\ cPeer' = peer /\ cProj' = proj /\ cRole' = role
  /\ cBinding' = binding /\ cConfig' = config /\ cDs' = ds
  /\ pend' = {}
  /\ q' = (vec.phase /= "absent")
  /\ w' = Idle
  /\ UNCHANGED api

-----------------------------------------------------------------------------
(***************************************************************************)
(* Reconcile.                                                              *)
(***************************************************************************)

\* A call to the API server returns an error, for the reason given or because
\* the request itself fails.
Errs(reason) == IF reason THEN UNCHANGED budget ELSE Fault("api")

Goto(pc) == w' = [w EXCEPT !.pc = pc]

\* The end of a reconciliation, which asks for another one if `again`.
Return(again) == w' = Idle /\ q' = (q \/ again)

\* Faulty variant: the condition gets no reason, which the API server refuses.
NotReadyUnreasoned(reason) == w' = [Idle EXCEPT !.pc = "status", !.cond = ""]

NotReady(reason) == w' = [Idle EXCEPT !.pc = "status", !.cond = reason]

\* What follows once the finalizer is there: component.Start, which reads the Vector
\* again, ListOptional of Analytics, and targets.
Begun ==
  IF cVec.phase /= "live" THEN Idle
  ELSE IF cProj /= "live" THEN [Idle EXCEPT !.pc = "status", !.cond = "Waiting"]
  ELSE [pc     |-> IF cAn.phase = "live" THEN "role" ELSE "remove",
        read   |-> Unread,
        uid    |-> cVec.uid,
        target |-> cPeer = "live",
        ready  |-> cAn.ready,
        cond   |-> "None"]

Start ==
  /\ w.pc = "idle" /\ q /\ Cardinality(pend) <= MaxStale
  /\ q' = FALSE
  /\ w' = CASE cVec.phase = "deleting" /\ cVec.fin ->
                 [Idle EXCEPT !.pc = "unbind", !.uid = cVec.uid, !.read = cVec]
            [] cVec.phase = "live" /\ ~cVec.fin ->
                 [Idle EXCEPT !.pc = "finalizer", !.read = cVec]
            [] OTHER -> Begun
  /\ UNCHANGED <<api, caches, pend, budget>>

Begin ==
  /\ w.pc = "begin"
  /\ w' = Begun
  /\ UNCHANGED <<api, caches, pend, q, budget>>

\* Update of the Vector that was read: it answers Conflict if that one is stale.
AddFinalizer ==
  /\ w.pc = "finalizer"
  /\ \/ Errs(w.read /= vec) /\ Return(TRUE) /\ UNCHANGED <<vec, pend>>
     \/ /\ w.read = vec
        /\ vec' = [vec EXCEPT !.fin = TRUE]
        /\ Changed("vec")
        /\ w' = [Idle EXCEPT !.pc = "begin"]
        /\ UNCHANGED <<q, budget>>
  /\ UNCHANGED <<an, peer, proj, role, binding, config, ds, nodes, caches>>

\* removeDaemonSet, of the DaemonSet that the cache shows to be this Vector's.
RemoveDaemonSet ==
  /\ w.pc = "remove"
  /\ \/ Errs(cDs.owner \notin {Absent, w.uid}) /\ Return(TRUE) /\ UNCHANGED <<ds, pend>>
     \/ /\ cDs.owner \in {Absent, w.uid}
        /\ IF cDs.owner /= Absent /\ ds.owner /= Absent
           THEN ds' = NoDs /\ Changed("ds")
           ELSE UNCHANGED <<ds, pend>>
        /\ NotReady("DependencyNotFound")
        /\ UNCHANGED <<q, budget>>
  /\ UNCHANGED <<vec, an, peer, proj, role, binding, config, nodes, caches>>

\* reconcileServiceAccount, of which only the failure matters here, and the first
\* half of reconcileRBAC.  The object has no owner, and one that is there is right.
EnsureRole ==
  /\ w.pc = "role"
  /\ LET fails == w.uid \notin cRole /\ w.uid \in role
     IN  \/ Errs(fails) /\ NotReady("Waiting") /\ UNCHANGED <<role, pend>>
         \/ /\ ~fails
            /\ IF w.uid \notin cRole THEN role' = role \cup {w.uid} /\ Changed("role")
               ELSE UNCHANGED <<role, pend>>
            /\ Goto("binding")
            /\ UNCHANGED budget
  /\ UNCHANGED <<vec, an, peer, proj, binding, config, ds, nodes, caches, q>>

EnsureBinding ==
  /\ w.pc = "binding"
  /\ LET fails == w.uid \notin cBinding /\ w.uid \in binding
     IN  \/ Errs(fails) /\ NotReady("Waiting") /\ UNCHANGED <<binding, pend>>
         \/ /\ ~fails
            /\ IF w.uid \notin cBinding
               THEN binding' = binding \cup {w.uid} /\ Changed("binding")
               ELSE UNCHANGED <<binding, pend>>
            /\ Goto("config")
            /\ UNCHANGED budget
  /\ UNCHANGED <<vec, an, peer, proj, role, config, ds, nodes, caches, q>>

EnsureConfigMap ==
  /\ w.pc = "config"
  /\ LET new   == [owner |-> w.uid, target |-> w.target]
         fails == EnsureFails(cConfig.owner, config.owner, w.uid, cConfig /= new,
                              cConfig /= config)
     IN  \/ Errs(fails) /\ NotReady("Waiting") /\ UNCHANGED <<config, pend>>
         \/ /\ ~fails
            /\ IF cConfig /= new THEN config' = new /\ Changed("config")
               ELSE UNCHANGED <<config, pend>>
            /\ Goto("daemonset")
            /\ UNCHANGED budget
  /\ UNCHANGED <<vec, an, peer, proj, role, binding, ds, nodes, caches, q>>

\* StampInputs, of the ConfigMap in the cache, and Ensure.
EnsureDaemonSet ==
  /\ w.pc = "daemonset"
  /\ LET fails == \/ cConfig.owner = Absent
                  \/ EnsureFails(cDs.owner, ds.owner, w.uid, TRUE, cDs /= ds)
     IN  \/ Errs(fails) /\ NotReady("Waiting") /\ UNCHANGED <<ds, pend>>
         \/ /\ ~fails
            /\ IF ds.owner = Absent \/ ds.hash /= cConfig.target
               THEN /\ ds' = [owner |-> w.uid, hash |-> cConfig.target, done |-> FALSE]
                    /\ Changed("ds")
               ELSE UNCHANGED <<ds, pend>>
            /\ Goto("judge")
            /\ UNCHANGED budget
  /\ UNCHANGED <<vec, an, peer, proj, role, binding, config, nodes, caches, q>>

\* The Analytics read at the beginning, and DaemonSetReady of the one in the cache.
Verdict ==
  IF w.pc = "status" THEN w.cond
  ELSE IF w.ready /\ cDs.owner /= Absent /\ cDs.done THEN "Ready" ELSE "Waiting"

UpdateStatus ==
  /\ w.pc \in {"judge", "status"}
  /\ LET cond  == Verdict
         skips == cVec.phase /= "absent" /\ cVec.cond = cond
         fails == cVec.phase = "absent" \/ cVec /= vec
     IN  \/ ~skips /\ Errs(fails) /\ Return(TRUE) /\ UNCHANGED <<vec, pend>>
         \/ /\ skips \/ ~fails
            /\ IF skips THEN UNCHANGED <<vec, pend>>
               ELSE vec' = [vec EXCEPT !.cond = cond] /\ Changed("vec")
            /\ Return(cond /= "Ready")
            /\ UNCHANGED budget
  /\ UNCHANGED <<an, peer, proj, role, binding, config, ds, nodes, caches>>

\* cleanupRBAC: the binding first, then the role, each if the cache has it ...
DeleteBinding ==
  /\ w.pc = "unbind"
  /\ \/ Fault("api") /\ w.uid \in cBinding /\ Return(TRUE) /\ UNCHANGED <<binding, pend>>
     \/ /\ IF w.uid \in cBinding /\ w.uid \in binding
           THEN binding' = binding \ {w.uid} /\ Changed("binding")
           ELSE UNCHANGED <<binding, pend>>
        /\ Goto("unrole")
        /\ UNCHANGED <<q, budget>>
  /\ UNCHANGED <<vec, an, peer, proj, role, config, ds, nodes, caches>>

\* Faulty variant: a binding that is not found ends the loop.
DeletesWithBinding == w.uid \in cRole /\ w.uid \in cBinding

\* The role is looked for whether or not there was a binding.
DeletesRole == w.uid \in cRole

DeleteRole ==
  /\ w.pc = "unrole"
  /\ \/ Fault("api") /\ DeletesRole /\ Return(TRUE) /\ UNCHANGED <<role, pend>>
     \/ /\ IF DeletesRole /\ w.uid \in role
           THEN role' = role \ {w.uid} /\ Changed("role")
           ELSE UNCHANGED <<role, pend>>
        /\ Goto("unfinalize")
        /\ UNCHANGED <<q, budget>>
  /\ UNCHANGED <<vec, an, peer, proj, binding, config, ds, nodes, caches>>

\* ... and then the finalizer, with which the Vector goes.
RemoveFinalizer ==
  /\ w.pc = "unfinalize"
  /\ \/ Errs(w.read /= vec) /\ Return(TRUE) /\ UNCHANGED <<vec, pend>>
     \/ /\ w.read = vec
        /\ vec' = [vec EXCEPT !.phase = "absent", !.fin = FALSE]
        /\ Changed("vec")
        /\ Return(FALSE)
        /\ UNCHANGED budget
  /\ UNCHANGED <<an, peer, proj, role, binding, config, ds, nodes, caches>>

-----------------------------------------------------------------------------
Reconcile ==
  \/ Start \/ AddFinalizer \/ Begin \/ RemoveDaemonSet \/ EnsureRole \/ EnsureBinding
  \/ EnsureConfigMap \/ EnsureDaemonSet \/ UpdateStatus
  \/ DeleteBinding \/ DeleteRole \/ RemoveFinalizer

Cluster ==
  \/ \E e \in Events : Deliver(e)
  \/ AnalyticsReady \/ FinishDelete \/ Rollout \/ CollectGarbage

Environment ==
  \/ Create \/ Delete \/ ChangeAnalytics \/ ChangePeer \/ ChangeProject
  \/ (\E u \in Incs : DeleteRBAC(u)) \/ ChangeNodes \/ RestartOperator

Next == Reconcile \/ Cluster \/ Environment

Spec == Init /\ [][Next]_vars

\* The worker serves its queue; the cluster does what there is to do.
FairSpec == Spec /\ WF_vars(Reconcile) /\ WF_vars(Cluster)

-----------------------------------------------------------------------------
(***************************************************************************)
(* Properties.                                                             *)
(***************************************************************************)

\* No permission outlives its Vector: a ClusterRole or ClusterRoleBinding exists
\* only for the Vector that is there, which has the finalizer then.  It takes a
\* cache that is up to date when a deletion is noticed (MaxStale = 0): cleanupRBAC
\* passes over what its cache has not seen yet.
NoOrphanedRBAC ==
  \A u \in role \cup binding : vec.phase /= "absent" /\ vec.uid = u /\ vec.fin

Collecting ==
  /\ vec.uid \in role \cap binding
  /\ config = [owner |-> vec.uid, target |-> peer = "live"]
  /\ ds = [owner |-> vec.uid, hash |-> peer = "live", done |-> TRUE]

\* Whatever was created, deleted, failed or tampered with: a Vector being deleted
\* goes; one of a Project with Analytics ends up Ready and collecting, with the
\* components that are there as targets; one without ends up stopped.
EventuallySettled ==
  <>[] /\ vec.phase /= "deleting"
       /\ (vec.phase = "live" /\ proj = "live") =>
            IF an.phase = "live"
            THEN nodes => vec.cond = "Ready" /\ Collecting
            ELSE ds.owner /= vec.uid /\ vec.cond = "DependencyNotFound"
=============================================================================
