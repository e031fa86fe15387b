------------------------------ MODULE Children ------------------------------
(***************************************************************************)
(* One child object of a resource, and what EnsureResource makes of it     *)
(* with the mutate function of its kind: the operator generates the object *)
(* it wants, which may have the user's template merged over it, and merges *)
(* that into the object the API server has, while the API server fills in  *)
(* fields nobody set and other clients write to the same object.           *)
(*                                                                         *)
(* An object is a function from the fields of its kind to who has set the  *)
(* field.  The mutate functions differ in what they do with a field, which *)
(* is what the tables below say; fields that the operator, the mutate      *)
(* function and the API server all treat alike are represented by one.     *)
(* Ownership is the matter of module Ensure.                               *)
(***************************************************************************)
EXTENDS Naturals, FiniteSets, Ensure

CONSTANTS
  Kinds,    \* the kinds of child
  MaxEdits  \* bound: edits by the user and by other clients

ASSUME ChildrenAssumption ==
  /\ Kinds \subseteq {"Secret", "PersistentVolumeClaim", "Service", "ConfigMap", "Job",
                      "StatefulSet", "Deployment", "DaemonSet", "Migration"}
  /\ MaxEdits \in Nat

VARIABLES
  kind,   \* the kind of the child; never changes
  user,   \* user[f]: what the component resource asks for
  child,  \* the object in the API server, or Gone
  cache,  \* the object in the informer cache
  budget  \* edits left

vars == <<kind, user, child, cache, budget>>

Unset == "unset"

\* Two random draws of the operator, and two allocations of the API server.
Draws       == {"draw1", "draw2"}
Allocations == {"server", "server2"}

Values == {Unset, "operator", "user", "someone"} \cup Draws \cup Allocations

-----------------------------------------------------------------------------
(***************************************************************************)
(* Fields.                                                                 *)
(***************************************************************************)

\* The data keys of the Secret of a Project.
Keys == {"jwt-secret", "anon-key"}

Workloads == {"StatefulSet", "Deployment", "DaemonSet"}

\* mergePodTemplateSpec, mergePodSpec and mergeContainer: assigned, ...
PodAssigned == {"template.metadata", "affinity", "terminationGracePeriodSeconds"}

ContainerAssigned == {"image", "args"}

\* ... kept if the operator does not set them (mergeProbe; mergeContainers returns
\* the existing list of init containers when none is desired), ...
PodKept == {"initContainers", "startupProbe", "terminationMessagePath"}

\* ... and fields of a Pod that they do not name.
PodOthers == {"dnsPolicy", "topologySpreadConstraints"}

\* preserveServiceDefaults.
ServiceKept == {"clusterIP", "nodePort", "sessionAffinity", "trafficDistribution"}

\* Fields that keep their value when the desired object leaves them unset.
Kept(k) ==
  CASE k \in Workloads               -> PodKept
    [] k = "Service"                 -> ServiceKept
    [] k = "PersistentVolumeClaim"   -> {"volumeAttributesClassName"}
    [] OTHER                         -> {}

\* Fields that are copied, set or not.
Assigned(k) ==
  CASE k = "StatefulSet" -> PodAssigned \cup ContainerAssigned
                            \cup {"metadata.labels", "replicas", "podManagementPolicy"}
    [] k = "Deployment"  -> PodAssigned \cup ContainerAssigned
                            \cup {"metadata.labels", "replicas"}
    [] k = "DaemonSet"   -> PodAssigned \cup ContainerAssigned \cup {"metadata.labels"}
    [] k = "Service"     -> {"metadata.labels", "type", "externalIPs"}
    [] k = "ConfigMap"   -> {"metadata.labels", "data"}
    [] k = "Migration"   -> {"metadata.labels", "spec"}
    [] k = "Job"         -> {"metadata.labels", "ttlSecondsAfterFinished", "job.template"}
    [] k = "PersistentVolumeClaim" -> {"metadata.labels", "storage"}
    [] OTHER             -> {}

\* mergeStringMaps, on the annotations; MutateJob also on the labels of the template.
Merged(k) ==
  CASE k = "Secret" -> {}
    [] k = "Job"    -> {"metadata.annotations", "job.template.labels"}
    [] OTHER        -> {"metadata.annotations"}

\* validatePVCImmutableFields.
ClaimFixed == {"accessModes", "storageClassName"}

\* Every field of kind k, those that its mutate function leaves alone included.
Fields(k) ==
  Kept(k) \cup Assigned(k) \cup Merged(k) \cup {"metadata.annotations", "metadata.labels"}
  \cup CASE k \in Workloads             -> PodOthers
         [] k = "Secret"                -> Keys
         [] k = "Job"                   -> {"job.selector", "job.template.labels"}
         [] k = "Service"               -> ServiceKept
         [] k = "PersistentVolumeClaim" -> ClaimFixed
         [] OTHER                       -> {}

\* What the generators of the operator set themselves.
Base(k) ==
  {"metadata.labels"} \cup
  CASE k \in Workloads ->
         {"template.metadata", "image", "startupProbe"}
         \cup (IF k = "DaemonSet" THEN {} ELSE {"replicas"})
    [] k = "Service"               -> {"type"}
    [] k = "ConfigMap"             -> {"data"}
    [] k = "Migration"             -> {"spec"}
    [] k = "Job"                   -> {"ttlSecondsAfterFinished", "job.template"}
    [] k = "PersistentVolumeClaim" -> {"accessModes", "storage"}
    [] OTHER                       -> {}

\* What the user can ask for: a Pod template, a Service template, a claim; the
\* data of a ConfigMap is generated from what the user asks for.
Overlayable(k) ==
  CASE k \in Workloads -> PodAssigned \cup ContainerAssigned \cup PodKept \cup PodOthers
                          \cup (IF k = "DaemonSet" THEN {} ELSE {"replicas"})
    [] k = "Service"   -> Fields("Service")
    [] k = "ConfigMap" -> {"data"}
    [] k = "Migration" -> {"spec"}
    [] k = "Job"       -> {"job.template"}
    [] k = "PersistentVolumeClaim" -> ClaimFixed \cup {"storage", "volumeAttributesClassName"}
    [] OTHER           -> {}

-----------------------------------------------------------------------------
(***************************************************************************)
(* The API server.                                                         *)
(***************************************************************************)

Gone == <<>>

\* Fields that get a default when unset.
Defaulted(k) ==
  CASE k \in Workloads ->
         {"terminationGracePeriodSeconds", "terminationMessagePath", "dnsPolicy"}
         \cup (IF k = "StatefulSet" THEN {"podManagementPolicy"} ELSE {})
    [] k = "Service" -> {"sessionAffinity"}
    [] k = "Job"     -> {"job.selector", "job.template.labels"}
    [] k = "PersistentVolumeClaim" -> {"storageClassName"}
    [] OTHER         -> {}

\* Fields that cannot be changed.
Immutable(k) ==
  CASE k = "StatefulSet" -> {"podManagementPolicy"}
    [] k = "Service" -> {"clusterIP"}
    [] k = "Job"     -> {"job.selector", "job.template", "job.template.labels"}
    [] k = "PersistentVolumeClaim" -> ClaimFixed
    [] OTHER         -> {}

\* A Service of type NodePort or LoadBalancer.
HasNodePort(obj) == obj["type"] \in {"user", "someone"}

\* The objects that a write of obj may leave behind.
Stored(k, obj) ==
  {[f \in Fields(k) |->
      CASE k = "Service" /\ f = "nodePort" /\ ~HasNodePort(obj) -> Unset
        [] k = "Service" /\ f \in {"clusterIP", "nodePort"} /\ obj[f] = Unset -> a
        [] obj[f] = Unset /\ f \in Defaulted(k) -> "server"
        [] OTHER -> obj[f]] : a \in Allocations}

\* A claim can only grow, and here the one who asked last asked for most.
Shrinks(from, to) ==
  \/ from = "someone" /\ to \in {"user", "operator"}
  \/ from = "user" /\ to = "operator"

Refuses(k, old, obj) ==
  \/ \E s \in Stored(k, obj) : \E f \in Immutable(k) : s[f] /= old[f] /\ obj[f] /= Unset
  \/ k = "PersistentVolumeClaim" /\ Shrinks(old["storage"], obj["storage"])
  \/ k = "Service" /\ ~HasNodePort(obj) /\ obj["nodePort"] \notin {Unset, old["nodePort"]}

RefusesNew(k, obj) == k = "Service" /\ ~HasNodePort(obj) /\ obj["nodePort"] /= Unset

-----------------------------------------------------------------------------
TypeOK ==
  /\ kind \in Kinds
  /\ user \in [Overlayable(kind) -> {Unset, "user"}]
  /\ child \in {Gone} \cup [Fields(kind) -> Values]
  /\ cache \in {Gone} \cup [Fields(kind) -> Values]
  /\ budget \in Nat

Init ==
  /\ kind \in Kinds
  /\ user = [f \in Overlayable(kind) |-> Unset]
  /\ child = Gone /\ cache = Gone
  /\ budget = MaxEdits

-----------------------------------------------------------------------------
(***************************************************************************)
(* EnsureResource.                                                         *)
(***************************************************************************)

\* Faulty variant: the fields that a template does not set are nulls in it.
OverlaidWithNulls(f) ==
  IF f \in Overlayable(kind) THEN (IF user[f] = Unset THEN "null" ELSE user[f])
  ELSE IF f \in Base(kind) THEN "operator" ELSE Unset

\* Overlay, OverlayService, OverlayPersistentVolumeClaimSpec: a template adds to
\* what the operator generates and replaces parts of it, but takes nothing away.
Overlaid(f) ==
  IF f \in Overlayable(kind) /\ user[f] /= Unset THEN user[f]
  ELSE IF f \in Base(kind) THEN "operator" ELSE Unset

\* The object that the operator wants; the keys are drawn each time.
Desired(draw) == [f \in Fields(kind) |-> IF f \in Keys THEN draw ELSE Overlaid(f)]

\* Faulty variant: a key is the one drawn last.
OverwrittenKey(old, new, f) == new[f]

\* MutateSecret: keys that are there stay.
MutatedKey(old, new, f) == IF old[f] = Unset THEN new[f] ELSE old[f]

\* Faulty variant: a field is copied only if it is set.
MutatedIfSet(k, old, new) ==
  [f \in Fields(k) |->
     CASE f \in Keys                                          -> MutatedKey(old, new, f)
       [] f \notin Keys /\ new[f] /= Unset
          /\ f \in Assigned(k) \cup Kept(k) \cup Merged(k)     -> new[f]
       [] OTHER                                              -> old[f]]

\* Faulty variant: what the API server has filled into a Service is not kept.
MutatedWholly(k, old, new) ==
  [f \in Fields(k) |->
     CASE f \in Assigned(k) \/ k = "Service"                  -> new[f]
       [] f \in Kept(k) \cup Merged(k) /\ new[f] /= Unset    -> new[f]
       [] f \in Keys                                         -> MutatedKey(old, new, f)
       [] OTHER                                              -> old[f]]

\* The mutate function of the kind.
Mutated(k, old, new) ==
  [f \in Fields(k) |->
     CASE f \in Assigned(k)                                  -> new[f]
       [] f \in Kept(k) \cup Merged(k) /\ new[f] /= Unset    -> new[f]
       [] f \in Keys                                         -> MutatedKey(old, new, f)
       [] OTHER                                              -> old[f]]

\* A Secret without any key has no map to write to.
Panics(k, old) == k = "Secret" /\ \A f \in Keys : old[f] = Unset

\* The mutate function returns an error: the claim cannot become what is desired.
Invalid(k, old, new) ==
  /\ k = "PersistentVolumeClaim"
  /\ \E f \in ClaimFixed : old[f] /= new[f] /\ (f = "accessModes" \/ new[f] /= Unset)

\* EnsureResource on what the cache shows.  An error leaves the child as it is.
EnsureResource ==
  \E draw \in Draws :
    LET new   == Desired(draw)
        obj   == Mutated(kind, cache, new)
        seen  == IF cache = Gone THEN Absent ELSE 1
        there == IF child = Gone THEN Absent ELSE 1
        fails == EnsureFails(seen, there, 1, obj /= cache, cache /= child)
    IN  /\ ~fails
        /\ IF cache = Gone THEN ~RefusesNew(kind, new) /\ child' \in Stored(kind, new)
           ELSE /\ ~Panics(kind, cache) /\ ~Invalid(kind, cache, new)
                /\ obj /= cache /\ ~Refuses(kind, child, obj)
                /\ child' \in Stored(kind, obj)
        /\ UNCHANGED <<kind, user, cache, budget>>

Deliver ==
  /\ cache /= child
  /\ cache' = child
  /\ UNCHANGED <<kind, user, child, budget>>

-----------------------------------------------------------------------------
(***************************************************************************)
(* The user, who edits the resource, and other clients of the API server.  *)
(***************************************************************************)

Edit ==
  /\ budget > 0 /\ budget' = budget - 1
  /\ \E f \in Overlayable(kind) :
       user' = [user EXCEPT ![f] = IF @ = Unset THEN "user" ELSE Unset]
  /\ UNCHANGED <<kind, child, cache>>

Tamper ==
  /\ budget > 0 /\ budget' = budget - 1
  /\ child /= Gone
  /\ \E f \in Fields(kind), v \in {"someone", Unset} :
       LET obj == [child EXCEPT ![f] = v]
       IN  /\ f \notin Immutable(kind) /\ ~Refuses(kind, child, obj)
           /\ child' \in Stored(kind, obj)
  /\ UNCHANGED <<kind, user, cache>>

\* The keys are removed, all of them, or the object.
Remove ==
  /\ budget > 0 /\ budget' = budget - 1
  /\ child /= Gone
  /\ \/ child' = Gone
     \/ /\ kind = "Secret"
        /\ child' = [f \in Fields(kind) |-> IF f \in Keys THEN Unset ELSE child[f]]
  /\ UNCHANGED <<kind, user, cache>>

Next == EnsureResource \/ Deliver \/ Edit \/ Tamper \/ Remove

Spec == Init /\ [][Next]_vars

\* The operator watches its children and their owner, and retries what failed.
FairSpec == Spec /\ WF_vars(EnsureResource) /\ WF_vars(Deliver)

-----------------------------------------------------------------------------
(***************************************************************************)
(* Properties.                                                             *)
(***************************************************************************)

\* Nothing stands in the way of the next write.
Accepted ==
  \A draw \in Draws :
    LET obj == Mutated(kind, child, Desired(draw))
    IN  ~Panics(kind, child) /\ ~Invalid(kind, child, Desired(draw)) /\ ~Refuses(kind, child, obj)

\* The operator comes to rest: once nobody edits anything, the child stops
\* changing, though each reconciliation draws new keys, leaves out what the API
\* server has filled in, and writes again.
EventuallyQuiet == <>[][FALSE]_child

\* What a field may end up with besides what the operator generates: if that is
\* nothing, the default, and in a field that is kept or merged whatever it had.
LeftOver(f) ==
  \/ Overlaid(f) = Unset /\ (child[f] = "server" \/ f \in Kept(kind) \cup Merged(kind))
  \/ f = "nodePort" /\ ~HasNodePort(child)

\* Unless the API server or the mutate function refuses it for good, the child ends
\* up with what the operator generates in every field that its mutate function
\* manages, whatever the user has asked for in between and others have written.
\* What the user no longer asks for goes from the fields that are assigned; the
\* others keep it, see RemovedIsGone.  A Secret has every key.
EventuallyAsGenerated ==
  <>[] (child /= Gone /\ Accepted =>
          /\ \A f \in Assigned(kind) \cup Kept(kind) \cup Merged(kind) :
               child[f] = Overlaid(f) \/ LeftOver(f)
          /\ kind = "Secret" => \A f \in Keys : child[f] /= Unset)

\* What others rely on is not taken away by a reconciliation: a key once in a
\* Secret, the addresses allocated to a Service, and annotations of other clients,
\* unless the user asks for another value.
KeepsOthers ==
  [][(EnsureResource /\ child /= Gone) =>
       \A f \in Fields(kind) \cap (Keys \cup {"metadata.annotations", "clusterIP", "nodePort"}) :
         \/ child[f] = Unset \/ child'[f] = child[f]
         \/ f \notin Keys /\ Overlaid(f) /= Unset
         \/ f = "nodePort" /\ ~HasNodePort(child')]_vars

-----------------------------------------------------------------------------
(***************************************************************************)
(* What one would expect of the code, and it does not do.                  *)
(***************************************************************************)

\* What the API types say of a component's Pod template: that it "overlays the
\* operator-generated Pod template", so that the workload ends up with what it sets.
PodOverlays ==
  <>[] (kind \in Workloads /\ child /= Gone =>
          \A f \in Overlayable(kind) : user[f] /= Unset => child[f] = user[f])

\* What the mutate functions say they preserve is what the API server has allocated
\* or defaulted.  They cannot tell it from what the user has asked for before: init
\* containers, probes, the session affinity and the like stay when they are removed
\* from the template.
RemovedIsGone ==
  <>[] (child /= Gone /\ Accepted =>
          \A f \in Assigned(kind) \cup Kept(kind) : Overlaid(f) = Unset => child[f] /= "user")
=============================================================================
