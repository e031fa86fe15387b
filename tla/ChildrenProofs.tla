---------------------------- MODULE ChildrenProofs ---------------------------
(***************************************************************************)
(* Proofs about Children, for any kinds of child and any number of edits.  *)
(***************************************************************************)
EXTENDS Children, TLAPS

AllKinds == {"Secret", "PersistentVolumeClaim", "Service", "ConfigMap", "Job",
             "StatefulSet", "Deployment", "DaemonSet", "Migration"}

Objects == [Fields(kind) -> Values]

-----------------------------------------------------------------------------
(***************************************************************************)
(* What mutate functions and the API server make of an object.             *)
(***************************************************************************)

LEMMA MutatedType ==
  ASSUME NEW k, NEW old \in [Fields(k) -> Values], NEW new \in [Fields(k) -> Values]
  PROVE  Mutated(k, old, new) \in [Fields(k) -> Values]
<1>1. ASSUME NEW f \in Fields(k)
      PROVE  Mutated(k, old, new)[f] \in {old[f], new[f]}
  BY DEF Mutated, MutatedKey
<1>2. ASSUME NEW f \in Fields(k)
      PROVE  Mutated(k, old, new)[f] \in Values
  BY <1>1
<1> DEFINE m == Mutated(k, old, new)
<1>3. m = [f \in Fields(k) |-> m[f]]
  BY DEF Mutated
<1> HIDE DEF m
<1> QED
  BY <1>2, <1>3 DEF m

LEMMA StoredType ==
  ASSUME NEW k, NEW obj \in [Fields(k) -> Values], NEW s \in Stored(k, obj)
  PROVE  /\ s \in [Fields(k) -> Values]
         /\ \A f \in Fields(k) :
              \/ s[f] = obj[f]
              \/ obj[f] = Unset /\ f \in Defaulted(k) \cup {"clusterIP", "nodePort"}
              \/ k = "Service" /\ f = "nodePort" /\ ~HasNodePort(obj)
<1>1. PICK a \in Allocations :
        s = [f \in Fields(k) |->
               CASE k = "Service" /\ f = "nodePort" /\ ~HasNodePort(obj) -> Unset
                 [] k = "Service" /\ f \in {"clusterIP", "nodePort"} /\ obj[f] = Unset -> a
                 [] obj[f] = Unset /\ f \in Defaulted(k) -> "server"
                 [] OTHER -> obj[f]]
  BY DEF Stored
<1>2. Unset \in Values /\ a \in Values /\ "server" \in Values
  BY DEF Values, Allocations
<1>3. ASSUME NEW f \in Fields(k)
      PROVE  /\ s[f] \in {Unset, a, "server", obj[f]}
             /\ \/ s[f] = obj[f]
                \/ obj[f] = Unset /\ f \in Defaulted(k) \cup {"clusterIP", "nodePort"}
                \/ k = "Service" /\ f = "nodePort" /\ ~HasNodePort(obj)
  BY <1>1
<1>4. ASSUME NEW f \in Fields(k)
      PROVE  s[f] \in Values
  BY <1>2, <1>3
<1>5. s = [f \in Fields(k) |-> s[f]]
  BY <1>1
<1> QED
  BY <1>3, <1>4, <1>5

LEMMA DesiredType ==
  ASSUME user \in [Overlayable(kind) -> {Unset, "user"}], NEW draw \in Draws
  PROVE  Desired(draw) \in Objects
<1>1. \A f : Overlaid(f) \in Values
  BY DEF Overlaid, Values
<1>2. draw \in Values
  BY DEF Values
<1> QED
  BY <1>1, <1>2 DEF Desired, Objects

\* The write that EnsureResource makes, of what the cache shows, if any.
LEMMA EnsureWrites ==
  ASSUME EnsureResource
  PROVE  \E draw \in Draws :
           \/ /\ cache = Gone /\ child = Gone
              /\ child' \in Stored(kind, Desired(draw))
           \/ /\ cache /= Gone /\ cache = child
              /\ child' \in Stored(kind, Mutated(kind, child, Desired(draw)))
<1>1. PICK draw \in Draws :
        LET new   == Desired(draw)
            obj   == Mutated(kind, cache, new)
            seen  == IF cache = Gone THEN Absent ELSE 1
            there == IF child = Gone THEN Absent ELSE 1
            fails == EnsureFails(seen, there, 1, obj /= cache, cache /= child)
        IN  /\ ~fails
            /\ IF cache = Gone THEN child' \in Stored(kind, new)
               ELSE obj /= cache /\ child' \in Stored(kind, obj)
  BY DEF EnsureResource
<1>2. CASE cache = Gone
  BY <1>1, <1>2 DEF EnsureFails, Absent
<1>3. CASE cache /= Gone
  BY <1>1, <1>3 DEF EnsureFails, Absent
<1> QED
  BY <1>2, <1>3

-----------------------------------------------------------------------------
LEMMA InitTypes == Init => TypeOK
<1> SUFFICES ASSUME Init PROVE TypeOK
  OBVIOUS
<1>1. user \in [Overlayable(kind) -> {Unset, "user"}]
  BY DEF Init
<1> QED
  BY <1>1, ChildrenAssumption DEF Init, TypeOK

LEMMA NextTypes == TypeOK /\ [Next]_vars => TypeOK'
<1> SUFFICES ASSUME TypeOK, [Next]_vars PROVE TypeOK'
  OBVIOUS
<1>1. CASE UNCHANGED vars
  BY <1>1 DEF vars, TypeOK
<1>2. CASE EnsureResource
  <2>1. UNCHANGED <<kind, user, cache, budget>>
    BY <1>2 DEF EnsureResource
  <2>2. PICK obj \in Objects : child' \in Stored(kind, obj)
    <3>1. user \in [Overlayable(kind) -> {Unset, "user"}]
      BY DEF TypeOK
    <3>2. child = Gone \/ child \in Objects
      BY DEF TypeOK, Objects
    <3> QED
      BY <1>2, <3>1, <3>2, EnsureWrites, DesiredType, MutatedType DEF Objects
  <2>3. child' \in Objects
    BY <2>2, StoredType DEF Objects
  <2> QED
    BY <2>1, <2>3 DEF TypeOK, Objects
<1>3. CASE Deliver
  BY <1>3 DEF Deliver, TypeOK
<1>4. CASE Edit
  <2>1. user' \in [Overlayable(kind) -> {Unset, "user"}]
    BY <1>4 DEF Edit, TypeOK
  <2> QED
    BY <1>4, <2>1 DEF Edit, TypeOK
<1>5. CASE Tamper
  <2>1. child \in Objects
    BY <1>5 DEF Tamper, TypeOK, Objects
  <2>2. PICK f \in Fields(kind), v \in {"someone", Unset} :
          child' \in Stored(kind, [child EXCEPT ![f] = v])
    BY <1>5 DEF Tamper
  <2>3. v \in Values
    BY DEF Values
  <2>4. [child EXCEPT ![f] = v] \in Objects
    BY <2>1, <2>3 DEF Objects
  <2>5. child' \in Objects
    BY <2>2, <2>4, StoredType DEF Objects
  <2> QED
    BY <1>5, <2>5 DEF Tamper, TypeOK, Objects
<1>6. CASE Remove
  <2>1. child \in Objects
    BY <1>6 DEF Remove, TypeOK, Objects
  <2>2. child' \in {Gone} \cup Objects
    <3>1. Unset \in Values
      BY DEF Values
    <3> QED
      BY <1>6, <2>1, <3>1 DEF Remove, Objects
  <2> QED
    BY <1>6, <2>2 DEF Remove, TypeOK, Objects
<1> QED
  BY <1>1, <1>2, <1>3, <1>4, <1>5, <1>6 DEF Next

\* Every reachable state is well typed: whatever is merged over it, a child has the
\* fields of its kind and nothing else.
THEOREM TypeCorrect == Spec => []TypeOK
BY InitTypes, NextTypes, PTL DEF Spec

-----------------------------------------------------------------------------
(***************************************************************************)
(* What others rely on.                                                    *)
(***************************************************************************)

\* Keys are in Secrets only, of which nothing is assigned.
LEMMA KeyFields ==
  ASSUME NEW k \in Kinds, NEW f \in Fields(k) \cap Keys
  PROVE  /\ f \notin Assigned(k) \cup Kept(k) \cup Merged(k) \cup Defaulted(k)
         /\ f \notin {"clusterIP", "nodePort"} /\ k /= "Service"
<1>1. k \in AllKinds
  BY ChildrenAssumption DEF AllKinds
<1>2. CASE k \in Workloads
  BY <1>2 DEF Fields, Kept, Assigned, Merged, Defaulted, Keys, Workloads, PodKept,
       PodAssigned,
     ContainerAssigned, PodOthers
<1>3. CASE k \in {"Service", "ConfigMap", "Migration"}
  BY <1>3 DEF Fields, Kept, Assigned, Merged, Defaulted, Keys, Workloads, ServiceKept
<1>4. CASE k \in {"PersistentVolumeClaim", "Job"}
  BY <1>4 DEF Fields, Kept, Assigned, Merged, Defaulted, Keys, Workloads, ClaimFixed
<1>5. CASE k = "Secret"
  BY <1>5 DEF Kept, Assigned, Merged, Defaulted, Keys, Workloads
<1> QED
  BY <1>1, <1>2, <1>3, <1>4, <1>5 DEF AllKinds, Workloads

\* Annotations are never assigned, and the API server has no default for them.
LEMMA AnnotationFields ==
  ASSUME NEW k \in Kinds
  PROVE  /\ "metadata.annotations" \notin Assigned(k) \cup Kept(k) \cup Keys \cup Defaulted(k)
         /\ "metadata.annotations" \notin {"clusterIP", "nodePort"}
<1>1. k \in AllKinds
  BY ChildrenAssumption DEF AllKinds
<1>2. CASE k \in Workloads
  BY <1>2 DEF Kept, Assigned, Defaulted, Keys, Workloads, PodKept, PodAssigned,
     ContainerAssigned
<1>3. CASE k \notin Workloads
  BY <1>1, <1>3 DEF AllKinds, Kept, Assigned, Defaulted, Keys, Workloads, ServiceKept
<1> QED
  BY <1>2, <1>3

\* Only Services have addresses, which their mutate function keeps.
LEMMA AddressFields ==
  ASSUME NEW k \in Kinds, NEW f \in Fields(k) \cap {"clusterIP", "nodePort"}
  PROVE  k = "Service" /\ f \in Kept(k) /\ f \notin Assigned(k) /\ f \notin Keys
<1>1. k \in AllKinds
  BY ChildrenAssumption DEF AllKinds
<1>2. k \notin Workloads
  BY DEF Fields, Kept, Assigned, Merged, Keys, Workloads, PodKept, PodAssigned,
     ContainerAssigned, PodOthers
<1>3. k = "Service"
  BY <1>1, <1>2 DEF AllKinds, Workloads, Fields, Kept, Assigned, Merged, Keys,
       ClaimFixed
<1> QED
  BY <1>3 DEF Kept, Assigned, Keys, ServiceKept, Workloads

\* What nobody but others sets passes through the mutate function.
LEMMA MutatedKeeps ==
  ASSUME NEW k \in Kinds, NEW old, NEW new,
         NEW f \in Fields(k) \cap (Keys \cup {"metadata.annotations", "clusterIP", "nodePort"}),
         old[f] /= Unset, f \in Keys \/ new[f] = Unset
  PROVE  Mutated(k, old, new)[f] = old[f]
<1>1. CASE f \in Keys
  <2>1. f \notin Assigned(k) \cup Kept(k) \cup Merged(k)
    BY <1>1, KeyFields
  <2> QED
    BY <1>1, <2>1 DEF Mutated, MutatedKey
<1>2. CASE f \notin Keys
  <2>1. f \notin Assigned(k) /\ new[f] = Unset
    BY <1>2, AnnotationFields, AddressFields
  <2> QED
    BY <1>2, <2>1 DEF Mutated
<1> QED
  BY <1>1, <1>2

\* The type of a Service is neither defaulted nor allocated.
LEMMA TypeStays ==
  ASSUME NEW obj \in [Fields("Service") -> Values], NEW s \in Stored("Service", obj)
  PROVE  HasNodePort(s) <=> HasNodePort(obj)
<1>1. "type" \in Fields("Service")
  BY DEF Fields, Assigned, Workloads
<1>2. "type" \notin Defaulted("Service") \cup {"clusterIP", "nodePort"}
  BY DEF Defaulted, Workloads
<1>3. s["type"] = obj["type"]
  BY <1>1, <1>2, StoredType
<1> QED
  BY <1>3 DEF HasNodePort

Others == Keys \cup {"metadata.annotations", "clusterIP", "nodePort"}

LEMMA EnsureKeeps ==
  ASSUME TypeOK, EnsureResource, child /= Gone, NEW f \in Fields(kind) \cap Others,
         child[f] /= Unset, f \in Keys \/ Overlaid(f) = Unset
  PROVE  child'[f] = child[f] \/ (f = "nodePort" /\ ~HasNodePort(child'))
<1>1. PICK draw \in Draws : child' \in Stored(kind, Mutated(kind, child, Desired(draw)))
  BY EnsureWrites
<1> DEFINE new == Desired(draw)
           obj == Mutated(kind, child, new)
<1>2. child \in Objects /\ new \in Objects /\ kind \in Kinds
  BY DesiredType DEF TypeOK, Objects
<1>3. f \in Keys \/ new[f] = Unset
  BY DEF Desired
<1>4. obj[f] = child[f]
  BY <1>2, <1>3, MutatedKeeps DEF Others
<1>5. obj \in [Fields(kind) -> Values]
  BY <1>2, MutatedType DEF Objects
<1> HIDE DEF obj
<1>6. \/ child'[f] = obj[f]
      \/ kind = "Service" /\ f = "nodePort" /\ ~HasNodePort(obj)
  BY <1>1, <1>4, <1>5, StoredType DEF obj
<1>7. kind = "Service" => (HasNodePort(child') <=> HasNodePort(obj))
  BY <1>1, <1>5, TypeStays DEF obj
<1> QED
  BY <1>4, <1>6, <1>7

OthersKept ==
  (EnsureResource /\ child /= Gone) =>
     \A f \in Fields(kind) \cap Others :
       \/ child[f] = Unset \/ child'[f] = child[f]
       \/ f \notin Keys /\ Overlaid(f) /= Unset
       \/ f = "nodePort" /\ ~HasNodePort(child')

\* No reconciliation takes away a key, an address or another client's annotation,
\* for every kind of child and whatever has been edited and cached before.
THEOREM OthersAreKept == Spec => KeepsOthers
<1>1. TypeOK => OthersKept
  BY EnsureKeeps DEF OthersKept
<1>2. TypeOK => [OthersKept]_vars
  BY <1>1
<1> QED
  BY <1>2, InitTypes, NextTypes, PTL DEF Spec, KeepsOthers, OthersKept, Others
=============================================================================
