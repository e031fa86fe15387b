----------------------------- MODULE WiringProofs ----------------------------
(***************************************************************************)
(* Proofs about Wiring, for any set of components, whatever their names,   *)
(* any faults and any number of them: that no reconciliation replaces a    *)
(* token, that calls reach the Pods meant, and the types.                  *)
(***************************************************************************)
EXTENDS Wiring, TLAPS

SecretKinds == {"Secret", "JWTSecret", "KeysSecret"}

\* The bound on the faults is a number, and data is a function of the objects.
Typed ==
  /\ budget \in Nat
  /\ data = [o \in Objects |-> data[o]]

-----------------------------------------------------------------------------
\* What the mutate functions do to a key that is there and is not derived.
LEMMA KeptKeeps ==
  ASSUME NEW o, NEW held, NEW key \in KeysOf(o), held[o][key] /= 0
  PROVE  Kept(o, held)[key] = held[o][key]
BY DEF Kept

LEMMA MutatedKeeps ==
  ASSUME NEW o, o[2] \in SecretKinds, NEW held,
         NEW key \in KeysOf(o) \ Derived(o), held[o][key] /= 0
  PROVE  Mutated(o, held)[key] = held[o][key]
<1>1. CASE o = SecretOf("Supavisor")
  BY <1>1 DEF KeysOf, Derived, SecretOf, PasswordSecret, JWTSecret, KeysSecret,
     SupavisorSecretKeys
<1>2. CASE o = SecretOf("Analytics")
  <2>1. key /= "url"
    BY <1>2 DEF Derived, SecretOf
  <2>2. Mutated(o, held) = MutatedAnalytics(held)
    BY <1>2 DEF Mutated, SecretOf
  <2>3. MutatedAnalytics(held)[key] = Kept(o, held)[key]
    BY <1>2, <2>1 DEF MutatedAnalytics, Kept
  <2> QED BY <2>2, <2>3, KeptKeeps
<1>3. CASE o /= SecretOf("Supavisor") /\ o /= SecretOf("Analytics")
  <2>1. Mutated(o, held) = Kept(o, held)
    BY <1>3 DEF Mutated, SecretKinds
  <2> QED BY <2>1, KeptKeeps
<1> QED BY <1>1, <1>2, <1>3

-----------------------------------------------------------------------------
\* A step of a controller leaves the objects alone, or writes the one it is at, of
\* which the cache was up to date.
LEMMA EnsureWrites ==
  ASSUME NEW c, EnsureObject(c)
  PROVE  /\ world' = world
         /\ \/ data' = data
            \/ /\ data[Object(c)] = cData[Object(c)]
               /\ data' = [data EXCEPT ![Object(c)] = Mutated(Object(c), cData)]
<1> DEFINE o == Object(c)
           new == Mutated(o, cData)
<1>1. CASE Fault("api") /\ Fails(c) /\ UNCHANGED <<data, pend, drawn>>
  BY <1>1 DEF EnsureObject
<1>2. CASE new /= cData[o] /\ data[o] = cData[o] /\ Written(o, new)
  BY <1>2 DEF EnsureObject, Written
<1>3. CASE UNCHANGED <<data, pend, drawn>>
  BY <1>3 DEF EnsureObject
<1> QED BY <1>1, <1>2, <1>3 DEF EnsureObject

\* Every step keeps the Project, writes one object at most, and has a fault of the
\* budget or not.
OneWrite ==
  /\ world' = world
  /\ data' = data \/ \E o, new : data' = [data EXCEPT ![o] = new]
  /\ budget' = budget \/ (budget > 0 /\ budget' = budget - 1)

LEMMA ControllerWrites ==
  ASSUME NEW c, Controller(c)
  PROVE  OneWrite
<1>1. CASE Start(c)
  BY <1>1 DEF Start, OneWrite
<1>2. CASE EnsureObject(c)
  <2>1. budget' = budget \/ (budget > 0 /\ budget' = budget - 1)
    BY <1>2 DEF EnsureObject, Fault
  <2> QED BY <1>2, <2>1, EnsureWrites DEF OneWrite
<1>3. CASE EnsureWorkload(c)
  BY <1>3 DEF EnsureWorkload, Fault, OneWrite
<1> QED BY <1>1, <1>2, <1>3 DEF Controller

\* What the users and the cluster do to an object costs a fault.
LEMMA EnvironmentWrites ==
  ASSUME Environment
  PROVE  OneWrite /\ budget > 0 /\ budget' = budget - 1
<1>1. CASE Rotate
  BY <1>1 DEF Rotate, Fault, Written, OneWrite
<1>2. ASSUME NEW o \in Objects, RemoveKey(o)
      PROVE  OneWrite /\ budget > 0 /\ budget' = budget - 1
  BY <1>2 DEF RemoveKey, Fault, Written, OneWrite
<1>3. ASSUME NEW o \in Objects, DeleteObject(o)
      PROVE  OneWrite /\ budget > 0 /\ budget' = budget - 1
  BY <1>3 DEF DeleteObject, Fault, Written, OneWrite
<1>4. ASSUME NEW k \in world.kinds, LosePods(k)
      PROVE  OneWrite /\ budget > 0 /\ budget' = budget - 1
  BY <1>4 DEF LosePods, Fault, OneWrite
<1>5. CASE RestartOperator
  BY <1>5 DEF RestartOperator, Fault, OneWrite
<1> QED BY <1>1, <1>2, <1>3, <1>4, <1>5 DEF Environment

\* Deliveries and rollouts write nothing.
LEMMA ClusterWrites ==
  ASSUME \/ \E o \in Objects : Deliver(o)
         \/ \E k \in world.kinds : Rollout(k)
  PROVE  OneWrite /\ data' = data
BY DEF Deliver, Rollout, OneWrite

-----------------------------------------------------------------------------
(***************************************************************************)
(* Typed is inductive.                                                     *)
(***************************************************************************)

LEMMA InitTyped == Init => Typed
<1> SUFFICES ASSUME Init PROVE Typed
  OBVIOUS
<1>1. budget \in Nat
  <2>1. world \in World
    BY WiringAssumption DEF Init
  <2> QED BY <2>1 DEF Init, World
<1>2. data = [o \in Objects |-> data[o]]
  BY DEF Init
<1> QED BY <1>1, <1>2 DEF Typed

LEMMA OneWriteTyped ==
  ASSUME Typed, OneWrite
  PROVE  Typed'
<1>1. budget' \in Nat
  BY DEF Typed, OneWrite
<1>2. Objects' = Objects
  BY DEF OneWrite, Objects, Controllers, Writes
<1>3. CASE data' = data
  BY <1>1, <1>2, <1>3 DEF Typed
<1>4. CASE \E o, new : data' = [data EXCEPT ![o] = new]
  <2>1. PICK o, new : data' = [data EXCEPT ![o] = new]
    BY <1>4
  <2>2. data' = [x \in Objects |-> IF x = o THEN new ELSE data[x]]
    BY <2>1 DEF Typed
  <2>3. data' = [x \in Objects |-> data'[x]]
    BY <2>2
  <2> QED BY <1>1, <1>2, <2>3 DEF Typed
<1> QED BY <1>3, <1>4 DEF OneWrite

LEMMA NextTyped == Typed /\ [Next]_vars => Typed'
<1> SUFFICES ASSUME Typed, [Next]_vars PROVE Typed'
  OBVIOUS
<1>1. CASE UNCHANGED vars
  BY <1>1 DEF vars, Typed, Objects, Controllers, Writes
<1>2. CASE Next
  BY <1>2, ControllerWrites, EnvironmentWrites, ClusterWrites, OneWriteTyped DEF Next
<1> QED BY <1>1, <1>2

-----------------------------------------------------------------------------
(***************************************************************************)
(* Tokens.                                                                 *)
(***************************************************************************)

\* What TokensStay says of one step.
TokensKept ==
  budget' = budget =>
    \A o \in Secrets : \A key \in KeysOf(o) \ Derived(o) :
      data[o][key] /= 0 => data'[o][key] = data[o][key]

LEMMA ControllerKeeps ==
  ASSUME Typed, NEW c, Controller(c)
  PROVE  TokensKept
<1>1. CASE data' = data
  BY <1>1 DEF TokensKept
<1>2. CASE EnsureObject(c) /\ data' /= data
  <2> DEFINE written == Object(c)
  <2>1. /\ data[written] = cData[written]
        /\ data' = [data EXCEPT ![written] = Mutated(written, cData)]
    BY <1>2, EnsureWrites
  <2> HIDE DEF written
  <2> SUFFICES ASSUME NEW o \in Secrets, NEW key \in KeysOf(o) \ Derived(o),
                      data[o][key] /= 0
               PROVE  data'[o][key] = data[o][key]
    BY DEF TokensKept
  <2>2. o \in Objects /\ o[2] \in SecretKinds
    BY DEF Secrets, SecretKinds
  <2>3. CASE o /= written
    BY <2>1, <2>2, <2>3 DEF Typed
  <2>4. CASE o = written
    <3>1. data'[o] = Mutated(o, cData)
      BY <2>1, <2>2, <2>4 DEF Typed
    <3>2. cData[o][key] = data[o][key]
      BY <2>1, <2>4
    <3>3. Mutated(o, cData)[key] = cData[o][key]
      BY <2>2, <3>2, MutatedKeeps
    <3> QED BY <3>1, <3>2, <3>3
  <2> QED BY <2>3, <2>4
<1>3. CASE Start(c) \/ EnsureWorkload(c)
  BY <1>1, <1>3 DEF Start, EnsureWorkload
<1> QED BY <1>1, <1>2, <1>3 DEF Controller

LEMMA NextKeeps == Typed /\ [Next]_vars => TokensKept
<1> SUFFICES ASSUME Typed, [Next]_vars PROVE TokensKept
  OBVIOUS
<1>1. CASE UNCHANGED vars
  BY <1>1 DEF vars, TokensKept
<1>2. CASE \E c \in Controllers : Controller(c)
  BY <1>2, ControllerKeeps
<1>3. CASE \/ \E o \in Objects : Deliver(o)
           \/ \E k \in world.kinds : Rollout(k)
  BY <1>3, ClusterWrites DEF TokensKept
<1>4. CASE Environment
  BY <1>4, EnvironmentWrites DEF Typed, TokensKept
<1> QED BY <1>1, <1>2, <1>3, <1>4 DEF Next

\* Whatever the components of a Project are, and whatever befalls it: a token, an
\* API key or a password that is there is replaced by no reconciliation, since each
\* writes only a Secret that is still as the cache had it, and keeps its keys.
THEOREM TokensAreKept == Spec => TokensStay
<1>1. Typed /\ [Next]_vars => [TokensKept]_vars
  BY NextKeeps
<1> QED BY <1>1, InitTyped, NextTyped, PTL DEF Spec, TokensStay, TokensKept

-----------------------------------------------------------------------------
(***************************************************************************)
(* CallsReach.  Whatever the components are called, the label "name" tells *)
(* the Pods of each from those of every other.                             *)
(***************************************************************************)

\* The kinds that have a Service, and all that have Pods.
Serving == {"Auth", "Rest", "Meta", "Realtime", "Supavisor", "Storage", "Studio",
            "EdgeRuntime", "Envoy", "Analytics", "SingleDatabase"}

Running == Serving \cup {"Vector"}

NameLabel ==
  [Auth |-> "auth", Rest |-> "rest", Meta |-> "meta", Realtime |-> "realtime",
   Supavisor |-> "supavisor", Storage |-> "storage", Studio |-> "studio",
   EdgeRuntime |-> "functions", Envoy |-> "envoy", Analytics |-> "analytics",
   SingleDatabase |-> "postgres", Vector |-> "vector"]

\* What the name says is the kind.
LEMMA NamesDiffer ==
  ASSUME NEW k \in Running, NEW other \in Running, NameLabel[k] = NameLabel[other]
  PROVE  k = other
BY DEF Running, Serving, NameLabel

LEMMA PodLabels ==
  ASSUME NEW k \in Running, NEW found
  PROVE  \E suffix, component :
           Pod(k, found).labels = ComponentLabels(k, suffix, NameLabel[k], component)
<1>1. CASE k \in {"Auth", "Rest", "Meta", "Realtime"}
  BY <1>1 DEF Pod, NameLabel, AuthPod, RestPod, MetaPod, RealtimePod
<1>2. CASE k \in {"Supavisor", "Storage", "Studio", "EdgeRuntime"}
  BY <1>2 DEF Pod, NameLabel, SupavisorPod, StoragePod, StudioPod, EdgeRuntimePod
<1>3. CASE k \in {"Envoy", "Analytics", "SingleDatabase", "Vector"}
  BY <1>3 DEF Pod, NameLabel, EnvoyPod, AnalyticsPod, PostgresPod, VectorPod
<1> QED
  BY <1>1, <1>2, <1>3 DEF Running, Serving

LEMMA ServiceLabels ==
  ASSUME NEW k \in Serving, NEW found
  PROVE  \E suffix, component :
           /\ Service(k).selector = SelectorLabels(k, suffix, NameLabel[k], component)
           /\ Pod(k, found).labels = ComponentLabels(k, suffix, NameLabel[k], component)
<1>1. CASE k \in {"Auth", "Rest", "Meta", "Realtime"}
  BY <1>1 DEF Pod, Service, NameLabel, AuthPod, RestPod, MetaPod, RealtimePod,
     AuthService, RestService, MetaService, RealtimeService
<1>2. CASE k \in {"Supavisor", "Storage", "Studio", "EdgeRuntime"}
  BY <1>2 DEF Pod, Service, NameLabel, SupavisorPod, StoragePod, StudioPod,
       EdgeRuntimePod,
     SupavisorService, StorageService, StudioService, FunctionsService
<1>3. CASE k \in {"Envoy", "Analytics", "SingleDatabase"}
  BY <1>3 DEF Pod, Service, NameLabel, EnvoyPod, AnalyticsPod, PostgresPod,
     EnvoyService, AnalyticsService, PostgresService
<1> QED
  BY <1>1, <1>2, <1>3 DEF Serving

\* The labels of a kind, and those without the one that all share, select its Pods only.
LEMMA LabelsSelect ==
  ASSUME NEW k \in Running, NEW other \in Running, NEW found, NEW labels,
         NEW suffix, NEW component,
         Pod(k, found).labels = ComponentLabels(k, suffix, NameLabel[k], component),
         \/ labels = SelectorLabels(k, suffix, NameLabel[k], component)
         \/ labels = ComponentLabels(k, suffix, NameLabel[k], component),
         NEW theirs
  PROVE  /\ Selects(labels, k, found)
         /\ Selects(labels, other, theirs) => other = k
<1>1. Selects(labels, k, found)
  BY DEF Selects, ComponentLabels
<1>2. ASSUME Selects(labels, other, theirs)
      PROVE  other = k
  <2>1. <<"name", NameLabel[k]>> \in labels
    BY DEF ComponentLabels, SelectorLabels
  <2>2. <<"name", NameLabel[k]>> \in Pod(other, theirs).labels
    BY <1>2, <2>1 DEF Selects
  <2>3. NameLabel[k] = NameLabel[other]
    BY <2>2, PodLabels DEF ComponentLabels, SelectorLabels
  <2> QED
    BY <2>3, NamesDiffer
<1> QED
  BY <1>1, <1>2

LEMMA ServiceSelects ==
  ASSUME NEW c \in Serving, NEW k \in Running, NEW found
  PROVE  Selects(Service(c).selector, k, found) <=> k = c
<1>1. c \in Running
  BY DEF Running
<1>2. PICK suffix, component :
        /\ Service(c).selector = SelectorLabels(c, suffix, NameLabel[c], component)
        /\ Pod(c, found).labels = ComponentLabels(c, suffix, NameLabel[c], component)
  BY ServiceLabels
<1>3. /\ Selects(Service(c).selector, c, found)
      /\ Selects(Service(c).selector, k, found) => k = c
  BY <1>1, <1>2, LabelsSelect
<1> QED
  BY <1>3

LEMMA TargetSelects ==
  ASSUME NEW t \in {"SingleDatabase", "Auth", "Rest", "Realtime", "Storage", "EdgeRuntime",
                    "Envoy"},
         NEW k \in Running, NEW found
  PROVE  Selects(TargetLabels(t), k, found) <=> k = t
<1>1. t \in Running
  BY DEF Running, Serving
<1>2. PICK suffix, component :
        /\ TargetLabels(t) = ComponentLabels(t, suffix, NameLabel[t], component)
        /\ Pod(t, found).labels = ComponentLabels(t, suffix, NameLabel[t], component)
  <2>1. CASE t \in {"Auth", "Rest", "Realtime", "Storage"}
    BY <2>1 DEF Pod, TargetLabels, NameLabel, AuthPod, RestPod, RealtimePod, StoragePod,
       ComponentLabels
  <2>2. CASE t = "EdgeRuntime"
    BY <2>2 DEF Pod, TargetLabels, NameLabel, EdgeRuntimePod, ComponentLabels
  <2>3. CASE t = "Envoy"
    BY <2>3 DEF Pod, TargetLabels, NameLabel, EnvoyPod, ComponentLabels
  <2>4. CASE t = "SingleDatabase"
    BY <2>4 DEF Pod, TargetLabels, NameLabel, PostgresPod, ComponentLabels
  <2> QED
    BY <2>1, <2>2, <2>3, <2>4
<1>3. /\ Selects(TargetLabels(t), t, found)
      /\ Selects(TargetLabels(t), k, found) => k = t
  BY <1>1, <1>2, LabelsSelect
<1> QED
  BY <1>3

\* The port at which the components of a kind are called.
CalledPort ==
  [Auth |-> 9999, Rest |-> 3000, Meta |-> 8080, Realtime |-> 4000, Storage |-> 5000,
   Studio |-> 3000, EdgeRuntime |-> 9000, Envoy |-> 8000, Analytics |-> 4000,
   SingleDatabase |-> 5432]

LEMMA PortsServed ==
  ASSUME NEW k \in Serving \ {"Supavisor"}
  PROVE  /\ <<CalledPort[k], CalledPort[k]>> \in Service(k).targets
         /\ CalledPort[k] \in Pod(k, {}).ports
<1>1. CASE k \in {"Auth", "Rest", "Meta", "Realtime"}
  BY <1>1 DEF CalledPort, Pod, Service, AuthPod, RestPod, MetaPod, RealtimePod,
     AuthService, RestService, MetaService, RealtimeService
<1>2. CASE k \in {"Storage", "Studio", "EdgeRuntime"}
  BY <1>2 DEF CalledPort, Pod, Service, StoragePod, StudioPod, EdgeRuntimePod,
     StorageService, StudioService, FunctionsService
<1>3. CASE k \in {"Envoy", "Analytics", "SingleDatabase"}
  BY <1>3 DEF CalledPort, Pod, Service, EnvoyPod, AnalyticsPod, PostgresPod,
     EnvoyService, AnalyticsService, PostgresService
<1> QED
  BY <1>1, <1>2, <1>3 DEF Serving

\* Every call goes to a port that the Service leads on to one of the Pods.
LEMMA CallsServed ==
  ASSUME NEW k \in Running, NEW found, k = "Studio" => found \subseteq {"Analytics"},
         k = "Envoy" => found \subseteq Routed, NEW call \in Pod(k, found).calls
  PROVE  /\ call[1] \in Serving
         /\ \E target \in Service(call[1]).targets :
              target[1] = call[2] /\ target[2] \in Pod(call[1], {}).ports
<1>1. call \in {<<"SingleDatabase", 5432>>, <<"Auth", 9999>>, <<"Rest", 3000>>,
                <<"Meta", 8080>>, <<"Realtime", 4000>>, <<"Storage", 5000>>,
                <<"Studio", 3000>>, <<"EdgeRuntime", 9000>>, <<"Envoy", 8000>>,
                <<"Analytics", 4000>>}
  <2>1. CASE k \in {"Auth", "Rest", "Meta", "Realtime", "Supavisor", "Storage"}
    BY <2>1 DEF Pod, AuthPod, RestPod, MetaPod, RealtimePod, SupavisorPod, StoragePod,
         Database
  <2>2. CASE k = "Studio"
    BY <2>2 DEF Pod, StudioPod, Database
  <2>3. CASE k = "Envoy"
    <3>1. PICK kind \in Routed : call = <<kind, RoutedPort[kind]>>
      BY <2>3 DEF Pod, EnvoyPod, EnvoyClusters
    <3> QED
      BY <3>1 DEF Routed, RoutedPort
  <2>4. CASE k \in {"EdgeRuntime", "Analytics", "SingleDatabase", "Vector"}
    BY <2>4 DEF Pod, EdgeRuntimePod, AnalyticsPod, PostgresPod, VectorPod, Database
  <2> QED
    BY <2>1, <2>2, <2>3, <2>4 DEF Running, Serving
<1>2. call[1] \in Serving \ {"Supavisor"} /\ call[2] = CalledPort[call[1]]
  BY <1>1 DEF Serving, CalledPort
<1>3. /\ <<call[2], call[2]>> \in Service(call[1]).targets
      /\ call[2] \in Pod(call[1], {}).ports
  BY <1>2, PortsServed
<1> QED
  BY <1>2, <1>3

\* The components that a Project may have are those that run.
LEMMA WorldKinds ==
  ASSUME world \in Worlds
  PROVE  /\ world.kinds \subseteq Kinds /\ world.kinds \subseteq Running
         /\ FoundBy("Studio") \subseteq {"Analytics"} /\ FoundBy("Envoy") \subseteq Routed
<1>1. world.kinds \subseteq Kinds
  BY WiringAssumption DEF World
<1>2. Kinds \subseteq Running
  BY DEF Kinds, Kind, Running, Serving
<1>3. FoundBy("Studio") \subseteq {"Analytics"}
  BY DEF FoundBy, Kind, Studio
<1>4. FoundBy("Envoy") \subseteq Routed
  BY DEF FoundBy, Kind, Envoy
<1> QED
  BY <1>1, <1>2, <1>3, <1>4

LEMMA AllCallsReach == world \in Worlds => CallsReach
<1> SUFFICES ASSUME world \in Worlds PROVE CallsReach
  OBVIOUS
<1> DEFINE Members == world.kinds \cup {"SingleDatabase"}
                        \cup (IF "Analytics" \in world.kinds THEN {"Vector"} ELSE {})
           FoundOf(k) == IF k \in world.kinds THEN FoundBy(k) ELSE {}
           Reaches(call) ==
             /\ \A k \in Members :
                  Selects(Service(call[1]).selector, k, FoundOf(k)) <=> k = call[1]
             /\ \E target \in Service(call[1]).targets :
                  target[1] = call[2] /\ target[2] \in Pod(call[1], {}).ports
<1>1. Members \subseteq Running
  BY WorldKinds DEF Running, Serving
<1>2. ASSUME NEW k \in Members, NEW call \in Pod(k, FoundOf(k)).calls
      PROVE  Reaches(call)
  <2>1. k = "Studio" => FoundOf(k) \subseteq {"Analytics"}
    BY WorldKinds
  <2>2. k = "Envoy" => FoundOf(k) \subseteq Routed
    BY WorldKinds
  <2>3. /\ call[1] \in Serving
        /\ \E target \in Service(call[1]).targets :
             target[1] = call[2] /\ target[2] \in Pod(call[1], {}).ports
    <3> HIDE DEF FoundOf
    <3> QED
      BY <1>1, <1>2, <2>1, <2>2, CallsServed
  <2>4. \A other \in Members :
          Selects(Service(call[1]).selector, other, FoundOf(other)) <=> other = call[1]
    BY <1>1, <2>3, ServiceSelects
  <2> QED
    BY <2>3, <2>4
<1>3. ASSUME NEW k \in Members, NEW t \in Targets(world.kinds)
      PROVE  Selects(TargetLabels(t), k, FoundOf(k)) <=> k = t
  <2>1. t \in {"SingleDatabase", "Auth", "Rest", "Realtime", "Storage", "EdgeRuntime", "Envoy"}
    BY DEF Targets
  <2> QED
    BY <1>1, <2>1, TargetSelects
<1> QED
  BY <1>2, <1>3 DEF CallsReach

-----------------------------------------------------------------------------
(***************************************************************************)
(* TypeOK.                                                                 *)
(***************************************************************************)

HeldType(held) == DOMAIN held = Objects /\ \A o \in Objects : held[o] \in [KeysOf(o) -> Nat]

\* What stays as it is while the Project has the same components.
LEMMA SameWorld ==
  ASSUME world' = world
  PROVE  /\ Controllers' = Controllers /\ Objects' = Objects
         /\ \A k : Inputs(k)' = Inputs(k) /\ Reads(k)' = Reads(k)
<1>1. Controllers' = Controllers
  BY DEF Controllers
<1>2. Objects' = Objects
  BY <1>1 DEF Objects
<1>3. ASSUME NEW k PROVE Reads(k)' = Reads(k)
  BY DEF Reads, FoundBy
<1>4. ASSUME NEW k PROVE Inputs(k)' = Inputs(k)
  BY <1>3 DEF Inputs
<1> QED
  BY <1>1, <1>2, <1>3, <1>4

LEMMA TupleLengths ==
  ASSUME NEW s, NEW c, NEW d, NEW e, NEW f, s \in {<<c>>, <<c, d>>, <<c, d, e>>, <<c, d, e, f>>}
  PROVE  Len(s) \in Nat \ {0} /\ DOMAIN s = 1..Len(s)
<1>1. CASE s = <<c>>
  BY <1>1
<1>2. CASE s = <<c, d>>
  BY <1>2
<1>3. CASE s = <<c, d, e>>
  BY <1>3
<1>4. CASE s = <<c, d, e, f>>
  BY <1>4
<1> QED
  BY <1>1, <1>2, <1>3, <1>4

LEMMA ChildrenType ==
  ASSUME NEW k \in Kinds
  PROVE  Len(Kind[k].children) \in Nat \ {0}
         /\ DOMAIN Kind[k].children = 1..Len(Kind[k].children)
<1>1. Kind[k] \in {Auth, Supavisor, Storage, Studio, EdgeRuntime, Envoy, Analytics}
  BY DEF Kinds, Kind, Rest, Meta, Realtime
<1>2. /\ Auth.children = <<"Service", "Workload">>
      /\ Supavisor.children = <<"Secret", "ConfigMap", "Service", "Workload">>
      /\ Analytics.children = <<"Secret", "Service", "Workload">>
  BY DEF Auth, Supavisor, Analytics
<1>3. /\ Storage.children = <<"Secret", "Claim", "Service", "Workload">>
      /\ Studio.children = <<"Claim", "Service", "Workload">>
      /\ EdgeRuntime.children = <<"ConfigMap", "Service", "Workload">>
      /\ Envoy.children = <<"Secret", "ConfigMap", "Service", "Workload">>
  BY DEF Storage, Studio, EdgeRuntime, Envoy
<1>4. \E c, d, e, f : Kind[k].children \in {<<c>>, <<c, d>>, <<c, d, e>>, <<c, d, e, f>>}
  BY <1>1, <1>2, <1>3
<1> QED
  BY <1>4, TupleLengths

\* Every controller has something to write.
LEMMA WritesType ==
  ASSUME world \in Worlds, NEW c \in Controllers
  PROVE  Len(Writes(c)) \in Nat \ {0} /\ DOMAIN Writes(c) = 1..Len(Writes(c))
<1>1. c \in {"SingleDatabase", "Project"} \cup Kinds
  BY WorldKinds DEF Controllers
<1>2. CASE c = "SingleDatabase"
  <2>1. Writes(c) = <<"Secret">>
    BY <1>2 DEF Writes
  <2> QED
    BY <2>1
<1>3. CASE c = "Project"
  <2>1. Writes(c) = <<"JWTSecret", "KeysSecret">>
    BY <1>3 DEF Writes
  <2> QED
    BY <2>1
<1>4. CASE c \in Kinds
  <2>1. c \notin {"SingleDatabase", "Project"}
    BY <1>4 DEF Kinds, Kind
  <2>2. Writes(c) = Kind[c].children
    BY <2>1 DEF Writes
  <2> QED
    BY <1>4, <2>2, ChildrenType
<1> QED
  BY <1>1, <1>2, <1>3, <1>4

LEMMA ObjectType ==
  ASSUME TypeOK, NEW c \in Controllers, w[c] /= 0, Object(c)[2] /= "Workload"
  PROVE  Object(c) \in Objects
<1>1. w[c] \in 1..Len(Writes(c))
  BY DEF TypeOK
<1>2. w[c] \in DOMAIN Writes(c)
  BY <1>1, WritesType DEF TypeOK
<1> QED
  BY <1>2 DEF Object, Objects

LEMMA PasswordType ==
  ASSUME TypeOK
  PROVE  PasswordSecret \in Objects /\ KeysOf(PasswordSecret) = {"password"}
         /\ CachedPassword \in Nat
<1>1. PasswordSecret \in Objects
  <2>1. "SingleDatabase" \in Controllers /\ Writes("SingleDatabase") = <<"Secret">>
    BY DEF Controllers, Writes
  <2>2. 1 \in DOMAIN Writes("SingleDatabase") /\ Writes("SingleDatabase")[1] = "Secret"
    BY <2>1
  <2> QED
    BY <2>1, <2>2 DEF Objects, PasswordSecret
<1>2. KeysOf(PasswordSecret) = {"password"}
  BY DEF KeysOf, PasswordSecret, JWTSecret, KeysSecret, SecretOf
<1> QED
  BY <1>1, <1>2 DEF TypeOK, CachedPassword

LEMMA KeptType ==
  ASSUME TypeOK, NEW held, HeldType(held), NEW o \in Objects
  PROVE  Kept(o, held) \in [KeysOf(o) -> Nat]
<1>1. held[o] \in [KeysOf(o) -> Nat] /\ drawn[o] \in Nat
  BY DEF TypeOK, HeldType
<1> QED
  BY <1>1 DEF Kept, Fresh

LEMMA MutatedType ==
  ASSUME TypeOK, NEW o \in Objects
  PROVE  Mutated(o, cData) \in [KeysOf(o) -> Nat]
<1>1. HeldType(cData) /\ CachedPassword \in Nat
  BY PasswordType DEF TypeOK, HeldType
<1>2. CASE o = SecretOf("Supavisor")
  <2>1. KeysOf(o) = SupavisorSecretKeys
    BY <1>2 DEF KeysOf, SecretOf, PasswordSecret, JWTSecret, KeysSecret
  <2>2. Mutated(o, cData) = [key \in SupavisorSecretKeys |-> CachedPassword]
    BY <1>2 DEF Mutated, MutatedSupavisor, SecretOf
  <2> QED
    BY <1>1, <2>1, <2>2
<1>3. CASE o = SecretOf("Analytics")
  <2>1. Mutated(o, cData) = [Kept(o, cData) EXCEPT !.url = CachedPassword]
    BY <1>3 DEF Mutated, MutatedAnalytics, SecretOf
  <2>2. Kept(o, cData) \in [KeysOf(o) -> Nat]
    BY <1>1, KeptType
  <2> QED
    BY <1>1, <2>1, <2>2
<1>4. CASE o[2] \in {"ConfigMap", "Service", "Claim"}
  <2>1. KeysOf(o) = {"contents"}
    BY <1>4 DEF KeysOf, SecretOf, PasswordSecret, JWTSecret, KeysSecret
  <2>2. Mutated(o, cData) = [contents |-> 1]
    BY <1>4 DEF Mutated, SecretOf
  <2> QED
    BY <2>1, <2>2
<1>5. CASE /\ o /= SecretOf("Supavisor") /\ o /= SecretOf("Analytics")
           /\ o[2] \notin {"ConfigMap", "Service", "Claim"}
  <2>1. Mutated(o, cData) = Kept(o, cData)
    BY <1>5 DEF Mutated
  <2> QED
    BY <1>1, <2>1, KeptType
<1> QED
  BY <1>2, <1>3, <1>4, <1>5

\* An object is written, with the keys that it may have.
LEMMA WrittenType ==
  ASSUME TypeOK, world' = world, NEW o \in Objects, NEW new \in [KeysOf(o) -> Nat],
         Written(o, new)
  PROVE  HeldType(data)' /\ pend' \subseteq Objects'
<1>1. Objects' = Objects
  BY SameWorld
<1>2. DOMAIN data = Objects /\ \A x \in Objects : data[x] \in [KeysOf(x) -> Nat]
  BY DEF TypeOK
<1>3. data' = [data EXCEPT ![o] = new] /\ pend' = pend \cup {o}
  BY DEF Written
<1>4. DOMAIN data' = Objects
  BY <1>2, <1>3
<1>5. ASSUME NEW x \in Objects PROVE data'[x] \in [KeysOf(x) -> Nat]
  BY <1>2, <1>3
<1> QED
  BY <1>1, <1>3, <1>4, <1>5 DEF HeldType, TypeOK

\* TypeOK of the next state, from what it says of each variable in it.
LEMMA TypesNext ==
  ASSUME TypeOK, world' = world, HeldType(data)', HeldType(cData)',
         drawn' \in [Objects -> Nat], DOMAIN workload' = world.kinds,
         DOMAIN pods' = world.kinds,
         \A k \in world.kinds :
           /\ workload'[k] /= None => DOMAIN workload'[k] = Inputs(k)
           /\ pods'[k] /= NoPods => DOMAIN pods'[k].values = Reads(k),
         pend' \subseteq Objects, q' \subseteq Controllers, w' \in [Controllers -> Nat],
         \A c \in Controllers : w'[c] <= Len(Writes(c)), budget' \in 0..world.max
  PROVE  TypeOK'
<1>1. /\ Controllers' = Controllers /\ Objects' = Objects
      /\ \A k : Inputs(k)' = Inputs(k) /\ Reads(k)' = Reads(k)
  BY SameWorld
<1>2. \A k \in world.kinds :
        /\ workload'[k] /= None => DOMAIN workload'[k] = Inputs(k)'
        /\ pods'[k] /= NoPods => DOMAIN pods'[k].values = Reads(k)'
  BY <1>1
<1>3. world' \in Worlds
  BY DEF TypeOK
<1>4. \A held \in {data', cData'} :
        DOMAIN held = Objects' /\ \A o \in Objects' : held[o] \in [KeysOf(o) -> Nat]
  BY DEF HeldType
<1> QED
  BY <1>1, <1>2, <1>3, <1>4 DEF TypeOK

LEMMA BudgetType ==
  ASSUME TypeOK, NEW f, Fault(f) \/ UNCHANGED budget
  PROVE  budget' \in 0..world.max
<1>1. world.max \in Nat
  BY WiringAssumption DEF TypeOK, World
<1> QED
  BY <1>1 DEF TypeOK, Fault

LEMMA SameHeld ==
  ASSUME TypeOK, world' = world
  PROVE  (UNCHANGED data => HeldType(data)') /\ (UNCHANGED cData => HeldType(cData)')
<1>1. Objects' = Objects
  BY SameWorld
<1> QED
  BY <1>1 DEF TypeOK, HeldType

\* The workers and the queue.
LEMMA WorkerTypes ==
  ASSUME TypeOK, NEW c \in Controllers, w[c] /= 0, Advance(c) \/ Fails(c)
  PROVE  /\ q' \subseteq Controllers /\ w' \in [Controllers -> Nat]
         /\ \A d \in Controllers : w'[d] <= Len(Writes(d))
<1>1. Len(Writes(c)) \in Nat /\ w[c] \in Nat
  BY WritesType DEF TypeOK
<1>2. q' \subseteq Controllers
  BY DEF TypeOK, Advance, Fails
<1>3. PICK n \in Nat : n <= Len(Writes(c)) /\ w' = [w EXCEPT ![c] = n]
  <2>1. CASE w' = [w EXCEPT ![c] = 0]
    <3>1. 0 \in Nat /\ 0 <= Len(Writes(c))
      BY <1>1
    <3> QED
      BY <2>1, <3>1
  <2>2. CASE w[c] < Len(Writes(c)) /\ w' = [w EXCEPT ![c] = @ + 1]
    <3>1. w[c] + 1 \in Nat /\ w[c] + 1 <= Len(Writes(c))
      BY <1>1, <2>2
    <3> QED
      BY <2>2, <3>1
  <2> QED
    BY <2>1, <2>2 DEF Advance, Fails
<1> QED
  BY <1>2, <1>3 DEF TypeOK

LEMMA InitTypes == Init => TypeOK
<1> SUFFICES ASSUME Init PROVE TypeOK
  OBVIOUS
<1>1. world \in Worlds /\ world.max \in Nat /\ world.fresh \in BOOLEAN
  BY WiringAssumption DEF Init, World
<1>2. \A o \in Objects : Missing(o) \in [KeysOf(o) -> Nat] /\ AllWritten[o] \in [KeysOf(o) -> Nat]
  BY DEF Missing, AllWritten
<1>3. DOMAIN data = Objects /\ \A o \in Objects : data[o] \in [KeysOf(o) -> Nat]
  BY <1>2 DEF Init
<1>4. drawn \in [Objects -> Nat]
  BY DEF Init
<1>5. ASSUME NEW k \in world.kinds
      PROVE  /\ workload[k] /= None => DOMAIN workload[k] = Inputs(k)
             /\ pods[k] /= NoPods => DOMAIN pods[k].values = Reads(k)
  <2>1. workload[k] \in {None, HashOf(k, data)} /\ DOMAIN HashOf(k, data) = Inputs(k)
    BY DEF Init, HashOf
  <2>2. pods[k] = NoPods \/ pods[k].values = ValuesFor(k)
    BY DEF Init
  <2>3. DOMAIN ValuesFor(k) = Reads(k)
    BY DEF ValuesFor
  <2> QED
    BY <2>1, <2>2, <2>3
<1>6. w \in [Controllers -> Nat] /\ \A c \in Controllers : w[c] <= Len(Writes(c))
  BY <1>1, WritesType DEF Init
<1>7. cData = data
  BY DEF Init
<1>8. DOMAIN workload = world.kinds /\ DOMAIN pods = world.kinds
  BY DEF Init
<1>9. pend \subseteq Objects /\ q \subseteq Controllers
  BY DEF Init
<1>10. budget \in 0..world.max
  BY <1>1 DEF Init
<1>11. \A held \in {data, cData} :
         DOMAIN held = Objects /\ \A o \in Objects : held[o] \in [KeysOf(o) -> Nat]
  BY <1>3, <1>7
<1> QED
  BY <1>1, <1>4, <1>5, <1>6, <1>8, <1>9, <1>10, <1>11 DEF TypeOK

LEMMA EnvironmentTypes ==
  ASSUME TypeOK, Environment
  PROVE  TypeOK'
<1>1. world' = world
  BY DEF Environment, Rotate, RemoveKey, DeleteObject, LosePods, RestartOperator
<1>2. budget' \in 0..world.max
  BY BudgetType DEF Environment, Rotate, RemoveKey, DeleteObject, LosePods,
       RestartOperator
<1>3. Objects' = Objects
  BY <1>1, SameWorld
<1>4. CASE Rotate
  <2>1. drawn[PasswordSecret] + 1 \in Nat
    BY PasswordType DEF TypeOK
  <2>2. [password |-> drawn[PasswordSecret] + 1] \in [KeysOf(PasswordSecret) -> Nat]
    BY <2>1, PasswordType
  <2>3. HeldType(data)' /\ pend' \subseteq Objects
    BY <1>1, <1>3, <1>4, <2>2, PasswordType, WrittenType DEF Rotate
  <2>4. drawn' \in [Objects -> Nat]
    BY <1>4, <2>1 DEF Rotate, TypeOK
  <2>5. HeldType(cData)'
    BY <1>1, <1>4, SameHeld DEF Rotate
  <2> QED
    BY <1>1, <1>2, <1>4, <2>3, <2>4, <2>5, TypesNext DEF Rotate, TypeOK
<1>5. ASSUME NEW o \in Objects, RemoveKey(o) \/ DeleteObject(o)
      PROVE  TypeOK'
  <2>1. PICK new \in [KeysOf(o) -> Nat] : Written(o, new)
    <3>1. data[o] \in [KeysOf(o) -> Nat]
      BY DEF TypeOK
    <3>2. CASE RemoveKey(o)
      <4>1. PICK key \in KeysOf(o) : Written(o, [data[o] EXCEPT ![key] = 0])
        BY <3>2 DEF RemoveKey
      <4>2. [data[o] EXCEPT ![key] = 0] \in [KeysOf(o) -> Nat]
        BY <3>1
      <4> QED
        BY <4>1, <4>2
    <3>3. CASE DeleteObject(o)
      <4>1. Missing(o) \in [KeysOf(o) -> Nat]
        BY DEF Missing
      <4> QED
        BY <3>3, <4>1 DEF DeleteObject
    <3> QED
      BY <1>5, <3>2, <3>3
  <2>2. HeldType(data)' /\ pend' \subseteq Objects
    BY <1>1, <1>3, <2>1, WrittenType
  <2>3. UNCHANGED <<workload, pods, drawn, cData, q, w>>
    BY <1>5 DEF RemoveKey, DeleteObject
  <2>4. HeldType(cData)'
    BY <1>1, <2>3, SameHeld
  <2> QED
    BY <1>1, <1>2, <2>2, <2>3, <2>4, TypesNext DEF TypeOK
<1>6. ASSUME NEW k \in world.kinds, LosePods(k)
      PROVE  TypeOK'
  <2>1. UNCHANGED <<data, workload, drawn, cData, pend, q, w>>
    BY <1>6 DEF LosePods
  <2>2. HeldType(data)' /\ HeldType(cData)'
    BY <1>1, <2>1, SameHeld
  <2>3. /\ DOMAIN pods' = world.kinds
        /\ \A j \in world.kinds : pods'[j] /= NoPods => DOMAIN pods'[j].values = Reads(j)
    BY <1>6 DEF LosePods, TypeOK
  <2> QED
    BY <1>1, <1>2, <2>1, <2>2, <2>3, TypesNext DEF TypeOK
<1>7. CASE RestartOperator
  <2>1. UNCHANGED <<data, workload, pods, drawn>> /\ cData' = data
    BY <1>7 DEF RestartOperator
  <2>2. HeldType(data)' /\ HeldType(cData)'
    BY <1>1, <1>3, <2>1, SameHeld DEF TypeOK, HeldType
  <2>3. /\ pend' \subseteq Objects /\ q' \subseteq Controllers /\ w' \in [Controllers -> Nat]
        /\ \A c \in Controllers : w'[c] <= Len(Writes(c))
    BY <1>7, WritesType DEF RestartOperator, TypeOK
  <2> QED
    BY <1>1, <1>2, <2>1, <2>2, <2>3, TypesNext DEF TypeOK
<1> QED
  BY <1>4, <1>5, <1>6, <1>7 DEF Environment

LEMMA ControllerTypes ==
  ASSUME TypeOK, NEW c \in Controllers, Controller(c)
  PROVE  TypeOK'
<1>1. CASE Start(c)
  <2>1. /\ world' = world /\ UNCHANGED <<data, workload, pods, drawn, cData, pend, budget>>
    BY <1>1 DEF Start
  <2>2. HeldType(data)' /\ HeldType(cData)'
    BY <2>1, SameHeld
  <2>3. /\ q' \subseteq Controllers /\ w' \in [Controllers -> Nat]
        /\ \A d \in Controllers : w'[d] <= Len(Writes(d))
    BY <1>1, WritesType DEF Start, TypeOK
  <2> QED
    BY <2>1, <2>2, <2>3, TypesNext DEF TypeOK
<1>2. CASE EnsureObject(c)
  <2> DEFINE o == Object(c)
  <2>1. world' = world /\ UNCHANGED <<workload, pods, cData>> /\ w[c] /= 0
        /\ o[2] /= "Workload"
    BY <1>2 DEF EnsureObject
  <2>2. o \in Objects /\ Objects' = Objects
    BY <2>1, ObjectType, SameWorld
  <2>3. Mutated(o, cData) \in [KeysOf(o) -> Nat]
    BY <2>2, MutatedType
  <2>4. \/ UNCHANGED <<data, pend, drawn>>
        \/ Written(o, Mutated(o, cData)) /\ drawn' = [drawn EXCEPT ![o] = @ + 1]
    BY <1>2 DEF EnsureObject
  <2>5. Advance(c) \/ Fails(c)
    BY <1>2 DEF EnsureObject
  <2>6. budget' \in 0..world.max
    BY <1>2, BudgetType DEF EnsureObject
  <2> HIDE DEF o
  <2>7. HeldType(data)' /\ pend' \subseteq Objects /\ drawn' \in [Objects -> Nat]
    <3>1. CASE UNCHANGED <<data, pend, drawn>>
      BY <2>1, <3>1, SameHeld DEF TypeOK
    <3>2. CASE Written(o, Mutated(o, cData)) /\ drawn' = [drawn EXCEPT ![o] = @ + 1]
      <4>1. drawn' \in [Objects -> Nat]
        BY <2>2, <3>2 DEF TypeOK
      <4> QED
        BY <2>1, <2>2, <2>3, <3>2, <4>1, WrittenType
    <3> QED
      BY <2>4, <3>1, <3>2
  <2>8. HeldType(cData)'
    BY <2>1, SameHeld
  <2> QED
    BY <2>1, <2>5, <2>6, <2>7, <2>8, WorkerTypes, TypesNext DEF TypeOK
<1>3. CASE c \in world.kinds /\ EnsureWorkload(c)
  <2>1. /\ world' = world /\ UNCHANGED <<data, pods, drawn, cData, pend>> /\ w[c] /= 0
        /\ (UNCHANGED workload \/ workload' = [workload EXCEPT ![c] = HashOf(c, cData)])
        /\ (Advance(c) \/ Fails(c))
    BY <1>3 DEF EnsureWorkload
  <2>2. budget' \in 0..world.max
    BY <1>3, BudgetType DEF EnsureWorkload
  <2>3. /\ DOMAIN workload' = world.kinds
        /\ \A k \in world.kinds : workload'[k] /= None => DOMAIN workload'[k] = Inputs(k)
    <3>1. DOMAIN HashOf(c, cData) = Inputs(c)
      BY DEF HashOf
    <3> QED
      BY <1>3, <2>1, <3>1 DEF TypeOK
  <2>4. HeldType(data)' /\ HeldType(cData)'
    BY <2>1, SameHeld
  <2> QED
    BY <2>1, <2>2, <2>3, <2>4, WorkerTypes, TypesNext DEF TypeOK
<1> QED
  BY <1>1, <1>2, <1>3 DEF Controller

LEMMA ClusterTypes ==
  ASSUME TypeOK,
         \/ \E o \in Objects : Deliver(o)
         \/ \E k \in world.kinds : Rollout(k)
  PROVE  TypeOK'
<1>1. ASSUME NEW o \in Objects, Deliver(o)
      PROVE  TypeOK'
  <2>1. world' = world /\ UNCHANGED <<data, workload, pods, drawn, w, budget>>
    BY <1>1 DEF Deliver
  <2>2. o[1] \in Controllers
    BY DEF Objects
  <2>3. q' \subseteq Controllers /\ pend' \subseteq Objects
    BY <1>1, <2>2 DEF Deliver, WokenBy, Controllers, TypeOK
  <2>4. Objects' = Objects
    BY <2>1, SameWorld
  <2>5. HeldType(cData)'
    BY <1>1, <2>4 DEF Deliver, HeldType, TypeOK
  <2>6. HeldType(data)'
    BY <2>1, SameHeld
  <2> QED
    BY <2>1, <2>3, <2>5, <2>6, TypesNext DEF TypeOK
<1>2. ASSUME NEW k \in world.kinds, Rollout(k)
      PROVE  TypeOK'
  <2>1. world' = world /\ UNCHANGED <<data, workload, drawn, cData, pend, q, w, budget>>
    BY <1>2 DEF Rollout
  <2>2. HeldType(data)' /\ HeldType(cData)'
    BY <2>1, SameHeld
  <2>3. /\ DOMAIN pods' = world.kinds
        /\ \A j \in world.kinds : pods'[j] /= NoPods => DOMAIN pods'[j].values = Reads(j)
    <3>1. DOMAIN ValuesFor(k) = Reads(k)
      BY DEF ValuesFor
    <3> QED
      BY <1>2, <3>1 DEF Rollout, TypeOK
  <2> QED
    BY <2>1, <2>2, <2>3, TypesNext DEF TypeOK
<1> QED
  BY <1>1, <1>2

LEMMA NextTypes == TypeOK /\ [Next]_vars => TypeOK'
<1> SUFFICES ASSUME TypeOK, [Next]_vars PROVE TypeOK'
  OBVIOUS
<1>1. CASE UNCHANGED vars
  <2>1. /\ world' = world
        /\ UNCHANGED <<data, workload, pods, drawn, cData, pend, q, w, budget>>
    BY <1>1 DEF vars
  <2>2. HeldType(data)' /\ HeldType(cData)'
    BY <2>1, SameHeld
  <2> QED
    BY <2>1, <2>2, TypesNext DEF TypeOK
<1>2. CASE Next
  BY <1>2, ControllerTypes, ClusterTypes, EnvironmentTypes DEF Next
<1> QED
  BY <1>1, <1>2

\* Every reachable state is well typed: each object holds the keys it is meant to
\* and each workload the hashes of the inputs that the Pods read.
THEOREM TypeCorrect == Spec => []TypeOK
BY InitTypes, NextTypes, PTL DEF Spec

\* Whatever its components are called, each Project that has what they require is
\* wired correctly: every call of a Pod reaches the Pods meant, and no others.
THEOREM CallsAlwaysReach == Spec => []CallsReach
<1>1. TypeOK => CallsReach
  BY AllCallsReach DEF TypeOK
<1> QED
  BY <1>1, TypeCorrect, PTL
=============================================================================
