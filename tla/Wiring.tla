------------------------------- MODULE Wiring -------------------------------
(***************************************************************************)
(* One Project whose components run: how the credentials travel.  Three    *)
(* kinds of controller write Secrets.  That of the SingleDatabase writes   *)
(* the password, that of the Project the JWT and the key Secret, those of  *)
(* Storage, Envoy, Supavisor and Analytics one of their own, which for the *)
(* last two holds a connection string made of the password.  The Pods of   *)
(* each component read some keys of several of them, once, as they start.  *)
(*                                                                         *)
(* A reconciliation is the list of its writes, in order, each an action;   *)
(* a failed one ends it and has it run again.  The components stay, and    *)
(* the Project and the database are ready: modules Component, Project and  *)
(* SingleDatabase are about what happens when not.  A Workload is written  *)
(* by its own controller only, which sees it as it is.                     *)
(***************************************************************************)
EXTENDS Naturals, FiniteSets, Generated

CONSTANT Worlds \* the Projects to check, one of which a behaviour is about

Faults == {"rotate", "key", "object", "pods", "restart", "api"}

\* kinds: the components of the Project; fresh: nothing has been written yet;
\* max: bound on the faults, of whatever kind.
World == [kinds : SUBSET Kinds, fresh : BOOLEAN, faults : SUBSET Faults, max : Nat]

ASSUME WiringAssumption ==
  /\ Worlds \subseteq World
  /\ \A wd \in Worlds : \A k \in wd.kinds : Kind[k].requires \subseteq wd.kinds

VARIABLES
  world,
  data,     \* the API server: the value of each key of each object, 0 if missing
  workload, \* the API server: the inputs of which the Workload carries the hash
  pods,     \* the Pods of a component: the inputs of their template, what they read
  drawn,    \* how many values were drawn for an object; each is new
  cData,    \* the informer caches
  pend,     \* the objects of which a watch event is on its way
  q,        \* the controllers whose object is in the work queue
  w,        \* the controllers' position in their list of writes, 0 when idle
  budget    \* how many faults may still happen

vars == <<world, data, workload, pods, drawn, cData, pend, q, w, budget>>

Controllers == {"SingleDatabase", "Project"} \cup world.kinds

\* What the reconciliation of a controller writes.
Writes(c) ==
  CASE c = "SingleDatabase" -> <<"Secret">>
    [] c = "Project"        -> <<"JWTSecret", "KeysSecret">>
    [] OTHER                -> Kind[c].children

\* An object has no key when it does not exist.
Objects ==
  {o \in UNION {{c} \X {Writes(c)[i] : i \in DOMAIN Writes(c)} : c \in Controllers} :
     o[2] /= "Workload"}

Secrets == {o \in Objects : o[2] \in {"Secret", "JWTSecret", "KeysSecret"}}

\* The optional dependencies that the reconciliation of k finds.
FoundBy(k) == Kind[k].optional \cap world.kinds
Reads(k)   == Pod(k, FoundBy(k)).reads
Inputs(k)  == {read[1] : read \in Reads(k)}

Missing(o)      == [key \in KeysOf(o) |-> 0]
Exists(o, held) == held[o] /= Missing(o)

\* The data as it stands after everything has been written once.
AllWritten == [o \in Objects |-> [key \in KeysOf(o) |-> 1]]

\* No Workload, no Pods.
None   == [o \in {} |-> 0]
NoPods == [of |-> None, values |-> None]

HashOf(k, held) == [o \in Inputs(k) |-> held[o]]
ValuesFor(k)    == [read \in Reads(k) |-> data[read[1]][read[2]]]

TypeOK ==
  /\ world \in Worlds
  /\ \A held \in {data, cData} :
       DOMAIN held = Objects /\ \A o \in Objects : held[o] \in [KeysOf(o) -> Nat]
  /\ drawn \in [Objects -> Nat]
  /\ DOMAIN workload = world.kinds /\ DOMAIN pods = world.kinds
  /\ \A k \in world.kinds :
       /\ workload[k] /= None => DOMAIN workload[k] = Inputs(k)
       /\ pods[k] /= NoPods => DOMAIN pods[k].values = Reads(k)
  /\ pend \subseteq Objects
  /\ q \subseteq Controllers
  /\ w \in [Controllers -> Nat] /\ \A c \in Controllers : w[c] <= Len(Writes(c))
  /\ budget \in 0..world.max

Init ==
  /\ world \in Worlds
  /\ data = [o \in Objects |-> IF world.fresh THEN Missing(o) ELSE AllWritten[o]]
  /\ workload = [k \in world.kinds |-> IF world.fresh THEN None ELSE HashOf(k, data)]
  /\ pods = [k \in world.kinds |->
               IF world.fresh THEN NoPods ELSE [of |-> workload[k], values |-> ValuesFor(k)]]
  /\ drawn = [o \in Objects |-> IF world.fresh THEN 0 ELSE 1]
  /\ cData = data
  /\ pend = {}
  /\ q = IF world.fresh THEN Controllers ELSE {}
  /\ w = [c \in Controllers |-> 0]
  /\ budget = world.max

Fault(f) == f \in world.faults /\ budget > 0 /\ budget' = budget - 1

\* Somebody wrote an object; its watch event is on its way.
Written(o, contents) ==
  /\ data' = [data EXCEPT ![o] = contents]
  /\ pend' = pend \cup {o}

-----------------------------------------------------------------------------
(***************************************************************************)
(* The user and the cluster.                                               *)
(***************************************************************************)

\* The user sets a new password; a former one is never set again.
Rotate ==
  /\ Exists(PasswordSecret, data) /\ Fault("rotate")
  /\ Written(PasswordSecret, [password |-> drawn[PasswordSecret] + 1])
  /\ drawn' = [drawn EXCEPT ![PasswordSecret] = @ + 1]
  /\ UNCHANGED <<world, workload, pods, cData, q, w>>

\* Somebody removes a key of a Secret, not the last.
RemoveKey(o) ==
  /\ Fault("key")
  /\ \E key, other \in KeysOf(o) :
       /\ key /= other /\ data[o][key] /= 0 /\ data[o][other] /= 0
       /\ Written(o, [data[o] EXCEPT ![key] = 0])
  /\ UNCHANGED <<world, workload, pods, drawn, cData, q, w>>

\* Somebody deletes a Secret, a ConfigMap or a Service.
DeleteObject(o) ==
  /\ Exists(o, data) /\ o[2] /= "Claim" /\ Fault("object")
  /\ Written(o, Missing(o))
  /\ UNCHANGED <<world, workload, pods, drawn, cData, q, w>>

\* The Pods are lost; the cluster will start others of the same template.
LosePods(k) ==
  /\ pods[k] /= NoPods /\ Fault("pods")
  /\ pods' = [pods EXCEPT ![k] = NoPods]
  /\ UNCHANGED <<world, data, workload, drawn, cData, pend, q, w>>

\* Those that a watch event of an object enqueues: its owner; for a Secret or a
\* ConfigMap, every component of the namespace; for a Secret, the Project.
WokenBy(o) ==
  {o[1]}
    \cup (IF o[2] \in {"Service", "Claim"} THEN {} ELSE world.kinds)
    \cup (IF o[2] \in {"Service", "Claim", "ConfigMap"} THEN {} ELSE {"Project"})

Deliver(o) ==
  /\ o \in pend
  /\ pend' = pend \ {o}
  /\ cData' = [cData EXCEPT ![o] = data[o]]
  /\ q' = q \cup WokenBy(o)
  /\ UNCHANGED <<world, data, workload, pods, drawn, w, budget>>

RestartOperator ==
  /\ Fault("restart")
  /\ cData' = data /\ pend' = {}
  /\ q' = Controllers
  /\ w' = [c \in Controllers |-> 0]
  /\ UNCHANGED <<world, data, workload, pods, drawn>>

-----------------------------------------------------------------------------
(***************************************************************************)
(* The controllers.                                                        *)
(***************************************************************************)

Object(c) == <<c, Writes(c)[w[c]]>>

RolledOut(k) == pods[k] /= NoPods /\ workload[k] /= None /\ pods[k].of = workload[k]

\* A component whose Workload is not ready is reconciled again after a while.
Requeues(c) == c \in world.kinds /\ ~RolledOut(c)

\* Faulty variant: one write too many.
AdvancePast(c) ==
  IF w[c] <= Len(Writes(c))
  THEN w' = [w EXCEPT ![c] = @ + 1] /\ UNCHANGED q
  ELSE w' = [w EXCEPT ![c] = 0] /\ UNCHANGED q

\* On to the next write, or the end.
Advance(c) ==
  IF w[c] < Len(Writes(c))
  THEN w' = [w EXCEPT ![c] = @ + 1] /\ UNCHANGED q
  ELSE /\ w' = [w EXCEPT ![c] = 0]
       /\ q' = IF Requeues(c) THEN q \cup {c} ELSE q

Fails(c) ==
  /\ w' = [w EXCEPT ![c] = 0]
  /\ q' = q \cup {c}

Start(c) ==
  /\ c \in q /\ w[c] = 0
  /\ q' = q \ {c}
  /\ w' = [w EXCEPT ![c] = 1]
  /\ UNCHANGED <<world, data, workload, pods, drawn, cData, pend, budget>>

CachedPassword == cData[PasswordSecret]["password"]

\* What a builder puts into a Secret: fresh values, but for the name of the gateway's
\* user, which is always the same.
Fresh(o, held) == [key \in KeysOf(o) |-> IF key = "username" THEN 1 ELSE drawn[o] + 1]

\* MutateSecret: the keys that are there are kept.
Kept(o, held) ==
  [key \in KeysOf(o) |-> IF held[o][key] /= 0 THEN held[o][key] ELSE Fresh(o, held)[key]]

\* Faulty variant: an existing connection string is kept.
KeptSupavisor(held) ==
  [key \in SupavisorSecretKeys |->
     IF held[SecretOf("Supavisor")][key] /= 0 THEN held[SecretOf("Supavisor")][key]
     ELSE CachedPassword]

\* The connection string always replaces the previous one.
MutatedSupavisor(held) == [key \in SupavisorSecretKeys |-> CachedPassword]

MutatedAnalytics(held) == [Kept(SecretOf("Analytics"), held) EXCEPT !.url = CachedPassword]

\* What an object is to become, of which held is the data; a ConfigMap, Service or
\* claim has one possible content.
Mutated(o, held) ==
  CASE o = SecretOf("Supavisor") -> MutatedSupavisor(held)
    [] o = SecretOf("Analytics") -> MutatedAnalytics(held)
    [] o[2] \in {"ConfigMap", "Service", "Claim"} -> [contents |-> 1]
    [] OTHER -> Kept(o, held)

\* The gateway reads its Secret and its ConfigMap again once they are ensured.
ReadsBack(o) == o[1] = "Envoy" /\ o[2] \in {"Secret", "ConfigMap"}

\* EnsureResource of an object that was read from the cache: it is written unless
\* nothing is to change, and the write is refused if it was made of old data.
EnsureObject(c) ==
  LET o   == Object(c)
      new == Mutated(o, cData)
  IN  /\ w[c] /= 0 /\ o[2] /= "Workload"
      /\ \/ Fault("api") /\ Fails(c) /\ UNCHANGED <<data, pend, drawn>>
         \/ /\ UNCHANGED budget
            /\ IF \/ Derived(o) /= {} /\ CachedPassword = 0
                  \/ new /= cData[o] /\ data[o] /= cData[o]
               THEN Fails(c) /\ UNCHANGED <<data, pend, drawn>>
               ELSE /\ IF new = cData[o] THEN UNCHANGED <<data, pend, drawn>>
                       ELSE /\ Written(o, new)
                            /\ drawn' = [drawn EXCEPT ![o] = @ + 1]
                    /\ IF ReadsBack(o) /\ ~Exists(o, cData) THEN Fails(c) ELSE Advance(c)
      /\ UNCHANGED <<world, workload, pods, cData>>

\* StampInputs and EnsureResource of the Workload: its template carries a hash of the
\* data of every Secret and ConfigMap it names, all of which must exist.
EnsureWorkload(k) ==
  /\ w[k] /= 0 /\ Writes(k)[w[k]] = "Workload"
  /\ \/ Fault("api") /\ Fails(k) /\ UNCHANGED workload
     \/ /\ UNCHANGED budget
        /\ IF \E o \in Inputs(k) : ~Exists(o, cData)
           THEN Fails(k) /\ UNCHANGED workload
           ELSE workload' = [workload EXCEPT ![k] = HashOf(k, cData)] /\ Advance(k)
  /\ UNCHANGED <<world, data, pods, drawn, cData, pend>>

-----------------------------------------------------------------------------
\* Pods of the current template replace the others.  They start only when every key
\* they refer to is there, and read it then.
Rollout(k) ==
  /\ workload[k] /= None /\ ~RolledOut(k)
  /\ \A read \in Reads(k) : data[read[1]][read[2]] /= 0
  /\ pods' = [pods EXCEPT ![k] = [of |-> workload[k], values |-> ValuesFor(k)]]
  /\ UNCHANGED <<world, data, workload, drawn, cData, pend, q, w, budget>>

Controller(c) ==
  \/ Start(c)
  \/ EnsureObject(c)
  \/ c \in world.kinds /\ EnsureWorkload(c)

Environment ==
  \/ Rotate
  \/ \E o \in Objects : RemoveKey(o) \/ DeleteObject(o)
  \/ \E k \in world.kinds : LosePods(k)
  \/ RestartOperator

Next ==
  \/ \E c \in Controllers : Controller(c)
  \/ \E o \in Objects : Deliver(o)
  \/ \E k \in world.kinds : Rollout(k)
  \/ Environment

Spec == Init /\ [][Next]_vars

\* Each controller has a worker of its own; watches and the cluster go on.
Fairness ==
  /\ \A c \in {"SingleDatabase", "Project"} \cup Kinds :
       WF_vars(c \in Controllers /\ Controller(c))
  /\ WF_vars(\E o \in Objects : Deliver(o))
  /\ WF_vars(\E k \in world.kinds : Rollout(k))

FairSpec == Spec /\ Fairness

-----------------------------------------------------------------------------
(***************************************************************************)
(* Properties.                                                             *)
(***************************************************************************)

\* The resources that different packages generate fit together: every call of a
\* running Pod goes to a Service whose selector selects the Pods of the component
\* that is meant and of no other, and from there to a port they listen on; and the
\* labels by which Vector looks for Pods are those of the running ones.
CallsReach ==
  LET Members == world.kinds \cup {"SingleDatabase"}
                   \cup (IF "Analytics" \in world.kinds THEN {"Vector"} ELSE {})
      Found(k) == IF k \in world.kinds THEN FoundBy(k) ELSE {}
      Reaches(call) ==
        /\ \A k \in Members : Selects(Service(call[1]).selector, k, Found(k)) <=> k = call[1]
        /\ \E target \in Service(call[1]).targets :
             target[1] = call[2] /\ target[2] \in Pod(call[1], {}).ports
  IN  \A k \in Members : (k \in world.kinds => pods[k] /= NoPods) =>
        /\ \A call \in Pod(k, Found(k)).calls : Reaches(call)
        /\ \A target \in Targets(world.kinds) :
             Selects(TargetLabels(target), k, Found(k)) <=> k = target

\* Once given out, a token, an API key or an encryption key changes only by the
\* hand of a user: no reconciliation, of whatever a cache shows, draws another.
TokensStay ==
  [][budget' = budget =>
       \A o \in Secrets : \A key \in KeysOf(o) \ Derived(o) :
         data[o][key] /= 0 => data'[o][key] = data[o][key]]_vars

Coherent(k) ==
  /\ pods[k] /= NoPods /\ pods[k].values = ValuesFor(k)
  /\ \A o \in Objects : o[1] = k => Exists(o, data)
  /\ \A key \in Derived(SecretOf(k)) :
       data[SecretOf(k)][key] = data[PasswordSecret]["password"]

\* Whatever was rotated, removed, deleted or failed, and in whatever order the
\* events of it arrived, in the end all Pods of the Project run, each with the
\* present value of every key it reads, and the connection strings hold the
\* present password: no component waits for another for ever.
EventuallyCoherent == <>[] \A k \in world.kinds : Coherent(k)
=============================================================================
