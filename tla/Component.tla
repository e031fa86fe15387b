------------------------------ MODULE Component -----------------------------
(***************************************************************************)
(* The component controllers, which share one framework: a component is    *)
(* refused while its Project has another of its kind, waits for the        *)
(* components it requires and for its Project, writes its children, and    *)
(* stamps the Pod template with a hash of every Secret and ConfigMap the   *)
(* Pod refers to, so that a change of one replaces the Pods.               *)
(*                                                                         *)
(* There is one controller, with one worker, for each kind; all of them    *)
(* share the informer caches.  A call of Reconcile that writes to the API  *)
(* server is an action, and so is a run of reads between two of them.      *)
(* Vector is a component too; what sets it apart is in module Vector.      *)
(***************************************************************************)
EXTENDS Naturals, FiniteSets, Kinds, Ensure

CONSTANTS
  Objs,       \* names of components
  KindOf,     \* KindOf[o]: the kind of component o
  ProjectOf,  \* ProjectOf[o]: spec.projectRef of o, which is immutable
  DatabaseOf, \* DatabaseOf[p]: spec.databaseRef of Project p
  Worlds,     \* bound: the scenarios: which components exist at first, which ones
              \* the user creates and deletes, the kinds of edit and disturbance
              \* that may happen, and how many of them
  MaxInc,     \* bound: incarnations of a component, 1..MaxInc
  MaxStale    \* bound: caches that are behind when a reconciliation starts

Controllers == {KindOf[o] : o \in Objs}

Projects == {ProjectOf[o] : o \in Objs}

Faults == {"create", "delete", "project", "ready", "secret", "restart", "api"}

World == [first : SUBSET Objs, objs : SUBSET Objs, faults : SUBSET Faults, max : Nat]

ASSUME ComponentAssumption ==
  /\ IsFiniteSet(Objs) /\ KindOf \in [Objs -> Kinds]
  /\ Projects \subseteq DOMAIN DatabaseOf
  /\ \A x \in Worlds : x \in World
  /\ MaxInc \in Nat \ {0} /\ MaxStale \in Nat

VARIABLES
  world,    \* the scenario; never changes
  \* the API server
  obj,      \* obj[o]: the component resource
  proj,     \* proj[p]: the Project, and whether it and its database are Ready
  secret,   \* the version of the Secrets that the Pods refer to
  config,   \* config[o]: the ConfigMap of an Envoy: its owner and content
  workload, \* workload[o]: the Deployment or StatefulSet
  \* the informer caches, and the events on their way to them
  cObj, cProj, cSecret, cConfig, cWorkload, pend,
  \* the controllers
  q,        \* the components in the work queues
  w,        \* w[k]: the reconciliation in progress of kind k
  \* the kubelets
  pods,     \* pods[o]: what the Pods of the present template were started with
  \* history and environment
  reverted, \* Envoys whose ConfigMap has left the content that their template is
            \* stamped with, and returned to it
  budget    \* how many faults may still happen

api    == <<obj, proj, secret, config, workload>>
caches == <<cObj, cProj, cSecret, cConfig, cWorkload>>
vars   == <<world, api, caches, pend, q, w, pods, reverted, budget>>

-----------------------------------------------------------------------------
Requires(k) == Kind[k].requires
Optional(k) == Kind[k].optional

\* Faulty variant: Envoy does not watch the components it routes to.
RelatedButEnvoys(k) == IF k = "Envoy" THEN {} ELSE Kind[k].related

\* Kinds whose events enqueue the components of k, in the same Project or in any.
Related(k) == Kind[k].related
NamespaceRelated(k) == Kind[k].namespace

\* The components found reach the Pods of an Envoy in a ConfigMap, those of the
\* others in the environment of the template.
HasConfig(k) == k = "Envoy"

-----------------------------------------------------------------------------
Reasons == {"None", "Ready", "ConflictingComponents", "ConflictingDatabase", "Waiting"}

Object  == [phase : {"absent", "live", "deleting"}, inc : 0..MaxInc, cond : Reasons]
Project == [phase : {"absent", "live", "deleting"}, ready : BOOLEAN]
Refs    == SUBSET Objs

\* owner: the incarnation of the component that controls the child, Absent if
\* there is no child.
Config   == [owner : 0..MaxInc, refs : Refs]
NoConfig == [owner |-> Absent, refs |-> {}]

\* env: the components named in the environment; config: the content that the
\* hash of the ConfigMap is of; secret: the version that of the Secrets is of.
Template   == [env : Refs, config : Refs, secret : Nat]
NoTemplate == [env |-> {}, config |-> {}, secret |-> 0]

\* rolled: the status says that the rollout of the present generation is done.
Workload   == [owner : 0..MaxInc, tmpl : Template, rolled : BOOLEAN]
NoWorkload == [owner |-> Absent, tmpl |-> NoTemplate, rolled |-> FALSE]

Pods   == [refs : Refs, secret : Nat]
NoPods == [refs |-> {}, secret |-> 0]

\* refs: the components Reconcile has found; cond: the reason it will publish.
Worker == [pc : {"idle", "drop", "children", "workload", "judge", "status"},
           o : Objs, inc : 0..MaxInc, refs : Refs, cond : Reasons]

Events == {<<"obj", k>> : k \in Controllers} \cup {<<"project">>, <<"secret">>}
          \cup {<<e, o>> : e \in {"config", "workload"}, o \in Objs}

TypeOK ==
  /\ world \in Worlds
  /\ obj \in [Objs -> Object] /\ cObj \in [Objs -> Object]
  /\ proj \in [Projects -> Project] /\ cProj \in [Projects -> Project]
  /\ secret \in Nat /\ cSecret \in Nat
  /\ config \in [Objs -> Config] /\ cConfig \in [Objs -> Config]
  /\ workload \in [Objs -> Workload] /\ cWorkload \in [Objs -> Workload]
  /\ pend \subseteq Events
  /\ q \subseteq Objs
  /\ w \in [Controllers -> Worker]
  /\ pods \in [Objs -> Pods]
  /\ reverted \subseteq Objs
  /\ budget \in Nat

Idle(o) == [pc |-> "idle", o |-> o, inc |-> 0, refs |-> {}, cond |-> "None"]

\* The operator has listed the components that were created before it.
Init ==
  /\ world \in Worlds
  /\ obj = [o \in Objs |->
              IF o \in world.first THEN [phase |-> "live", inc |-> 1, cond |-> "None"]
              ELSE [phase |-> "absent", inc |-> 0, cond |-> "None"]]
  /\ q = world.first
  /\ proj = [p \in Projects |-> [phase |-> "live", ready |-> TRUE]]
  /\ secret = 1
  /\ config = [o \in Objs |-> NoConfig]
  /\ workload = [o \in Objs |-> NoWorkload]
  /\ cObj = obj /\ cProj = proj /\ cSecret = secret
  /\ cConfig = config /\ cWorkload = workload
  /\ pend = {}
  /\ w = [k \in Controllers |-> Idle(CHOOSE o \in Objs : KindOf[o] = k)]
  /\ pods = [o \in Objs |-> NoPods]
  /\ reverted = {}
  /\ budget = world.max

Fault(f) == f \in world.faults /\ budget > 0 /\ budget' = budget - 1

\* The API server changed an object; its watch event is on its way.
Changed(e) == pend' = pend \cup {e}
ObjChanged(o) == Changed(<<"obj", KindOf[o]>>)

-----------------------------------------------------------------------------
(***************************************************************************)
(* The user.                                                               *)
(***************************************************************************)

Create(o) ==
  /\ o \in world.objs /\ obj[o].phase = "absent" /\ obj[o].inc < MaxInc
  /\ Fault("create")
  /\ obj' = [obj EXCEPT ![o] = [phase |-> "live", inc |-> @.inc + 1, cond |-> "None"]]
  /\ ObjChanged(o)
  /\ UNCHANGED <<world, proj, secret, config, workload, caches, q, w, pods, reverted>>

\* With the children removed after it (background), or before (foreground).
Delete(o) ==
  /\ o \in world.objs /\ obj[o].phase = "live" /\ Fault("delete")
  /\ \E phase \in {"deleting", "absent"} : obj' = [obj EXCEPT ![o].phase = phase]
  /\ ObjChanged(o)
  /\ UNCHANGED <<world, proj, secret, config, workload, caches, q, w, pods, reverted>>

\* The Project is deleted, at once or in two steps, or created again.
ChangeProject(p) ==
  /\ \E o \in world.first \cup world.objs : ProjectOf[o] = p
  /\ Fault("project")
  /\ \E phase \in {"absent", "deleting", "live"} \ {proj[p].phase} :
       /\ phase = "deleting" => proj[p].phase = "live"
       /\ phase = "live" => proj[p].phase = "absent"
       /\ proj' = [proj EXCEPT ![p] = [phase |-> phase, ready |-> @.ready /\ phase /= "live"]]
  /\ Changed(<<"project">>)
  /\ UNCHANGED <<world, obj, secret, config, workload, caches, q, w, pods, reverted>>

EditSecret ==
  /\ Fault("secret")
  /\ secret' = secret + 1
  /\ Changed(<<"secret">>)
  /\ UNCHANGED <<world, obj, proj, config, workload, caches, q, w, pods, reverted>>

-----------------------------------------------------------------------------
(***************************************************************************)
(* Informers.  The lists that enqueueForProject enqueues from are cached   *)
(* ones; events of the same resource arrive in order.                      *)
(***************************************************************************)

\* The components that event e enqueues.
Woken(e) ==
  {o \in Objs :
     LET k == KindOf[o]
     IN  CASE e[1] = "obj" ->
                \/ k = e[2] /\ cObj[o] /= obj[o]
                \/ /\ cObj[o].phase /= "absent"
                   /\ \E d \in Objs :
                        /\ KindOf[d] = e[2] /\ cObj[d] /= obj[d]
                        /\ \/ e[2] \in Related(k) /\ ProjectOf[d] = ProjectOf[o]
                           \/ e[2] \in NamespaceRelated(k)
           [] e[1] = "project" ->
                cObj[o].phase /= "absent" /\ cProj[ProjectOf[o]] /= proj[ProjectOf[o]]
           [] e[1] = "secret" -> cObj[o].phase /= "absent"
           [] OTHER -> o = e[2] \/ (e[1] = "config" /\ cObj[o].phase /= "absent")}

Deliver(e) ==
  /\ e \in pend
  /\ pend' = pend \ {e}
  /\ q' = q \cup Woken(e)
  /\ cObj' = [o \in Objs |-> IF e = <<"obj", KindOf[o]>> THEN obj[o] ELSE cObj[o]]
  /\ cProj' = IF e = <<"project">> THEN proj ELSE cProj
  /\ cSecret' = IF e = <<"secret">> THEN secret ELSE cSecret
  /\ cConfig' = [o \in Objs |-> IF e = <<"config", o>> THEN config[o] ELSE cConfig[o]]
  /\ cWorkload' =
       [o \in Objs |-> IF e = <<"workload", o>> THEN workload[o] ELSE cWorkload[o]]
  /\ UNCHANGED <<world, api, w, pods, reverted, budget>>

RestartOperator ==
  /\ Fault("restart")
  /\ cObj' = obj /\ cProj' = proj /\ cSecret' = secret /\ cConfig' = config
  /\ cWorkload' = workload
  /\ pend' = {}
  /\ q' = {o \in Objs : obj[o].phase /= "absent"}
  /\ w' = [k \in Controllers |-> [w[k] EXCEPT !.pc = "idle"]]
  /\ UNCHANGED <<world, api, pods, reverted>>

-----------------------------------------------------------------------------
(***************************************************************************)
(* Reconcile of kind k.                                                    *)
(***************************************************************************)

\* A call to the API server returns an error, for the reason given or because
\* the request itself fails.
Errs(reason) == IF reason THEN UNCHANGED budget ELSE Fault("api")

Goto(k, pc) == w' = [w EXCEPT ![k].pc = pc]

\* The end of a reconciliation; asks for another one if `again`.
Return(k, again) ==
  /\ w' = [w EXCEPT ![k] = Idle(@.o)]
  /\ q' = IF again THEN q \cup {w[k].o} ELSE q

\* Faulty variant: the condition gets no reason, which the API server refuses.
Unreasoned(o, reason) == [Idle(o) EXCEPT !.pc = "status", !.cond = ""]

\* NotReady: the status is updated and the component requeued.
Refused(o, reason) == [Idle(o) EXCEPT !.pc = "status", !.cond = reason]
NotReady(k, reason) == w' = [w EXCEPT ![k] = Refused(@.o, reason)]

\* Faulty variant: components that are being deleted are not counted.
LiveOnly(k, p) ==
  {o \in Objs : KindOf[o] = k /\ ProjectOf[o] = p /\ cObj[o].phase = "live"}

\* List with the index on spec.projectRef.name; deleted components are listed as
\* long as they exist.
Listed(k, p) ==
  {o \in Objs : KindOf[o] = k /\ ProjectOf[o] = p /\ cObj[o].phase /= "absent"}

\* checkDatabaseConflict: another Analytics of a Project with the same database;
\* one whose Project is not found is passed over.
DatabaseConflict(o) ==
  \E other \in Objs \ {o} :
    /\ KindOf[other] = "Analytics" /\ cObj[other].phase = "live"
    /\ cProj[ProjectOf[other]].phase /= "absent"
    /\ DatabaseOf[ProjectOf[other]] = DatabaseOf[ProjectOf[o]]

\* RequireDependency and ListOptional find what they look for.
FindsDependencies(k, p) ==
  /\ \A d \in Requires(k) : Cardinality(Listed(d, p)) = 1
  /\ \A d \in Optional(k) : Cardinality(Listed(d, p)) <= 1

\* Studio leaves out an Analytics that is being deleted.
Found(k, p) ==
  {d \in Objs : /\ \E dk \in Requires(k) \cup Optional(k) : d \in Listed(dk, p)
                /\ (k = "Studio" /\ KindOf[d] = "Analytics") => cObj[d].phase = "live"}

\* What Reconcile does next, after Start (Get of the component and its Project,
\* List of its kind), checkDatabaseConflict, RequireDependency, ListOptional and
\* ResolveDatabase.
Started(k, o) ==
  LET p  == ProjectOf[o]
      at == [Idle(o) EXCEPT !.inc = cObj[o].inc]
  IN  IF cProj[p].phase /= "live" THEN Refused(o, "Waiting")
      ELSE IF Cardinality(Listed(k, p)) > 1 THEN Refused(o, "ConflictingComponents")
      ELSE IF k = "Analytics" /\ DatabaseConflict(o) THEN [at EXCEPT !.pc = "drop"]
      ELSE IF ~FindsDependencies(k, p) \/ ~cProj[p].ready THEN Refused(o, "Waiting")
      ELSE [at EXCEPT !.pc = IF HasConfig(k) THEN "children" ELSE "workload",
                      !.refs = Found(k, p)]

Start(o) ==
  LET k == KindOf[o]
  IN  /\ w[k].pc = "idle" /\ o \in q /\ Cardinality(pend) <= MaxStale
      /\ q' = q \ {o}
      /\ w' = IF cObj[o].phase = "live" THEN [w EXCEPT ![k] = Started(k, o)] ELSE w
      /\ UNCHANGED <<world, api, caches, pend, pods, reverted, budget>>

\* Faulty variant: a conflict is only reported.
KeepDeployment(k) ==
  /\ NotReady(k, "ConflictingDatabase")
  /\ UNCHANGED <<workload, pods, pend, q>>

\* deleteAnalyticsDeployment, of the Deployment that the cache shows to be the
\* component's own.
DropDeployment(k) ==
  LET o == w[k].o
  IN  IF cWorkload[o].owner \notin {Absent, w[k].inc}
      THEN Return(k, TRUE) /\ UNCHANGED <<workload, pods, pend>>
      ELSE /\ NotReady(k, "ConflictingDatabase")
           /\ IF cWorkload[o].owner /= Absent /\ workload[o].owner /= Absent
              THEN /\ workload' = [workload EXCEPT ![o] = NoWorkload]
                   /\ pods' = [pods EXCEPT ![o] = NoPods]
                   /\ Changed(<<"workload", o>>)
              ELSE UNCHANGED <<workload, pods, pend>>
           /\ UNCHANGED q

Drop(k) ==
  /\ w[k].pc = "drop"
  /\ \/ Fault("api") /\ Return(k, TRUE) /\ UNCHANGED <<workload, pods, pend>>
     \/ DropDeployment(k) /\ UNCHANGED budget
  /\ UNCHANGED <<world, obj, proj, secret, config, caches, reverted>>

\* reconcileConfigMap.  The other children, a Secret, a Service and a claim, matter
\* here only by the failure to write them, which ends as that of EnsureWorkload.
EnsureChildren(k) ==
  /\ w[k].pc = "children"
  /\ LET o     == w[k].o
         new   == [owner |-> w[k].inc, refs |-> w[k].refs]
         fails == EnsureFails(cConfig[o].owner, config[o].owner, w[k].inc,
                              cConfig[o] /= new, <<"config", o>> \in pend)
     IN  \/ /\ Errs(fails)
            /\ NotReady(k, "Waiting")
            /\ UNCHANGED <<config, pend, reverted>>
         \/ /\ ~fails
            /\ IF cConfig[o] /= new
               THEN /\ config' = [config EXCEPT ![o] = new]
                    /\ reverted' = IF /\ config[o].owner /= Absent
                                      /\ workload[o].owner /= Absent
                                      /\ workload[o].tmpl.config = new.refs
                                   THEN reverted \cup {o} ELSE reverted
                    /\ Changed(<<"config", o>>)
               ELSE UNCHANGED <<config, pend, reverted>>
            /\ Goto(k, "workload")
            /\ UNCHANGED budget
  /\ UNCHANGED <<world, obj, proj, secret, workload, caches, q, pods>>

\* Faulty variant: the template is not stamped with the hash of the Secrets.
NotStamped(k) ==
  [env |-> IF HasConfig(k) THEN {} ELSE w[k].refs, config |-> cConfig[w[k].o].refs, secret |-> 1]

\* The template of the workload, with the hashes of what reconcileConfigMap and
\* StampInputs find in the caches.
Stamped(k) ==
  [env |-> IF HasConfig(k) THEN {} ELSE w[k].refs, config |-> cConfig[w[k].o].refs,
   secret |-> cSecret]

\* reconcileDeployment, reconcileStatefulSet.  The defaults of the API server
\* make the mutated object differ from the cached one each time.
EnsureWorkload(k) ==
  /\ w[k].pc = "workload"
  /\ LET o     == w[k].o
         old   == workload[o]
         fails == \/ HasConfig(k) /\ cConfig[o].owner = Absent
                  \/ EnsureFails(cWorkload[o].owner, old.owner, w[k].inc, TRUE,
                                 <<"workload", o>> \in pend)
     IN  \/ /\ Errs(fails)
            /\ NotReady(k, "Waiting")
            /\ UNCHANGED <<workload, pend, reverted>>
         \/ /\ ~fails
            /\ IF old.owner = Absent \/ old.tmpl /= Stamped(k)
               THEN /\ workload' = [workload EXCEPT ![o] =
                         [owner |-> w[k].inc, tmpl |-> Stamped(k), rolled |-> FALSE]]
                    /\ Changed(<<"workload", o>>)
                    /\ reverted' = reverted \ {o}
               ELSE UNCHANGED <<workload, pend, reverted>>
            /\ Goto(k, "judge")
            /\ UNCHANGED budget
  /\ UNCHANGED <<world, obj, proj, secret, config, caches, q, pods>>

\* DeploymentReady, StatefulSetReady: of the workload in the cache.
RolloutDone(o) == cWorkload[o].owner /= Absent /\ cWorkload[o].rolled

\* The reason to publish.
Verdict(k) ==
  IF w[k].pc = "status" THEN w[k].cond
  ELSE IF RolloutDone(w[k].o) THEN "Ready" ELSE "Waiting"

\* UpdateStatus: reads the component from the cache again, and sends the update
\* with the resourceVersion found there if the status differs.
UpdateStatus(k) ==
  /\ w[k].pc \in {"judge", "status"}
  /\ LET o     == w[k].o
         cond  == Verdict(k)
         skips == cObj[o].phase /= "absent" /\ cObj[o].cond = cond
         fails == cObj[o].phase = "absent" \/ cObj[o] /= obj[o]
     IN  \/ /\ ~skips
            /\ Errs(fails)
            /\ Return(k, TRUE)
            /\ UNCHANGED <<obj, pend>>
         \/ /\ skips \/ ~fails
            /\ IF skips THEN UNCHANGED <<obj, pend>>
               ELSE obj' = [obj EXCEPT ![o].cond = cond] /\ ObjChanged(o)
            /\ Return(k, cond /= "Ready")
            /\ UNCHANGED budget
  /\ UNCHANGED <<world, proj, secret, config, workload, caches, pods, reverted>>

-----------------------------------------------------------------------------
(***************************************************************************)
(* The cluster.                                                            *)
(***************************************************************************)

\* The Deployment or StatefulSet controller replaces the Pods: containers are
\* created with the Secrets and the ConfigMap of that moment.
Rollout(o) ==
  /\ workload[o].owner /= Absent /\ ~workload[o].rolled
  /\ pods' = [pods EXCEPT ![o] =
       [refs   |-> IF HasConfig(KindOf[o]) THEN config[o].refs ELSE workload[o].tmpl.env,
        secret |-> secret]]
  /\ workload' = [workload EXCEPT ![o].rolled = TRUE]
  /\ Changed(<<"workload", o>>)
  /\ UNCHANGED <<world, obj, proj, secret, config, caches, q, w, reverted, budget>>

\* The component is gone when its children are (foreground deletion) ...
FinishDelete(o) ==
  /\ obj[o].phase = "deleting"
  /\ workload[o].owner = Absent /\ config[o].owner = Absent
  /\ obj' = [obj EXCEPT ![o].phase = "absent"]
  /\ ObjChanged(o)
  /\ UNCHANGED <<world, proj, secret, config, workload, caches, q, w, pods, reverted, budget>>

\* ... and children are when their owner is, or waits for them.
Outlives(o, owner) ==
  owner /= Absent /\ (obj[o].phase /= "live" \/ obj[o].inc /= owner)

CollectGarbage(o) ==
  \/ /\ Outlives(o, workload[o].owner)
     /\ workload' = [workload EXCEPT ![o] = NoWorkload]
     /\ pods' = [pods EXCEPT ![o] = NoPods]
     /\ Changed(<<"workload", o>>)
     /\ UNCHANGED <<world, obj, proj, secret, config, caches, q, w, reverted, budget>>
  \/ /\ Outlives(o, config[o].owner)
     /\ config' = [config EXCEPT ![o] = NoConfig]
     /\ Changed(<<"config", o>>)
     /\ UNCHANGED <<world, obj, proj, secret, workload, caches, q, w, pods, reverted, budget>>

\* The Project and its database become Ready, or cease to be.
ProjectReady(p) ==
  /\ \E o \in world.first \cup world.objs : ProjectOf[o] = p
  /\ proj[p].phase = "live" /\ ~proj[p].ready
  /\ proj' = [proj EXCEPT ![p].ready = TRUE]
  /\ Changed(<<"project">>)
  /\ UNCHANGED <<world, obj, secret, config, workload, caches, q, w, pods, reverted, budget>>

ProjectNotReady(p) ==
  /\ proj[p].ready /\ Fault("ready")
  /\ proj' = [proj EXCEPT ![p].ready = FALSE]
  /\ Changed(<<"project">>)
  /\ UNCHANGED <<world, obj, secret, config, workload, caches, q, w, pods, reverted>>

-----------------------------------------------------------------------------
Controller(k) ==
  \/ \E o \in Objs : KindOf[o] = k /\ Start(o)
  \/ Drop(k) \/ EnsureChildren(k) \/ EnsureWorkload(k) \/ UpdateStatus(k)

Cluster ==
  \/ \E e \in Events : Deliver(e)
  \/ \E o \in Objs : Rollout(o) \/ FinishDelete(o) \/ CollectGarbage(o)
  \/ \E p \in Projects : ProjectReady(p)

Environment ==
  \/ \E o \in Objs : Create(o) \/ Delete(o)
  \/ \E p \in Projects : ChangeProject(p) \/ ProjectNotReady(p)
  \/ EditSecret \/ RestartOperator

Next == (\E k \in Controllers : Controller(k)) \/ Cluster \/ Environment

Spec == Init /\ [][Next]_vars

\* Each worker serves its queue, in the order of arrival and with the delay that a
\* requeue asks for, so that no component keeps others from being served; the
\* cluster delivers events, rolls out workloads, collects garbage and gets Projects
\* Ready as long as there is any of that to do.
Fairness ==
  /\ \A k \in Controllers : WF_vars(Controller(k))
  /\ \A o \in {x \in Objs : \E y \in Objs \ {x} : KindOf[x] = KindOf[y]} : SF_vars(Start(o))
  /\ WF_vars(Cluster)

FairSpec == Spec /\ Fairness

-----------------------------------------------------------------------------
(***************************************************************************)
(* Properties.                                                             *)
(***************************************************************************)

Live(o) == obj[o].phase = "live"

Busy(o) == w[KindOf[o]].o = o /\ w[KindOf[o]].pc /= "idle"

\* The components of kind k that Project p really has.
Having(k, p) == {o \in Objs : KindOf[o] = k /\ ProjectOf[o] = p /\ obj[o].phase /= "absent"}

Needs(o) ==
  {d \in Objs : /\ d \in Having(KindOf[d], ProjectOf[o])
                /\ KindOf[d] \in Requires(KindOf[o]) \cup Optional(KindOf[o])
                /\ (KindOf[o] = "Studio" /\ KindOf[d] = "Analytics") => Live(d)}

\* Start, RequireDependency and ListOptional would accept o as things are.
Complete(o) ==
  /\ proj[ProjectOf[o]].phase = "live"
  /\ \A k \in Requires(KindOf[o]) : Cardinality(Having(k, ProjectOf[o])) = 1
  /\ \A k \in Optional(KindOf[o]) : Cardinality(Having(k, ProjectOf[o])) <= 1

Sharing(o) ==
  {a \in Objs : /\ KindOf[a] = "Analytics" /\ KindOf[o] = "Analytics" /\ Live(a)
                /\ DatabaseOf[ProjectOf[a]] = DatabaseOf[ProjectOf[o]]}

Wanted(o) ==
  Complete(o) /\ Having(KindOf[o], ProjectOf[o]) = {o} /\ Sharing(o) \subseteq {o}

Owns(o) == workload[o].owner /= Absent /\ workload[o].owner = obj[o].inc

\* The workload has been given everything that it depends on, and reports it done.
Current(o) ==
  /\ Owns(o) /\ workload[o].rolled
  /\ workload[o].tmpl.secret = secret
  /\ IF HasConfig(KindOf[o])
     THEN config[o].refs = Needs(o) /\ workload[o].tmpl.config = Needs(o)
     ELSE workload[o].tmpl.env = Needs(o)

\* Two components of one kind in one Project never both have a workload, though
\* each is refused only on what a cache says of the other: a component that
\* exists, even one being deleted, keeps every other from being rolled out.
AtMostOneActs ==
  \A o1, o2 \in Objs :
    (o1 /= o2 /\ KindOf[o1] = KindOf[o2] /\ ProjectOf[o1] = ProjectOf[o2]
       /\ obj[o1].phase /= "absent" /\ obj[o2].phase /= "absent")
    => ~(Owns(o1) /\ Owns(o2))

\* No change goes unnoticed: with no event under way, a component that says it is
\* Ready and is in no queue has the workload that its Project, the Secrets and
\* the components it depends on call for.  (That another of its kind has come
\* since, or another Analytics on its database, is noticed by the newcomer.)
NoLostWakeup ==
  \A o \in Objs :
    (Live(o) /\ o \notin q /\ ~Busy(o) /\ pend = {})
    => obj[o].cond = "Ready" /\ Complete(o) /\ Current(o)

\* An Analytics that reports a conflict about its database ends up without a
\* Deployment, and two of Projects that exist do not go on writing to one database.
ConflictsStop ==
  <>[] /\ \A o \in Objs : Live(o) /\ obj[o].cond = "ConflictingDatabase" => ~Owns(o)
       /\ \A o \in Objs : \A a \in Sharing(o) \ {o} :
            (Live(o) /\ Complete(o) /\ Complete(a)) => ~(Owns(o) /\ Owns(a))

\* Whatever was created, deleted, edited or failed, a component that its Project
\* can have ends up Ready, with Pods that were started with the present Secrets
\* and the present dependencies; one that lacks something ends up not Ready.
\* Envoys in `reverted` are excepted, see RollsOnConfigChange.
EventuallySettled ==
  <>[] \A o \in Objs : Live(o) =>
         /\ Wanted(o) => /\ obj[o].cond = "Ready" /\ Current(o)
                         /\ pods[o].secret = secret
                         /\ o \in reverted \/ pods[o].refs = Needs(o)
         /\ obj[o].cond = "Ready" => Complete(o)

\* What EnvoyDeployment says of the hashes in its template: that they "force a
\* rolling update when the ConfigMap or Secret changes", so that an Envoy ends up
\* with the routes that its ConfigMap has.
RollsOnConfigChange ==
  <>[] \A o \in Objs : (Live(o) /\ HasConfig(KindOf[o]) /\ Wanted(o))
                       => pods[o].refs = config[o].refs
=============================================================================
