--------------------------- MODULE ComponentProofs ---------------------------
(***************************************************************************)
(* Proofs about Component, for every set of components, whatever their     *)
(* kinds and Projects, and for every scenario.                             *)
(***************************************************************************)
EXTENDS Component, FiniteSetTheorems, TLAPS

\* What the types leave out: a worker deals with components of its kind.
Kinded == \A k \in Controllers : KindOf[w[k].o] = k

TypeInv == TypeOK /\ Kinded

LEMMA ConstantTypes ==
  ASSUME NEW o \in Objs
  PROVE  KindOf[o] \in Controllers /\ KindOf[o] \in Kinds /\ ProjectOf[o] \in Projects
BY ComponentAssumption DEF Controllers, Projects

LEMMA EventTypes ==
  /\ \A k \in Controllers : <<"obj", k>> \in Events
  /\ <<"project">> \in Events /\ <<"secret">> \in Events
  /\ \A o \in Objs : <<"config", o>> \in Events /\ <<"workload", o>> \in Events
BY DEF Events

LEMMA ChangedTypes ==
  ASSUME TypeInv, NEW e \in Events, Changed(e) \/ UNCHANGED pend
  PROVE  pend' \subseteq Events
BY DEF TypeInv, TypeOK, Changed

LEMMA ObjChangedTypes ==
  ASSUME TypeInv, NEW o \in Objs, ObjChanged(o) \/ UNCHANGED pend
  PROVE  pend' \subseteq Events
BY ConstantTypes, EventTypes, ChangedTypes DEF ObjChanged

LEMMA FaultTypes ==
  ASSUME TypeInv, NEW f, Fault(f) \/ UNCHANGED budget
  PROVE  budget' \in Nat
BY DEF TypeInv, TypeOK, Fault

LEMMA ErrsTypes ==
  ASSUME TypeInv, NEW reason, Errs(reason) \/ UNCHANGED budget
  PROVE  budget' \in Nat
BY FaultTypes DEF Errs

-----------------------------------------------------------------------------
(***************************************************************************)
(* The worker.                                                             *)
(***************************************************************************)

LEMMA IdleType ==
  ASSUME NEW o \in Objs
  PROVE  Idle(o) \in Worker /\ Idle(o).o = o /\ Idle(o).pc = "idle" /\ Idle(o).inc = 0
<1>1. 0 \in 0..MaxInc
  BY ComponentAssumption
<1> QED
  BY <1>1 DEF Idle, Worker, Refs, Reasons

LEMMA RefusedType ==
  ASSUME NEW o \in Objs, NEW r \in Reasons
  PROVE  /\ Refused(o, r) \in Worker /\ Refused(o, r).o = o /\ Refused(o, r).pc = "status"
         /\ Refused(o, r).inc = 0 /\ Refused(o, r).cond = r
BY IdleType DEF Refused, Idle, Worker

LEMMA FoundType ==
  ASSUME NEW k, NEW p
  PROVE  Found(k, p) \in Refs
BY DEF Found, Refs

\* What a reconciliation may begin with.
LEMMA StartedType ==
  ASSUME TypeInv, NEW o \in Objs
  PROVE  LET k == KindOf[o]
             p == ProjectOf[o]
             x == Started(k, o)
         IN  /\ x \in Worker /\ x.o = o
             /\ \/ x.pc = "status" /\ x.inc = 0 /\ x.cond /= "Ready"
                \/ x.pc = "drop" /\ x.inc = cObj[o].inc
                \/ /\ x.pc = IF HasConfig(k) THEN "children" ELSE "workload"
                   /\ x.inc = cObj[o].inc /\ x.refs = Found(k, p)
                   /\ cProj[p].phase = "live" /\ FindsDependencies(k, p)
                   /\ ~(Cardinality(Listed(k, p)) > 1)
<1> DEFINE k == KindOf[o]
           p == ProjectOf[o]
           x == Started(k, o)
           at == [Idle(o) EXCEPT !.inc = cObj[o].inc]
           go == [at EXCEPT !.pc = IF HasConfig(k) THEN "children" ELSE "workload",
                            !.refs = Found(k, p)]
<1>1. cObj[o].inc \in 0..MaxInc
  BY DEF TypeInv, TypeOK, Object
<1>2. at \in Worker /\ at.o = o /\ at.inc = cObj[o].inc
  BY <1>1, IdleType DEF Worker
<1>3. CASE x = Refused(o, "Waiting") \/ x = Refused(o, "ConflictingComponents")
  BY <1>3, RefusedType DEF Reasons
<1>4. CASE x = [at EXCEPT !.pc = "drop"]
  <2>1. x \in Worker /\ x.o = o /\ x.pc = "drop" /\ x.inc = cObj[o].inc
    BY <1>2, <1>4 DEF Worker
  <2> QED
    BY <2>1
<1>5. CASE /\ x = go /\ cProj[p].phase = "live" /\ FindsDependencies(k, p)
           /\ ~(Cardinality(Listed(k, p)) > 1)
  <2>1. /\ go \in Worker /\ go.o = o /\ go.inc = cObj[o].inc /\ go.refs = Found(k, p)
        /\ go.pc = IF HasConfig(k) THEN "children" ELSE "workload"
    BY <1>2, FoundType DEF Worker
  <2> QED
    BY <1>5, <2>1
<1> QED
  BY <1>3, <1>4, <1>5 DEF Started

\* The worker of kind k becomes x.
LEMMA WorkerTypes ==
  ASSUME TypeInv, NEW k \in Controllers, NEW x \in Worker, KindOf[x.o] = k,
         w' = [w EXCEPT ![k] = x]
  PROVE  /\ w' \in [Controllers -> Worker] /\ Kinded'
         /\ w'[k] = x /\ \A j \in Controllers \ {k} : w'[j] = w[j]
BY DEF TypeInv, TypeOK, Kinded

\* What it becomes.
LEMMA WorkerSteps ==
  ASSUME TypeInv, NEW k \in Controllers
  PROVE  /\ w[k] \in Worker /\ w[k].o \in Objs /\ KindOf[w[k].o] = k
         /\ \A pc \in {"children", "workload", "judge"} : Goto(k, pc) =>
              \E x \in Worker : /\ w' = [w EXCEPT ![k] = x] /\ x.pc = pc /\ x.o = w[k].o
                                /\ x.inc = w[k].inc /\ x.refs = w[k].refs
         /\ \A again : Return(k, again) => w' = [w EXCEPT ![k] = Idle(w[k].o)]
         /\ \A r : NotReady(k, r) => w' = [w EXCEPT ![k] = Refused(w[k].o, r)]
<1>1. w \in [Controllers -> Worker] /\ w[k] \in Worker
  BY DEF TypeInv, TypeOK
<1>2. ASSUME NEW pc \in {"children", "workload", "judge"}, Goto(k, pc)
      PROVE  \E x \in Worker : /\ w' = [w EXCEPT ![k] = x] /\ x.pc = pc /\ x.o = w[k].o
                                /\ x.inc = w[k].inc /\ x.refs = w[k].refs
  <2> DEFINE x == [w[k] EXCEPT !.pc = pc]
  <2>1. w' = [w EXCEPT ![k] = x]
    BY <1>2 DEF Goto
  <2>2. x \in Worker /\ x.pc = pc /\ x.o = w[k].o /\ x.inc = w[k].inc /\ x.refs = w[k].refs
    BY <1>1 DEF Worker
  <2> HIDE DEF x
  <2> QED
    BY <2>1, <2>2
<1>3. w[k].o \in Objs /\ KindOf[w[k].o] = k
  BY <1>1 DEF TypeInv, Kinded, Worker
<1> QED
  BY <1>1, <1>2, <1>3 DEF Return, NotReady

\* A step of worker k, by what the worker becomes.
WorkerStep(k) ==
  \E x \in Worker :
    /\ w' = [w EXCEPT ![k] = x] /\ w'[k] = x /\ KindOf[x.o] = k
    /\ \A j \in Controllers \ {k} : w'[j] = w[j]
    /\ x.o = w[k].o
    /\ \/ x.pc = "idle" /\ x.inc = 0
       \/ x.pc = "status" /\ x.inc = 0 /\ x.cond /= "Ready"
       \/ /\ x.pc \in {"workload", "judge"} /\ w[k].pc \in {"children", "workload"}
          /\ x.inc = w[k].inc /\ x.refs = w[k].refs

LEMMA WorkerStepTypes ==
  ASSUME TypeInv, NEW k \in Controllers, Drop(k) \/ EnsureChildren(k) \/ EnsureWorkload(k)
                                         \/ UpdateStatus(k)
  PROVE  WorkerStep(k) /\ w' \in [Controllers -> Worker] /\ Kinded'
<1> DEFINE o == w[k].o
<1>1. o \in Objs /\ KindOf[o] = k
  BY WorkerSteps
<1>2. \/ NotReady(k, "Waiting") \/ NotReady(k, "ConflictingDatabase")
      \/ Return(k, TRUE) \/ \E again : Return(k, again)
      \/ Goto(k, "workload") /\ w[k].pc = "children"
      \/ Goto(k, "judge") /\ w[k].pc = "workload"
  BY DEF Drop, DropDeployment, EnsureChildren, EnsureWorkload, UpdateStatus
<1>3. \E x \in Worker :
        /\ w' = [w EXCEPT ![k] = x] /\ x.o = w[k].o
        /\ \/ x.pc = "idle" /\ x.inc = 0
           \/ x.pc = "status" /\ x.inc = 0 /\ x.cond /= "Ready"
           \/ /\ x.pc \in {"workload", "judge"} /\ w[k].pc \in {"children", "workload"}
              /\ x.inc = w[k].inc /\ x.refs = w[k].refs
  <2>1. CASE NotReady(k, "Waiting")
    <3> DEFINE x == Refused(o, "Waiting")
    <3>1. w' = [w EXCEPT ![k] = x]
      BY <2>1, WorkerSteps
    <3>2. x \in Worker /\ x.o = o /\ x.pc = "status" /\ x.inc = 0 /\ x.cond /= "Ready"
      BY <1>1, RefusedType DEF Reasons
    <3> QED
      BY <3>1, <3>2
  <2>2. CASE NotReady(k, "ConflictingDatabase")
    <3> DEFINE x == Refused(o, "ConflictingDatabase")
    <3>1. w' = [w EXCEPT ![k] = x]
      BY <2>2, WorkerSteps
    <3>2. x \in Worker /\ x.o = o /\ x.pc = "status" /\ x.inc = 0 /\ x.cond /= "Ready"
      BY <1>1, RefusedType DEF Reasons
    <3> QED
      BY <3>1, <3>2
  <2>3. CASE \E again : Return(k, again)
    <3>1. w' = [w EXCEPT ![k] = Idle(o)]
      BY <2>3, WorkerSteps
    <3> QED
      BY <1>1, <3>1, IdleType
  <2>4. CASE Goto(k, "workload") /\ w[k].pc = "children"
    BY <2>4, WorkerSteps
  <2>5. CASE Goto(k, "judge") /\ w[k].pc = "workload"
    BY <2>5, WorkerSteps
  <2> QED
    BY <1>2, <2>1, <2>2, <2>3, <2>4, <2>5
<1>4. PICK x \in Worker :
        /\ w' = [w EXCEPT ![k] = x] /\ x.o = w[k].o
        /\ \/ x.pc = "idle" /\ x.inc = 0
           \/ x.pc = "status" /\ x.inc = 0 /\ x.cond /= "Ready"
           \/ /\ x.pc \in {"workload", "judge"} /\ w[k].pc \in {"children", "workload"}
              /\ x.inc = w[k].inc /\ x.refs = w[k].refs
  BY <1>3
<1>5. /\ w' \in [Controllers -> Worker] /\ Kinded'
      /\ w'[k] = x /\ \A j \in Controllers \ {k} : w'[j] = w[j]
  BY <1>1, <1>4, WorkerTypes
<1> QED
  BY <1>1, <1>4, <1>5 DEF WorkerStep

-----------------------------------------------------------------------------
(***************************************************************************)
(* TypeInv holds initially and is kept by every action.                    *)
(***************************************************************************)

LEMMA InitTypes == Init => TypeInv
<1> SUFFICES ASSUME Init PROVE TypeInv
  OBVIOUS
<1>1. world \in World /\ world \in Worlds
  BY ComponentAssumption DEF Init
<1>2. q \subseteq Objs /\ budget \in Nat
  BY <1>1 DEF Init, World
<1>3. obj \in [Objs -> Object]
  BY ComponentAssumption DEF Init, Object, Reasons
<1>4. proj \in [Projects -> Project]
  BY DEF Init, Project
<1>5. NoConfig \in Config /\ NoWorkload \in Workload /\ NoPods \in Pods
  BY ComponentAssumption
  DEF NoConfig, Config, NoWorkload, Workload, NoTemplate, Template, NoPods, Pods, Refs, Absent
<1>6. /\ config \in [Objs -> Config] /\ workload \in [Objs -> Workload]
      /\ pods \in [Objs -> Pods]
  BY <1>5 DEF Init
<1>7. ASSUME NEW k \in Controllers
      PROVE  w[k] \in Worker /\ KindOf[w[k].o] = k
  <2> DEFINE o == CHOOSE o \in Objs : KindOf[o] = k
  <2>1. o \in Objs /\ KindOf[o] = k
    BY DEF Controllers
  <2>2. w[k] = Idle(o)
    BY DEF Init
  <2> HIDE DEF o
  <2> QED
    BY <2>1, <2>2, IdleType
<1>8. w \in [Controllers -> Worker]
  BY <1>7 DEF Init
<1> QED
  BY <1>1, <1>2, <1>3, <1>4, <1>6, <1>7, <1>8 DEF Init, TypeInv, TypeOK, Kinded

LEMMA UserTypes ==
  ASSUME TypeInv,
         \/ \E o \in Objs : Create(o) \/ Delete(o)
         \/ \E p \in Projects : ChangeProject(p)
         \/ EditSecret
  PROVE  TypeInv'
<1>1. budget' \in Nat
  BY FaultTypes DEF Create, Delete, ChangeProject, EditSecret
<1>2. ASSUME NEW o \in Objs, Create(o) \/ Delete(o)
      PROVE  TypeInv'
  <2>1. PICK x \in Object : obj' = [obj EXCEPT ![o] = x]
    <3>1. obj[o] \in Object
      BY DEF TypeInv, TypeOK
    <3>2. CASE Create(o)
      <4> DEFINE x == [phase |-> "live", inc |-> obj[o].inc + 1, cond |-> "None"]
      <4>1. x \in Object
        BY <3>1, <3>2, ComponentAssumption DEF Create, Object, Reasons
      <4>2. obj' = [obj EXCEPT ![o] = x]
        BY <3>2 DEF Create
      <4> QED
        BY <4>1, <4>2
    <3>3. CASE Delete(o)
      <4>1. PICK phase \in {"deleting", "absent"} : obj' = [obj EXCEPT ![o].phase = phase]
        BY <3>3 DEF Delete
      <4> DEFINE x == [obj[o] EXCEPT !.phase = phase]
      <4>2. x \in Object
        BY <3>1 DEF Object
      <4> QED
        BY <4>1, <4>2
    <3> QED
      BY <1>2, <3>2, <3>3
  <2>2. pend' \subseteq Events
    BY <1>2, ObjChangedTypes DEF Create, Delete
  <2> QED
    BY <1>1, <1>2, <2>1, <2>2 DEF Create, Delete, TypeInv, TypeOK, Kinded, caches
<1>3. ASSUME NEW p \in Projects, ChangeProject(p)
      PROVE  TypeInv'
  <2>1. proj' \in [Projects -> Project]
    BY <1>3 DEF ChangeProject, TypeInv, TypeOK, Project
  <2>2. pend' \subseteq Events
    BY <1>3, EventTypes, ChangedTypes DEF ChangeProject
  <2> QED
    BY <1>1, <1>3, <2>1, <2>2 DEF ChangeProject, TypeInv, TypeOK, Kinded, caches
<1>4. CASE EditSecret
  <2>1. pend' \subseteq Events
    BY <1>4, EventTypes, ChangedTypes DEF EditSecret
  <2> QED
    BY <1>1, <1>4, <2>1 DEF EditSecret, TypeInv, TypeOK, Kinded, caches
<1> QED
  BY <1>2, <1>3, <1>4

LEMMA InformerTypes ==
  ASSUME TypeInv, (\E e \in Events : Deliver(e)) \/ RestartOperator
  PROVE  TypeInv'
<1>1. ASSUME NEW e \in Events, Deliver(e)
      PROVE  TypeInv'
  <2>1. q' \subseteq Objs /\ pend' \subseteq Events
    BY <1>1 DEF Deliver, Woken, TypeInv, TypeOK
  <2>2. /\ cObj' \in [Objs -> Object] /\ cConfig' \in [Objs -> Config]
        /\ cWorkload' \in [Objs -> Workload]
    BY <1>1 DEF Deliver, TypeInv, TypeOK
  <2>3. cProj' \in [Projects -> Project] /\ cSecret' \in Nat
    BY <1>1 DEF Deliver, TypeInv, TypeOK
  <2> QED
    BY <1>1, <2>1, <2>2, <2>3 DEF Deliver, TypeInv, TypeOK, Kinded, api
<1>2. CASE RestartOperator
  <2>1. \A k \in Controllers : w'[k] \in Worker /\ w'[k].o = w[k].o
    BY <1>2 DEF RestartOperator, TypeInv, TypeOK, Worker
  <2>2. w' \in [Controllers -> Worker]
    BY <1>2, <2>1 DEF RestartOperator
  <2>3. budget' \in Nat
    BY <1>2, FaultTypes DEF RestartOperator
  <2> QED
    BY <1>2, <2>1, <2>2, <2>3 DEF RestartOperator, TypeInv, TypeOK, Kinded, api
<1> QED
  BY <1>1, <1>2

LEMMA StartTypes ==
  ASSUME TypeInv, NEW o \in Objs, Start(o)
  PROVE  /\ TypeInv'
         /\ \/ UNCHANGED w
            \/ /\ cObj[o].phase = "live" /\ w'[KindOf[o]] = Started(KindOf[o], o)
               /\ \A j \in Controllers \ {KindOf[o]} : w'[j] = w[j]
<1>1. CASE UNCHANGED w
  BY <1>1 DEF Start, TypeInv, TypeOK, Kinded, api, caches
<1>2. CASE /\ cObj[o].phase = "live"
           /\ w' = [w EXCEPT ![KindOf[o]] = Started(KindOf[o], o)]
  <2> DEFINE x == Started(KindOf[o], o)
  <2>1. x \in Worker /\ x.o = o /\ KindOf[o] \in Controllers
    BY StartedType, ConstantTypes
  <2>2. w' = [w EXCEPT ![KindOf[o]] = x]
    BY <1>2
  <2> HIDE DEF x
  <2>3. /\ w' \in [Controllers -> Worker] /\ Kinded'
        /\ w'[KindOf[o]] = x /\ \A j \in Controllers \ {KindOf[o]} : w'[j] = w[j]
    BY <2>1, <2>2, WorkerTypes
  <2> QED
    BY <1>2, <2>3 DEF Start, TypeInv, TypeOK, api, caches, x
<1> QED
  BY <1>1, <1>2 DEF Start

LEMMA ControllerTypes ==
  ASSUME TypeInv, NEW k \in Controllers,
         Drop(k) \/ EnsureChildren(k) \/ EnsureWorkload(k) \/ UpdateStatus(k)
  PROVE  TypeInv'
<1> DEFINE o == w[k].o
<1>1. /\ w \in [Controllers -> Worker] /\ w[k] \in Worker /\ o \in Objs /\ KindOf[o] = k
      /\ q \subseteq Objs
  BY WorkerSteps DEF TypeInv, TypeOK
<1>2. w' \in [Controllers -> Worker] /\ Kinded'
  BY WorkerStepTypes
<1>3. NoWorkload \in Workload /\ NoPods \in Pods
  BY ComponentAssumption
  DEF NoWorkload, Workload, NoTemplate, Template, NoPods, Pods, Refs, Absent
<1>4. budget' \in Nat
  <2>1. \/ Fault("api") \/ UNCHANGED budget \/ \E reason : Errs(reason)
    BY DEF Drop, EnsureChildren, EnsureWorkload, UpdateStatus
  <2> QED
    BY <2>1, FaultTypes, ErrsTypes
<1>5. pend' \subseteq Events
  <2>1. \/ UNCHANGED pend \/ Changed(<<"workload", o>>) \/ Changed(<<"config", o>>)
        \/ ObjChanged(o)
    BY DEF Drop, DropDeployment, EnsureChildren, EnsureWorkload, UpdateStatus
  <2> QED
    BY <1>1, <2>1, EventTypes, ChangedTypes, ObjChangedTypes
<1>6. q' \subseteq Objs
  <2>1. q' = q \/ q' = q \cup {o}
    BY DEF Drop, DropDeployment, EnsureChildren, EnsureWorkload, UpdateStatus, Return
  <2> QED
    BY <1>1, <2>1
<1>7. CASE Drop(k)
  <2>1. workload' \in [Objs -> Workload] /\ pods' \in [Objs -> Pods]
    BY <1>3, <1>7 DEF Drop, DropDeployment, TypeInv, TypeOK
  <2> QED
    BY <1>2, <1>4, <1>5, <1>6, <1>7, <2>1 DEF Drop, TypeInv, TypeOK, caches
<1>8. CASE EnsureChildren(k)
  <2>1. [owner |-> w[k].inc, refs |-> w[k].refs] \in Config
    BY <1>1 DEF Worker, Config
  <2>2. config' \in [Objs -> Config]
    BY <1>8, <2>1 DEF EnsureChildren, TypeInv, TypeOK
  <2>3. reverted' \subseteq Objs
    <3>1. reverted' = reverted \/ reverted' = reverted \cup {o}
      BY <1>8 DEF EnsureChildren
    <3> QED
      BY <1>1, <3>1 DEF TypeInv, TypeOK
  <2> QED
    BY <1>2, <1>4, <1>5, <1>6, <1>8, <2>2, <2>3 DEF EnsureChildren, TypeInv, TypeOK,
         caches
<1>9. CASE EnsureWorkload(k)
  <2>1. Stamped(k) \in Template
    BY <1>1 DEF Stamped, Template, TypeInv, TypeOK, Worker, Config, Refs
  <2>2. [owner |-> w[k].inc, tmpl |-> Stamped(k), rolled |-> FALSE] \in Workload
    BY <1>1, <2>1 DEF Worker, Workload
  <2>3. workload' \in [Objs -> Workload]
    BY <1>9, <2>2 DEF EnsureWorkload, TypeInv, TypeOK
  <2>4. reverted' \subseteq Objs
    BY <1>9 DEF EnsureWorkload, TypeInv, TypeOK
  <2> QED
    BY <1>2, <1>4, <1>5, <1>6, <1>9, <2>3, <2>4 DEF EnsureWorkload, TypeInv, TypeOK,
         caches
<1>10. CASE UpdateStatus(k)
  <2>1. Verdict(k) \in Reasons
    BY <1>1 DEF Verdict, Worker, Reasons
  <2>2. obj' \in [Objs -> Object]
    <3> DEFINE x == [obj[o] EXCEPT !.cond = Verdict(k)]
    <3>1. UNCHANGED obj \/ obj' = [obj EXCEPT ![o] = x]
      BY <1>10 DEF UpdateStatus
    <3>2. obj \in [Objs -> Object] /\ obj[o] \in Object
      BY <1>1 DEF TypeInv, TypeOK
    <3>3. x \in Object
      BY <2>1, <3>2 DEF Object
    <3> HIDE DEF x
    <3> QED
      BY <3>1, <3>2, <3>3
  <2> QED
    BY <1>2, <1>4, <1>5, <1>6, <1>10, <2>2 DEF UpdateStatus, TypeInv, TypeOK, caches
<1> QED
  BY <1>7, <1>8, <1>9, <1>10

LEMMA ClusterTypes ==
  ASSUME TypeInv,
         \/ \E o \in Objs : Rollout(o) \/ FinishDelete(o) \/ CollectGarbage(o)
         \/ \E p \in Projects : ProjectReady(p) \/ ProjectNotReady(p)
  PROVE  TypeInv'
<1>1. NoWorkload \in Workload /\ NoPods \in Pods /\ NoConfig \in Config
  BY ComponentAssumption
  DEF NoWorkload, Workload, NoTemplate, Template, NoPods, Pods, NoConfig, Config, Refs, Absent
<1>2. ASSUME NEW o \in Objs, Rollout(o)
      PROVE  TypeInv'
  <2>1. config[o] \in Config /\ workload[o] \in Workload /\ secret \in Nat
    BY DEF TypeInv, TypeOK
  <2>2. pods' \in [Objs -> Pods]
    <3> DEFINE x == [refs   |-> IF HasConfig(KindOf[o]) THEN config[o].refs
                                ELSE workload[o].tmpl.env,
                     secret |-> secret]
    <3>1. x \in Pods
      BY <2>1 DEF Config, Workload, Template, Pods
    <3>2. pods' = [pods EXCEPT ![o] = x]
      BY <1>2 DEF Rollout
    <3> HIDE DEF x
    <3> QED
      BY <3>1, <3>2 DEF TypeInv, TypeOK
  <2>3. workload' \in [Objs -> Workload]
    BY <1>2 DEF Rollout, TypeInv, TypeOK, Workload
  <2>4. pend' \subseteq Events
    BY <1>2, EventTypes, ChangedTypes DEF Rollout
  <2> QED
    BY <1>2, <2>2, <2>3, <2>4 DEF Rollout, TypeInv, TypeOK, Kinded, caches
<1>3. ASSUME NEW o \in Objs, FinishDelete(o)
      PROVE  TypeInv'
  <2>1. obj' \in [Objs -> Object]
    BY <1>3 DEF FinishDelete, TypeInv, TypeOK, Object
  <2>2. pend' \subseteq Events
    BY <1>3, ObjChangedTypes DEF FinishDelete
  <2> QED
    BY <1>3, <2>1, <2>2 DEF FinishDelete, TypeInv, TypeOK, Kinded, caches
<1>4. ASSUME NEW o \in Objs, CollectGarbage(o)
      PROVE  TypeInv'
  <2>1. /\ workload' \in [Objs -> Workload] /\ config' \in [Objs -> Config]
        /\ pods' \in [Objs -> Pods]
    BY <1>1, <1>4 DEF CollectGarbage, TypeInv, TypeOK
  <2>2. pend' \subseteq Events
    BY <1>4, EventTypes, ChangedTypes DEF CollectGarbage
  <2> QED
    BY <1>4, <2>1, <2>2 DEF CollectGarbage, TypeInv, TypeOK, Kinded, caches
<1>5. ASSUME NEW p \in Projects, ProjectReady(p) \/ ProjectNotReady(p)
      PROVE  TypeInv'
  <2>1. proj' \in [Projects -> Project]
    <3>1. PICK b \in BOOLEAN : proj' = [proj EXCEPT ![p].ready = b]
      BY <1>5 DEF ProjectReady, ProjectNotReady
    <3>2. proj[p] \in Project /\ [proj[p] EXCEPT !.ready = b] \in Project
      BY DEF TypeInv, TypeOK, Project
    <3> QED
      BY <3>1, <3>2 DEF TypeInv, TypeOK
  <2>2. pend' \subseteq Events
    BY <1>5, EventTypes, ChangedTypes DEF ProjectReady, ProjectNotReady
  <2>3. budget' \in Nat
    BY <1>5, FaultTypes DEF ProjectReady, ProjectNotReady
  <2> QED
    BY <1>5, <2>1, <2>2, <2>3
    DEF ProjectReady, ProjectNotReady, TypeInv, TypeOK, Kinded, caches
<1> QED
  BY <1>2, <1>3, <1>4, <1>5

LEMMA NextTypes == TypeInv /\ [Next]_vars => TypeInv'
<1> SUFFICES ASSUME TypeInv, [Next]_vars PROVE TypeInv'
  OBVIOUS
<1>1. ASSUME NEW k \in Controllers, Controller(k) PROVE TypeInv'
  BY <1>1, StartTypes, ControllerTypes DEF Controller
<1>2. CASE Cluster
  BY <1>2, InformerTypes, ClusterTypes DEF Cluster
<1>3. CASE Environment
  BY <1>3, UserTypes, InformerTypes, ClusterTypes DEF Environment
<1>4. CASE UNCHANGED vars
  BY <1>4 DEF TypeInv, TypeOK, Kinded, vars, api, caches
<1> QED
  BY <1>1, <1>2, <1>3, <1>4 DEF Next

\* Every reachable state is well typed, whatever components a scenario has.
THEOREM TypeCorrect == Spec => []TypeOK
<1>1. TypeInv => TypeOK
  BY DEF TypeInv
<1> QED
  BY <1>1, InitTypes, NextTypes, PTL DEF Spec

-----------------------------------------------------------------------------
(***************************************************************************)
(* AtMostOneActs.  A reconciliation that has passed Start goes on to write *)
(* a workload whatever happens meanwhile, so the claim has to be made of   *)
(* what acts: a component that owns its workload, or whose worker is about *)
(* to write one.  What keeps a second from starting is that the first is   *)
(* in the cache, and stays listed as long as it exists: the cache is       *)
(* behind, but never forgets a component that is still there.              *)
(***************************************************************************)

Exists(o) == obj[o].phase /= "absent"

Acting(o) ==
  /\ w[KindOf[o]].o = o /\ w[KindOf[o]].pc \in {"children", "workload"}
  /\ w[KindOf[o]].inc = obj[o].inc

Acts(o) == Owns(o) \/ Acting(o)

\* The cache shows what was there at some time.
CachePast ==
  \A o \in Objs : /\ cObj[o].inc <= obj[o].inc
                  /\ cObj[o].inc = obj[o].inc /\ cObj[o].phase = "absent" => ~Exists(o)

IncsPast ==
  /\ \A o \in Objs : workload[o].owner <= obj[o].inc /\ (Exists(o) => obj[o].inc > 0)
  /\ \A k \in Controllers : w[k].inc <= obj[w[k].o].inc

Seen == \A o \in Objs : Acts(o) => cObj[o].inc = obj[o].inc

Twins(o1, o2) == o1 /= o2 /\ KindOf[o1] = KindOf[o2] /\ ProjectOf[o1] = ProjectOf[o2]

Alone ==
  \A o1, o2 \in Objs :
    (Twins(o1, o2) /\ Exists(o1) /\ Exists(o2)) => ~(Acts(o1) /\ Acts(o2))

ActsInv == CachePast /\ IncsPast /\ Seen /\ Alone

\* Two elements make a set larger than one.
LEMMA TwoListed ==
  ASSUME NEW k, NEW p, NEW a \in Listed(k, p), NEW b \in Listed(k, p), a /= b
  PROVE  Cardinality(Listed(k, p)) > 1
<1>1. Listed(k, p) \subseteq Objs
  BY DEF Listed
<1>2. IsFiniteSet(Listed(k, p))
  BY <1>1, ComponentAssumption, FS_Subset
<1>3. Cardinality({a, b}) <= Cardinality(Listed(k, p)) /\ Cardinality(Listed(k, p)) \in Nat
  BY <1>2, FS_Subset, FS_CardinalityType
<1>4. Cardinality({a}) = 1 /\ IsFiniteSet({a})
  BY FS_Singleton
<1>5. {a, b} = {a} \cup {b} /\ b \notin {a}
  OBVIOUS
<1>6. Cardinality({a} \cup {b}) = Cardinality({a}) + 1
  BY <1>4, <1>5, FS_AddElement
<1> QED
  BY <1>3, <1>4, <1>5, <1>6

\* If nothing acts but what did, and nothing exists but what did, ActsInv is kept.
LEMMA ActsFrame ==
  ASSUME TypeInv, TypeInv', ActsInv,
         \A o \in Objs : obj'[o].inc = obj[o].inc /\ (Exists(o)' => Exists(o)),
         \A o \in Objs : cObj'[o] = cObj[o] \/ cObj'[o] = obj'[o],
         \A o \in Objs : \/ workload'[o].owner = workload[o].owner
                         \/ workload'[o].owner = Absent
                         \/ /\ w[KindOf[o]].o = o /\ w[KindOf[o]].pc = "workload"
                            /\ workload'[o].owner = w[KindOf[o]].inc,
         \A k \in Controllers :
           \/ w'[k].inc = 0 /\ w'[k].pc \notin {"children", "workload"}
           \/ /\ w'[k].o = w[k].o /\ w'[k].inc = w[k].inc
              /\ \/ w'[k].pc \notin {"children", "workload"}
                 \/ w[k].pc \in {"children", "workload"}
  PROVE  ActsInv'
<1>1. ASSUME NEW o \in Objs
      PROVE  /\ obj[o].inc \in Nat /\ obj'[o].inc \in Nat /\ cObj[o].inc \in Nat
             /\ KindOf[o] \in Controllers
             /\ workload[o].owner \in Nat /\ workload'[o].owner \in Nat
  BY ConstantTypes DEF TypeInv, TypeOK, Object, Workload
<1>2. ASSUME NEW k \in Controllers
      PROVE  w[k].o \in Objs /\ w'[k].o \in Objs /\ w[k].inc \in Nat /\ w'[k].inc \in Nat
  BY DEF TypeInv, TypeOK, Worker
<1>3. ASSUME NEW o \in Objs, Acts(o)'
      PROVE  Acts(o)
  BY <1>1, <1>2, <1>3 DEF Acts, Owns, Acting, Absent
<1>4. CachePast'
  BY <1>1 DEF ActsInv, CachePast, Exists
<1>5. IncsPast'
  <2>1. ASSUME NEW o \in Objs
        PROVE  workload'[o].owner <= obj'[o].inc /\ (Exists(o)' => obj'[o].inc > 0)
    BY <1>1, <1>2 DEF ActsInv, IncsPast, Absent
  <2>2. ASSUME NEW k \in Controllers PROVE w'[k].inc <= obj'[w'[k].o].inc
    BY <1>1, <1>2 DEF ActsInv, IncsPast
  <2> QED
    BY <2>1, <2>2 DEF IncsPast
<1>6. Seen'
  BY <1>3 DEF ActsInv, Seen
<1>7. Alone'
  BY <1>3 DEF ActsInv, Alone, Twins
<1> QED
  BY <1>4, <1>5, <1>6, <1>7 DEF ActsInv

LEMMA InitActs == Init => ActsInv
<1> SUFFICES ASSUME Init PROVE ActsInv
  OBVIOUS
<1>1. TypeInv
  BY InitTypes
<1>2. \A o \in Objs : ~Acts(o)
  <2>1. ASSUME NEW o \in Objs PROVE ~Acts(o)
    <3>1. KindOf[o] \in Controllers /\ w[KindOf[o]].pc = "idle"
      BY ConstantTypes DEF Init, Idle
    <3>2. workload[o].owner = Absent
      BY DEF Init, NoWorkload
    <3> QED
      BY <3>1, <3>2 DEF Acts, Owns, Acting
  <2> QED
    BY <2>1
<1>3. \A o \in Objs : obj[o].inc \in Nat /\ cObj[o] = obj[o] /\ workload[o].owner = 0
  BY <1>1 DEF Init, NoWorkload, Absent, TypeInv, TypeOK, Object
<1>4. \A k \in Controllers : w[k].inc = 0 /\ w[k].o \in Objs
  BY <1>1 DEF Init, Idle, TypeInv, TypeOK, Worker
<1>5. \A o \in Objs : Exists(o) => obj[o].inc > 0
  BY DEF Init, Exists
<1> QED
  BY <1>2, <1>3, <1>4, <1>5 DEF ActsInv, CachePast, IncsPast, Seen, Alone, Exists

LEMMA CreateActs ==
  ASSUME TypeInv, TypeInv', ActsInv, NEW o \in Objs, Create(o)
  PROVE  ActsInv'
<1>1. /\ obj'[o].inc = obj[o].inc + 1 /\ obj'[o].phase = "live"
      /\ \A d \in Objs \ {o} : obj'[d] = obj[d]
  BY DEF Create, TypeInv, TypeOK, Object
<1>2. UNCHANGED <<cObj, workload, w>>
  BY DEF Create, caches
<1>3. ASSUME NEW d \in Objs
      PROVE  /\ obj[d].inc \in Nat /\ cObj[d].inc \in Nat /\ KindOf[d] \in Controllers
             /\ workload[d].owner \in Nat
  BY ConstantTypes DEF TypeInv, TypeOK, Object, Workload
<1>4. ASSUME NEW k \in Controllers
      PROVE  w[k].o \in Objs /\ w[k].inc \in Nat
  BY DEF TypeInv, TypeOK, Worker
<1>5. CachePast'
  BY <1>1, <1>2, <1>3 DEF ActsInv, CachePast, Exists
<1>6. IncsPast'
  BY <1>1, <1>2, <1>3, <1>4 DEF ActsInv, IncsPast, Exists
<1>7. ~Acts(o)'
  BY <1>1, <1>2, <1>3, <1>4 DEF ActsInv, IncsPast, Acts, Owns, Acting
<1>8. ASSUME NEW d \in Objs \ {o}
      PROVE  Acts(d)' <=> Acts(d)
  BY <1>1, <1>2 DEF Acts, Owns, Acting
<1>9. Seen'
  BY <1>1, <1>2, <1>7, <1>8 DEF ActsInv, Seen
<1>10. Alone'
  <2>1. \A d \in Objs \ {o} : Exists(d)' <=> Exists(d)
    BY <1>1 DEF Exists
  <2> QED
    BY <1>7, <1>8, <2>1 DEF ActsInv, Alone, Twins
<1> QED
  BY <1>5, <1>6, <1>9, <1>10 DEF ActsInv

LEMMA StartActs ==
  ASSUME TypeInv, TypeInv', ActsInv, NEW o \in Objs, Start(o)
  PROVE  ActsInv'
<1> DEFINE k == KindOf[o]
           p == ProjectOf[o]
<1>1. UNCHANGED <<obj, cObj, workload>>
  BY DEF Start, api, caches
<1>2. CASE UNCHANGED w
  BY <1>1, <1>2, ActsFrame DEF Absent, Exists
<1>3. CASE ~UNCHANGED w
  <2>1. /\ cObj[o].phase = "live" /\ w'[k] = Started(k, o) /\ k \in Controllers
        /\ \A j \in Controllers \ {k} : w'[j] = w[j]
    BY <1>3, StartTypes, ConstantTypes
  <2>2. w'[k].pc \in {"children", "workload"} =>
          w'[k].inc = cObj[o].inc /\ ~(Cardinality(Listed(k, p)) > 1)
    BY <2>1, StartedType
  <2>3. w'[k].o = o /\ w'[k].inc \in {0, cObj[o].inc}
    BY <2>1, StartedType
  <2>4. ASSUME NEW d \in Objs
        PROVE  /\ obj[d].inc \in Nat /\ cObj[d].inc \in Nat /\ KindOf[d] \in Controllers
    BY ConstantTypes DEF TypeInv, TypeOK, Object
  <2>5. w[k].pc = "idle"
    BY DEF Start
  <2>6. ASSUME NEW d \in Objs \ {o}, Acts(d)'
        PROVE  Acts(d)
    BY <1>1, <2>1, <2>3, <2>4, <2>6 DEF Acts, Owns, Acting
  <2>7. ASSUME NEW d \in Objs, Acts(d), Exists(d), Twins(d, o)
        PROVE  Cardinality(Listed(k, p)) > 1
    <3>1. cObj[d].phase /= "absent"
      BY <2>7 DEF ActsInv, Seen, CachePast
    <3>2. d \in Listed(k, p) /\ o \in Listed(k, p) /\ d /= o
      BY <2>1, <2>7, <3>1 DEF Listed, Twins
    <3> QED
      BY <3>2, TwoListed
  <2>8. Acting(o)' => cObj[o].inc = obj[o].inc
    BY <1>1, <2>2 DEF Acting
  <2>9. CachePast'
    BY <1>1 DEF ActsInv, CachePast, Exists
  <2>10. IncsPast'
    BY <1>1, <2>1, <2>3, <2>4 DEF ActsInv, IncsPast, CachePast, Exists
  <2>11. Owns(o)' = Owns(o)
    BY <1>1 DEF Owns
  <2>12. Seen'
    BY <1>1, <2>6, <2>8, <2>11 DEF ActsInv, Seen, Acts
  <2>13. Alone'
    <3>1. ASSUME NEW d \in Objs, Twins(d, o), Exists(d), Exists(o), Acts(d)', Acts(o)'
          PROVE  FALSE
      <4>1. Acts(d) /\ d /= o
        BY <2>6, <3>1 DEF Twins
      <4>2. CASE Owns(o)'
        BY <2>11, <3>1, <4>1, <4>2 DEF ActsInv, Alone, Acts
      <4>3. CASE Acting(o)'
        BY <2>2, <2>7, <3>1, <4>1, <4>3 DEF Acting
      <4> QED
        BY <3>1, <4>2, <4>3 DEF Acts
    <3>2. ASSUME NEW a \in Objs, NEW b \in Objs, Twins(a, b), Exists(a), Exists(b)
          PROVE  ~(Acts(a)' /\ Acts(b)')
      <4>1. CASE a = o
        BY <3>1, <3>2, <4>1 DEF Twins
      <4>2. CASE b = o
        BY <3>1, <3>2, <4>2 DEF Twins
      <4>3. CASE a /= o /\ b /= o
        BY <2>6, <3>2, <4>3 DEF ActsInv, Alone
      <4> QED
        BY <4>1, <4>2, <4>3
    <3> QED
      BY <1>1, <3>2 DEF Alone, Exists, Twins
  <2> QED
    BY <2>9, <2>10, <2>12, <2>13 DEF ActsInv
<1> QED
  BY <1>2, <1>3

LEMMA ControllerActs ==
  ASSUME TypeInv, TypeInv', ActsInv, NEW k \in Controllers,
         Drop(k) \/ EnsureChildren(k) \/ EnsureWorkload(k) \/ UpdateStatus(k)
  PROVE  ActsInv'
<1> DEFINE o == w[k].o
<1>1. o \in Objs /\ KindOf[o] = k /\ w[k] \in Worker
  BY WorkerSteps
<1>2. UNCHANGED cObj
  BY DEF Drop, EnsureChildren, EnsureWorkload, UpdateStatus, caches
<1>3. ASSUME NEW d \in Objs
      PROVE  obj'[d].inc = obj[d].inc /\ (Exists(d)' => Exists(d))
  <2>1. UNCHANGED obj \/ obj' = [obj EXCEPT ![o].cond = Verdict(k)]
    BY DEF Drop, EnsureChildren, EnsureWorkload, UpdateStatus
  <2>2. obj \in [Objs -> Object] /\ obj[o] \in Object
    BY <1>1 DEF TypeInv, TypeOK
  <2>3. CASE d = o
    BY <2>1, <2>2, <2>3 DEF Object, Exists
  <2>4. CASE d /= o
    BY <2>1, <2>2, <2>4 DEF Exists
  <2> QED
    BY <2>3, <2>4
<1>4. ASSUME NEW d \in Objs
      PROVE  \/ workload'[d].owner = workload[d].owner \/ workload'[d].owner = Absent
             \/ /\ w[KindOf[d]].o = d /\ w[KindOf[d]].pc = "workload"
                /\ workload'[d].owner = w[KindOf[d]].inc
  <2>1. \/ UNCHANGED workload \/ workload' = [workload EXCEPT ![o] = NoWorkload]
        \/ /\ w[k].pc = "workload"
           /\ workload' = [workload EXCEPT ![o] =
                [owner |-> w[k].inc, tmpl |-> Stamped(k), rolled |-> FALSE]]
    BY DEF Drop, DropDeployment, EnsureChildren, EnsureWorkload, UpdateStatus
  <2> QED
    BY <1>1, <2>1 DEF TypeInv, TypeOK, NoWorkload
<1>5. ASSUME NEW j \in Controllers
      PROVE  \/ w'[j].inc = 0 /\ w'[j].pc \notin {"children", "workload"}
             \/ /\ w'[j].o = w[j].o /\ w'[j].inc = w[j].inc
                /\ \/ w'[j].pc \notin {"children", "workload"}
                   \/ w[j].pc \in {"children", "workload"}
  BY WorkerStepTypes DEF WorkerStep
<1> QED
  BY <1>2, <1>3, <1>4, <1>5, ActsFrame

\* The steps that no worker takes, Create apart.
LEMMA OtherActs ==
  ASSUME TypeInv, TypeInv', ActsInv,
         \/ \E o \in Objs : Delete(o) \/ Rollout(o) \/ FinishDelete(o) \/ CollectGarbage(o)
         \/ \E p \in Projects : ChangeProject(p) \/ ProjectReady(p) \/ ProjectNotReady(p)
         \/ EditSecret \/ RestartOperator \/ \E e \in Events : Deliver(e)
         \/ UNCHANGED vars
  PROVE  ActsInv'
<1> USE DEF Exists
<1>1. ASSUME NEW o \in Objs, Delete(o) \/ FinishDelete(o)
      PROVE  ActsInv'
  <2>1. UNCHANGED <<cObj, workload, w>>
    BY <1>1 DEF Delete, FinishDelete, caches
  <2>2. PICK phase \in {"deleting", "absent"} :
          obj[o].phase /= "absent" /\ obj' = [obj EXCEPT ![o].phase = phase]
    BY <1>1 DEF Delete, FinishDelete
  <2>3. \A d \in Objs : obj'[d].inc = obj[d].inc /\ (Exists(d)' => Exists(d))
    BY <2>2 DEF TypeInv, TypeOK, Object
  <2> QED
    BY <2>1, <2>3, ActsFrame
<1>2. ASSUME NEW o \in Objs, Rollout(o) \/ CollectGarbage(o)
      PROVE  ActsInv'
  <2>1. UNCHANGED <<obj, cObj, w>>
    BY <1>2 DEF Rollout, CollectGarbage, caches
  <2>2. \/ UNCHANGED workload \/ workload' = [workload EXCEPT ![o] = NoWorkload]
        \/ workload' = [workload EXCEPT ![o].rolled = TRUE]
    BY <1>2 DEF Rollout, CollectGarbage
  <2>3. ASSUME NEW d \in Objs
        PROVE  workload'[d].owner = workload[d].owner \/ workload'[d].owner = Absent
    <3>1. workload \in [Objs -> Workload] /\ workload[o] \in Workload
      BY DEF TypeInv, TypeOK
    <3>2. CASE d = o
      BY <2>2, <3>1, <3>2 DEF NoWorkload, Workload
    <3>3. CASE d /= o
      BY <2>2, <3>1, <3>3
    <3> QED
      BY <3>2, <3>3
  <2> QED
    BY <2>1, <2>3, ActsFrame
<1>3. CASE \/ \E p \in Projects : ChangeProject(p) \/ ProjectReady(p) \/ ProjectNotReady(p)
           \/ EditSecret \/ UNCHANGED vars
  <2>1. UNCHANGED <<obj, cObj, workload, w>>
    BY <1>3 DEF ChangeProject, ProjectReady, ProjectNotReady, EditSecret, caches,
         vars, api
  <2> QED
    BY <2>1, ActsFrame
<1>4. CASE RestartOperator
  <2>1. UNCHANGED <<obj, workload>> /\ cObj' = obj
    BY <1>4 DEF RestartOperator, api
  <2>2. \A k \in Controllers : /\ w'[k].o = w[k].o /\ w'[k].inc = w[k].inc
                               /\ w'[k].pc \notin {"children", "workload"}
    BY <1>4 DEF RestartOperator, TypeInv, TypeOK, Worker
  <2> QED
    BY <2>1, <2>2, ActsFrame
<1>5. ASSUME NEW e \in Events, Deliver(e)
      PROVE  ActsInv'
  <2>1. UNCHANGED <<obj, workload, w>>
    BY <1>5 DEF Deliver, api
  <2>2. \A d \in Objs : cObj'[d] = cObj[d] \/ cObj'[d] = obj'[d]
    BY <1>5, <2>1 DEF Deliver
  <2> QED
    BY <2>1, <2>2, ActsFrame
<1> QED
  BY <1>1, <1>2, <1>3, <1>4, <1>5

LEMMA NextActs == TypeInv /\ ActsInv /\ [Next]_vars => ActsInv'
<1> SUFFICES ASSUME TypeInv, ActsInv, [Next]_vars PROVE ActsInv'
  OBVIOUS
<1>1. TypeInv'
  BY NextTypes
<1>2. ASSUME NEW k \in Controllers, Controller(k) PROVE ActsInv'
  BY <1>1, <1>2, StartActs, ControllerActs DEF Controller
<1>3. CASE Cluster
  BY <1>1, <1>3, OtherActs DEF Cluster
<1>4. CASE Environment
  BY <1>1, <1>4, CreateActs, OtherActs DEF Environment
<1>5. CASE UNCHANGED vars
  BY <1>1, <1>5, OtherActs
<1> QED
  BY <1>2, <1>3, <1>4, <1>5 DEF Next

LEMMA ActsInvariant == Spec => [](TypeInv /\ ActsInv)
BY InitTypes, NextTypes, InitActs, NextActs, PTL DEF Spec

\* Of two components of one kind in one Project no more than one has a workload,
\* however far behind the caches are that each of them is refused on.
THEOREM OnlyOneActs == Spec => []AtMostOneActs
<1>1. ActsInv => AtMostOneActs
  BY DEF ActsInv, Alone, Acts, Twins, Exists, AtMostOneActs
<1> QED
  BY <1>1, ActsInvariant, PTL

-----------------------------------------------------------------------------
(***************************************************************************)
(* NoLostWakeup.  The invariant says, for each component that is in no     *)
(* queue, how far its reconciliation has got in terms of the caches only:  *)
(* an event that makes this untrue enqueues the component.  What has been  *)
(* written is in the cache or its event is on the way.                     *)
(***************************************************************************)

FreshCaches ==
  /\ \A o \in Objs : /\ <<"obj", KindOf[o]>> \notin pend => cObj[o] = obj[o]
                     /\ <<"config", o>> \notin pend => cConfig[o] = config[o]
                     /\ <<"workload", o>> \notin pend => cWorkload[o] = workload[o]
  /\ <<"project">> \notin pend => cProj = proj
  /\ <<"secret">> \notin pend => cSecret = secret

\* In the caches, o has what Start asks for.
Admitted(o) ==
  /\ cObj[o].phase = "live" /\ cProj[ProjectOf[o]].phase = "live"
  /\ FindsDependencies(KindOf[o], ProjectOf[o])

FoundBy(o) == Found(KindOf[o], ProjectOf[o])

\* The ConfigMap and the workload are as incarnation inc of o wants them, which
\* has found the components in refs.
ConfigDone(o, inc, refs) ==
  HasConfig(KindOf[o]) =>
    <<"config", o>> \in pend \/ cConfig[o] = [owner |-> inc, refs |-> refs]

WorkloadDone(o, inc, refs) ==
  \/ <<"workload", o>> \in pend
  \/ /\ workload[o].owner = inc
     /\ workload[o].tmpl = [env    |-> IF HasConfig(KindOf[o]) THEN {} ELSE refs,
                            config |-> cConfig[o].refs, secret |-> cSecret]

\* The reconciliation of o is up to date with the caches.
SoFar(o) ==
  LET x == w[KindOf[o]]
  IN  /\ x.pc \in {"children", "workload", "judge"} =>
           Admitted(o) /\ x.inc = cObj[o].inc /\ x.refs = FoundBy(o)
      /\ x.pc \in {"workload", "judge"} => ConfigDone(o, x.inc, x.refs)
      /\ x.pc = "judge" => WorkloadDone(o, x.inc, x.refs)
      /\ x.pc = "status" => x.cond /= "Ready"

\* So was the last one.
Settled(o) ==
  /\ cObj[o].cond = "Ready" /\ Admitted(o)
  /\ ConfigDone(o, cObj[o].inc, FoundBy(o))
  /\ WorkloadDone(o, cObj[o].inc, FoundBy(o))
  /\ <<"workload", o>> \in pend \/ workload[o].rolled

Awake(o) ==
  o \notin q =>
    /\ Busy(o) => SoFar(o)
    /\ (Live(o) /\ cObj[o] = obj[o] /\ ~Busy(o)) => Settled(o)

WakeInv == FreshCaches /\ \A o \in Objs : Awake(o)

\* Every controller watches the kinds that it looks up.
LEMMA WatchesWhatItReads ==
  ASSUME NEW k \in Kinds
  PROVE  Requires(k) \cup Optional(k) \subseteq Related(k)
<1>1. k \in {"Auth", "Rest", "Meta", "Realtime", "Supavisor", "Storage", "Studio",
             "EdgeRuntime", "Envoy", "Analytics"}
  BY DEF Kinds, Kind
<1>2. CASE k \in {"Auth", "Rest", "Meta", "Realtime", "Supavisor", "Analytics"}
  <2>1. Kind[k] \in {Auth, Supavisor, Analytics}
    BY <1>2 DEF Kind, Rest, Meta, Realtime
  <2>2. Auth.requires = {} /\ Auth.optional = {}
    BY DEF Auth
  <2>3. Supavisor.requires = {} /\ Supavisor.optional = {}
    BY DEF Supavisor, Auth
  <2>4. Analytics.requires = {} /\ Analytics.optional = {}
    BY DEF Analytics, Auth
  <2> QED
    BY <2>1, <2>2, <2>3, <2>4 DEF Requires, Optional
<1>3. CASE k = "Storage"
  BY <1>3 DEF Requires, Optional, Related, Kind, Storage
<1>4. CASE k = "Studio"
  BY <1>4 DEF Requires, Optional, Related, Kind, Studio
<1>5. CASE k = "EdgeRuntime"
  BY <1>5 DEF Requires, Optional, Related, Kind, EdgeRuntime
<1>6. CASE k = "Envoy"
  BY <1>6 DEF Requires, Optional, Related, Kind, Envoy
<1> QED
  BY <1>1, <1>2, <1>3, <1>4, <1>5, <1>6

\* Nothing about the component, its Project and what it looks up changes.
LEMMA SameCaches ==
  ASSUME NEW o \in Objs,
         cObj'[o] = cObj[o], cProj'[ProjectOf[o]] = cProj[ProjectOf[o]],
         \A d \in Objs : (/\ ProjectOf[d] = ProjectOf[o]
                          /\ KindOf[d] \in Requires(KindOf[o]) \cup Optional(KindOf[o]))
                         => cObj'[d] = cObj[d]
  PROVE  (Admitted(o)' <=> Admitted(o)) /\ FoundBy(o)' = FoundBy(o)
<1> DEFINE k == KindOf[o]
           p == ProjectOf[o]
           kinds == Requires(k) \cup Optional(k)
<1>1. ASSUME NEW dk \in kinds PROVE Listed(dk, p)' = Listed(dk, p)
  BY DEF Listed
<1>2. FindsDependencies(k, p)' <=> FindsDependencies(k, p)
  BY <1>1 DEF FindsDependencies
<1>3. ASSUME NEW d \in Objs, NEW dk \in kinds, d \in Listed(dk, p)
      PROVE  cObj'[d] = cObj[d]
  BY <1>3 DEF Listed
<1>4. FoundBy(o)' = FoundBy(o)
  BY <1>1, <1>3 DEF FoundBy, Found
<1> QED
  BY <1>2, <1>4 DEF Admitted

-----------------------------------------------------------------------------
(***************************************************************************)
(* Every change in the API server is announced by an event.                *)
(***************************************************************************)

Announced ==
  /\ UNCHANGED caches /\ pend \subseteq pend'
  /\ \A o \in Objs : /\ obj'[o] = obj[o] \/ <<"obj", KindOf[o]>> \in pend'
                     /\ config'[o] = config[o] \/ <<"config", o>> \in pend'
                     /\ workload'[o] = workload[o] \/ <<"workload", o>> \in pend'
  /\ proj' = proj \/ <<"project">> \in pend'
  /\ secret' = secret \/ <<"secret">> \in pend'

LEMMA UserAnnounces ==
  ASSUME TypeInv,
         \/ \E o \in Objs : Create(o) \/ Delete(o)
         \/ \E p \in Projects : ChangeProject(p) \/ ProjectReady(p) \/ ProjectNotReady(p)
         \/ EditSecret \/ UNCHANGED vars
  PROVE  Announced
<1>1. ASSUME NEW o \in Objs, Create(o) \/ Delete(o)
      PROVE  Announced
  <2>1. pend' = pend \cup {<<"obj", KindOf[o]>>} /\ \A d \in Objs \ {o} : obj'[d] = obj[d]
    BY <1>1 DEF Create, Delete, ObjChanged, Changed, TypeInv, TypeOK
  <2> QED
    BY <1>1, <2>1 DEF Create, Delete, Announced, caches
<1>2. CASE \E p \in Projects : ChangeProject(p) \/ ProjectReady(p) \/ ProjectNotReady(p)
  BY <1>2 DEF ChangeProject, ProjectReady, ProjectNotReady, Changed, Announced, caches
<1>3. CASE EditSecret \/ UNCHANGED vars
  BY <1>3 DEF EditSecret, Changed, Announced, vars, api, caches
<1> QED
  BY <1>1, <1>2, <1>3

LEMMA ClusterAnnounces ==
  ASSUME TypeInv, NEW o \in Objs, Rollout(o) \/ FinishDelete(o) \/ CollectGarbage(o)
  PROVE  Announced
<1>1. CASE Rollout(o)
  <2>1. pend' = pend \cup {<<"workload", o>>}
        /\ \A d \in Objs \ {o} : workload'[d] = workload[d]
    BY <1>1 DEF Rollout, Changed, TypeInv, TypeOK
  <2> QED
    BY <1>1, <2>1 DEF Rollout, Announced, caches
<1>2. CASE FinishDelete(o)
  <2>1. pend' = pend \cup {<<"obj", KindOf[o]>>} /\ \A d \in Objs \ {o} : obj'[d] = obj[d]
    BY <1>2 DEF FinishDelete, ObjChanged, Changed, TypeInv, TypeOK
  <2> QED
    BY <1>2, <2>1 DEF FinishDelete, Announced, caches
<1>3. CASE CollectGarbage(o)
  <2>1. \/ /\ pend' = pend \cup {<<"workload", o>>} /\ UNCHANGED config
           /\ \A d \in Objs \ {o} : workload'[d] = workload[d]
        \/ /\ pend' = pend \cup {<<"config", o>>} /\ UNCHANGED workload
           /\ \A d \in Objs \ {o} : config'[d] = config[d]
    BY <1>3 DEF CollectGarbage, Changed, TypeInv, TypeOK
  <2>2. UNCHANGED <<obj, proj, secret, caches>>
    BY <1>3 DEF CollectGarbage
  <2> QED
    BY <2>1, <2>2 DEF Announced, caches
<1> QED
  BY <1>1, <1>2, <1>3

LEMMA ControllerAnnounces ==
  ASSUME TypeInv, NEW k \in Controllers,
         Drop(k) \/ EnsureChildren(k) \/ EnsureWorkload(k) \/ UpdateStatus(k)
  PROVE  Announced
<1> DEFINE o == w[k].o
<1>1. o \in Objs /\ KindOf[o] = k
  BY WorkerSteps
<1>2. \/ UNCHANGED <<obj, config, workload, pend>>
      \/ /\ UNCHANGED <<obj, config>> /\ Changed(<<"workload", o>>)
         /\ \A d \in Objs \ {o} : workload'[d] = workload[d]
      \/ /\ UNCHANGED <<obj, workload>> /\ Changed(<<"config", o>>)
         /\ \A d \in Objs \ {o} : config'[d] = config[d]
      \/ /\ UNCHANGED <<config, workload>> /\ ObjChanged(o)
         /\ \A d \in Objs \ {o} : obj'[d] = obj[d]
  <2>1. CASE Drop(k)
    BY <2>1 DEF Drop, DropDeployment, TypeInv, TypeOK
  <2>2. CASE EnsureChildren(k)
    BY <2>2 DEF EnsureChildren, TypeInv, TypeOK
  <2>3. CASE EnsureWorkload(k)
    BY <2>3 DEF EnsureWorkload, TypeInv, TypeOK
  <2>4. CASE UpdateStatus(k)
    BY <2>4 DEF UpdateStatus, TypeInv, TypeOK
  <2> QED
    BY <2>1, <2>2, <2>3, <2>4
<1>3. UNCHANGED <<proj, secret, caches>>
  BY DEF Drop, EnsureChildren, EnsureWorkload, UpdateStatus, caches
<1> QED
  BY <1>1, <1>2, <1>3 DEF Announced, Changed, ObjChanged, caches

LEMMA AnnouncedFresh ==
  ASSUME FreshCaches, Announced
  PROVE  FreshCaches'
BY DEF Announced, FreshCaches, caches

\* What is neither the component's own worker nor an informer leaves it as it is.
LEMMA Undisturbed ==
  ASSUME NEW o \in Objs, Awake(o), Announced,
         o \in q => o \in q',
         (Live(o)' /\ cObj[o] = obj'[o]) => obj'[o] = obj[o],
         Busy(o)' <=> Busy(o),
         Busy(o) => w'[KindOf[o]] = w[KindOf[o]]
  PROVE  Awake(o)'
<1>1. cObj' = cObj /\ cProj' = cProj /\ cConfig' = cConfig /\ cSecret' = cSecret
  BY DEF Announced, caches
<1>2. (Admitted(o)' <=> Admitted(o)) /\ FoundBy(o)' = FoundBy(o)
  BY <1>1, SameCaches
<1>3. \A inc, refs : ConfigDone(o, inc, refs) => ConfigDone(o, inc, refs)'
  BY <1>1 DEF ConfigDone, Announced
<1>4. \A inc, refs : WorkloadDone(o, inc, refs) => WorkloadDone(o, inc, refs)'
  BY <1>1 DEF WorkloadDone, Announced
<1>5. CASE Busy(o)
  BY <1>1, <1>2, <1>3, <1>4, <1>5 DEF Awake, SoFar
<1>6. CASE ~Busy(o)
  <2>1. ASSUME Settled(o) PROVE Settled(o)'
    BY <1>1, <1>2, <1>3, <1>4, <2>1 DEF Settled, Announced
  <2> QED
    BY <1>1, <1>6, <2>1 DEF Awake, Live
<1> QED
  BY <1>5, <1>6

-----------------------------------------------------------------------------
(***************************************************************************)
(* The steps that disturb a component.                                     *)
(***************************************************************************)

\* An event that does not enqueue o tells it nothing.
LEMMA Unwoken ==
  ASSUME TypeInv, NEW o \in Objs, NEW e \in Events, Deliver(e), o \notin q'
  PROVE  /\ cObj'[o] = cObj[o] /\ cConfig'[o] = cConfig[o]
         /\ e /= <<"workload", o>> /\ e /= <<"config", o>>
         /\ cObj[o].phase /= "absent" =>
              /\ cProj'[ProjectOf[o]] = cProj[ProjectOf[o]] /\ cSecret' = cSecret
              /\ \A d \in Objs : (/\ ProjectOf[d] = ProjectOf[o]
                                  /\ KindOf[d] \in Related(KindOf[o]))
                                 => cObj'[d] = cObj[d]
<1>1. o \notin Woken(e) /\ o \notin q
  BY DEF Deliver
<1>2. \A d \in Objs : cObj'[d] = IF e = <<"obj", KindOf[d]>> THEN obj[d] ELSE cObj[d]
  BY DEF Deliver
<1>3. CASE \E k \in Controllers : e = <<"obj", k>>
  <2>1. PICK k \in Controllers : e = <<"obj", k>>
    BY <1>3
  <2>2. ~(KindOf[o] = k /\ cObj[o] /= obj[o])
    BY <1>1, <2>1 DEF Woken
  <2>3. cObj[o].phase /= "absent" =>
          \A d \in Objs : (/\ KindOf[d] = k /\ k \in Related(KindOf[o])
                           /\ ProjectOf[d] = ProjectOf[o]) => cObj[d] = obj[d]
    BY <1>1, <2>1 DEF Woken
  <2>4. cConfig'[o] = cConfig[o] /\ cProj' = cProj /\ cSecret' = cSecret
    BY <2>1 DEF Deliver
  <2> QED
    BY <1>2, <2>1, <2>2, <2>3, <2>4
<1>4. CASE e = <<"project">>
  <2>1. cObj[o].phase /= "absent" => cProj[ProjectOf[o]] = proj[ProjectOf[o]]
    BY <1>1, <1>4 DEF Woken
  <2>2. cConfig'[o] = cConfig[o] /\ cProj' = proj /\ cSecret' = cSecret
    BY <1>4 DEF Deliver
  <2> QED
    BY <1>2, <1>4, <2>1, <2>2
<1>5. CASE e = <<"secret">>
  <2>1. cObj[o].phase = "absent"
    BY <1>1, <1>5 DEF Woken
  <2>2. cConfig'[o] = cConfig[o]
    BY <1>5 DEF Deliver
  <2> QED
    BY <1>2, <1>5, <2>1, <2>2
<1>6. CASE \E d \in Objs : e \in {<<"config", d>>, <<"workload", d>>}
  <2>1. PICK d \in Objs : e \in {<<"config", d>>, <<"workload", d>>}
    BY <1>6
  <2>2. d /= o
    BY <1>1, <2>1 DEF Woken
  <2>3. cConfig'[o] = cConfig[o] /\ cProj' = cProj /\ cSecret' = cSecret
    BY <2>1, <2>2 DEF Deliver
  <2> QED
    BY <1>2, <2>1, <2>2, <2>3
<1> QED
  BY <1>3, <1>4, <1>5, <1>6 DEF Events

LEMMA DeliverWakes ==
  ASSUME TypeInv, WakeInv, NEW e \in Events, Deliver(e)
  PROVE  WakeInv'
<1>1. FreshCaches'
  <2>1. ASSUME NEW o \in Objs
        PROVE  /\ <<"obj", KindOf[o]>> \notin pend' => cObj'[o] = obj'[o]
               /\ <<"config", o>> \notin pend' => cConfig'[o] = config'[o]
               /\ <<"workload", o>> \notin pend' => cWorkload'[o] = workload'[o]
    BY DEF Deliver, WakeInv, FreshCaches, api
  <2>2. /\ <<"project">> \notin pend' => cProj' = proj'
        /\ <<"secret">> \notin pend' => cSecret' = secret'
    BY DEF Deliver, WakeInv, FreshCaches, api
  <2> QED
    BY <2>1, <2>2 DEF FreshCaches
<1>2. ASSUME NEW o \in Objs, o \notin q'
      PROVE  /\ Busy(o)' => SoFar(o)'
             /\ (Live(o)' /\ cObj'[o] = obj'[o] /\ ~Busy(o)') => Settled(o)'
  <2>1. UNCHANGED <<obj, workload, w>> /\ o \notin q /\ Awake(o)
    BY <1>2 DEF Deliver, api, WakeInv
  <2>2. (Busy(o)' <=> Busy(o)) /\ (Live(o)' <=> Live(o)) /\ cObj'[o] = cObj[o]
    BY <1>2, <2>1, Unwoken DEF Busy, Live
  <2>3. cObj[o].phase /= "absent" => (Admitted(o)' <=> Admitted(o)) /\ FoundBy(o)' = FoundBy(o)
    <3>1. Requires(KindOf[o]) \cup Optional(KindOf[o]) \subseteq Related(KindOf[o])
      BY ConstantTypes, WatchesWhatItReads
    <3> QED
      BY <1>2, <3>1, Unwoken, SameCaches
  <2>4. \A inc, refs : ConfigDone(o, inc, refs) => ConfigDone(o, inc, refs)'
    <3>1. e /= <<"config", o>> /\ cConfig'[o] = cConfig[o]
      BY <1>2, Unwoken
    <3> QED
      BY <3>1 DEF ConfigDone, Deliver
  <2>5. cObj[o].phase /= "absent" =>
          \A inc, refs : WorkloadDone(o, inc, refs) => WorkloadDone(o, inc, refs)'
    <3>1. /\ e /= <<"workload", o>> /\ cConfig'[o] = cConfig[o]
          /\ cObj[o].phase /= "absent" => cSecret' = cSecret
      BY <1>2, Unwoken
    <3> QED
      BY <2>1, <3>1 DEF WorkloadDone, Deliver
  <2>6. ASSUME Busy(o) PROVE SoFar(o)'
    <3>1. SoFar(o)
      BY <2>1, <2>6 DEF Awake
    <3>2. Admitted(o) => cObj[o].phase /= "absent"
      BY DEF Admitted
    <3>3. CASE w[KindOf[o]].pc \in {"children", "workload", "judge"}
      BY <2>1, <2>2, <2>3, <2>4, <2>5, <3>1, <3>2, <3>3 DEF SoFar
    <3>4. CASE w[KindOf[o]].pc \notin {"children", "workload", "judge"}
      BY <2>1, <3>1, <3>4 DEF SoFar
    <3> QED
      BY <3>3, <3>4
  <2>7. ASSUME Live(o), cObj[o] = obj[o], ~Busy(o) PROVE Settled(o)'
    <3>1. Settled(o) /\ cObj[o].phase /= "absent"
      BY <2>1, <2>7 DEF Awake, Live
    <3>2. <<"workload", o>> \in pend => <<"workload", o>> \in pend'
      BY <1>2, Unwoken DEF Deliver
    <3> QED
      BY <2>1, <2>2, <2>3, <2>4, <2>5, <3>1, <3>2 DEF Settled
  <2> QED
    BY <2>1, <2>2, <2>6, <2>7
<1> QED
  BY <1>1, <1>2 DEF WakeInv, Awake

LEMMA RestartWakes ==
  ASSUME TypeInv, RestartOperator
  PROVE  WakeInv'
<1>1. FreshCaches'
  BY DEF RestartOperator, FreshCaches, api
<1>2. ASSUME NEW o \in Objs PROVE Awake(o)'
  <2>1. KindOf[o] \in Controllers /\ (Live(o)' => o \in q')
    BY ConstantTypes DEF RestartOperator, Live, api
  <2>2. w'[KindOf[o]].pc = "idle"
    BY <2>1 DEF RestartOperator, TypeInv, TypeOK, Worker
  <2> QED
    BY <2>1, <2>2 DEF Awake, Busy
<1> QED
  BY <1>1, <1>2 DEF WakeInv

\* What the user and the cluster do changes nothing in the caches.
LEMMA OthersWake ==
  ASSUME TypeInv, ActsInv, WakeInv,
         \/ \E o \in Objs : Create(o) \/ Delete(o)
         \/ \E o \in Objs : Rollout(o) \/ FinishDelete(o) \/ CollectGarbage(o)
         \/ \E p \in Projects : ChangeProject(p) \/ ProjectReady(p) \/ ProjectNotReady(p)
         \/ EditSecret \/ UNCHANGED vars
  PROVE  WakeInv'
<1>1. Announced
  BY UserAnnounces, ClusterAnnounces
<1>2. FreshCaches'
  BY <1>1, AnnouncedFresh DEF WakeInv
<1>3. UNCHANGED <<q, w>>
  BY DEF Create, Delete, Rollout, FinishDelete, CollectGarbage, ChangeProject,
       ProjectReady,
         ProjectNotReady, EditSecret, vars
<1>4. ASSUME NEW o \in Objs, Live(o)', cObj[o] = obj'[o]
      PROVE  obj'[o] = obj[o]
  <2>1. ASSUME NEW d \in Objs, Create(d) PROVE obj'[o] = obj[o]
    <3>1. obj'[d].inc = obj[d].inc + 1 /\ (o /= d => obj'[o] = obj[o])
      BY <2>1 DEF Create, TypeInv, TypeOK, Object
    <3>2. cObj[d].inc <= obj[d].inc /\ cObj[d].inc \in Nat /\ obj[d].inc \in Nat
      BY DEF ActsInv, CachePast, TypeInv, TypeOK, Object
    <3> QED
      BY <1>4, <3>1, <3>2
  <2>2. ASSUME NEW d \in Objs, Delete(d) \/ FinishDelete(d) PROVE obj'[o] = obj[o]
    <3>1. PICK phase \in {"deleting", "absent"} : obj' = [obj EXCEPT ![d].phase = phase]
      BY <2>2 DEF Delete, FinishDelete
    <3>2. o /= d
      BY <1>4, <3>1 DEF Live, TypeInv, TypeOK, Object
    <3> QED
      BY <3>1, <3>2 DEF TypeInv, TypeOK
  <2>3. \/ \E d \in Objs : Create(d) \/ Delete(d) \/ FinishDelete(d)
        \/ UNCHANGED obj
    BY DEF Rollout, CollectGarbage, ChangeProject, ProjectReady, ProjectNotReady,
         EditSecret,
           vars, api
  <2> QED
    BY <2>1, <2>2, <2>3
<1>5. ASSUME NEW o \in Objs PROVE Awake(o)'
  BY <1>1, <1>3, <1>4, Undisturbed DEF WakeInv, Busy
<1> QED
  BY <1>2, <1>5 DEF WakeInv

LEMMA StartWakes ==
  ASSUME TypeInv, TypeInv', WakeInv, NEW o \in Objs, Start(o)
  PROVE  WakeInv'
<1> DEFINE k == KindOf[o]
           x == Started(k, o)
<1>1. /\ UNCHANGED <<api, caches, pend>> /\ w[k].pc = "idle" /\ q' = q \ {o}
      /\ k \in Controllers /\ Announced
  BY ConstantTypes DEF Start, Announced, api, caches
<1>2. FreshCaches'
  BY <1>1, AnnouncedFresh DEF WakeInv
<1>3. ASSUME NEW d \in Objs, d /= o PROVE Awake(d)'
  <2>1. KindOf[d] \in Controllers /\ (d \in q => d \in q') /\ obj'[d] = obj[d]
    BY <1>1, <1>3, ConstantTypes DEF api
  <2>2. w'[KindOf[d]] = w[KindOf[d]] \/ (KindOf[d] = k /\ w'[k].o = o)
    BY <1>1, <2>1, StartTypes, StartedType
  <2>3. (Busy(d)' <=> Busy(d)) /\ (Busy(d) => w'[KindOf[d]] = w[KindOf[d]])
    BY <1>1, <1>3, <2>2 DEF Busy
  <2> QED
    BY <1>1, <2>1, <2>3, Undisturbed DEF WakeInv
<1>4. Awake(o)'
  <2>1. CASE cObj[o].phase /= "live"
    <3>1. UNCHANGED w
      BY <2>1 DEF Start
    <3> QED
      BY <1>1, <2>1, <3>1 DEF Awake, Busy, Live, api, caches
  <2>2. CASE cObj[o].phase = "live"
    <3>1. w'[k] = x
      BY <1>1, <2>2 DEF Start, TypeInv, TypeOK
    <3>2. (Admitted(o)' <=> Admitted(o)) /\ FoundBy(o)' = FoundBy(o)
      BY <1>1, SameCaches DEF caches
    <3>3. /\ x.o = o
          /\ \/ x.pc = "status" /\ x.cond /= "Ready"
             \/ x.pc = "drop"
             \/ /\ x.pc = IF HasConfig(k) THEN "children" ELSE "workload"
                /\ x.inc = cObj[o].inc /\ x.refs = FoundBy(o) /\ Admitted(o)
      BY <2>2, StartedType DEF Admitted, FoundBy
    <3> HIDE DEF x
    <3>4. SoFar(o)'
      <4>1. UNCHANGED cObj
        BY <1>1 DEF caches
      <4> QED
        BY <3>1, <3>2, <3>3, <4>1 DEF SoFar, ConfigDone
    <3>5. Busy(o)'
      BY <3>1, <3>3 DEF Busy
    <3> QED
      BY <3>4, <3>5 DEF Awake
  <2> QED
    BY <2>1, <2>2
<1> QED
  BY <1>2, <1>3, <1>4 DEF WakeInv

\* The component of the worker that takes a step, if it asks for no other one.
LEMMA ChildrenWake ==
  ASSUME TypeInv, WakeInv, NEW k \in Controllers, NEW o, w[k].o = o,
         EnsureChildren(k), o \notin q'
  PROVE  Busy(o)' /\ SoFar(o)'
<1>1. o \in Objs /\ KindOf[o] = k /\ o \notin q /\ w[k].pc = "children"
  BY WorkerSteps DEF EnsureChildren
<1>2. SoFar(o)
  BY <1>1 DEF WakeInv, Awake, Busy
<1>3. PICK x \in Worker :
        /\ w'[k] = x /\ x.o = o
        /\ \/ x.pc = "status" /\ x.cond /= "Ready"
           \/ /\ x.pc = "workload" /\ x.inc = w[k].inc /\ x.refs = w[k].refs
              /\ \/ cConfig[o] = [owner |-> w[k].inc, refs |-> w[k].refs]
                 \/ <<"config", o>> \in pend'
  <2>1. CASE NotReady(k, "Waiting")
    <3> DEFINE x == Refused(o, "Waiting")
    <3>1. x \in Worker /\ x.o = o /\ x.pc = "status" /\ x.cond /= "Ready"
      BY <1>1, RefusedType DEF Reasons
    <3>2. w'[k] = x
      BY <2>1, WorkerSteps DEF TypeInv, TypeOK
    <3> HIDE DEF x
    <3> QED
      BY <3>1, <3>2
  <2>2. CASE Goto(k, "workload") /\ (\/ cConfig[o] = [owner |-> w[k].inc, refs |-> w[k].refs]
                                     \/ <<"config", o>> \in pend')
    <3>1. PICK x \in Worker : /\ w' = [w EXCEPT ![k] = x] /\ x.pc = "workload" /\ x.o = w[k].o
                              /\ x.inc = w[k].inc /\ x.refs = w[k].refs
      BY <2>2, WorkerSteps
    <3>2. w'[k] = x
      BY <3>1 DEF TypeInv, TypeOK
    <3> QED
      BY <2>2, <3>1, <3>2
  <2> QED
    BY <2>1, <2>2 DEF EnsureChildren, Changed
<1>4. UNCHANGED caches
  BY DEF EnsureChildren
<1>5. (Admitted(o)' <=> Admitted(o)) /\ FoundBy(o)' = FoundBy(o)
  BY <1>1, <1>4, SameCaches DEF caches
<1>6. KindOf[o] = k /\ cObj' = cObj /\ cConfig' = cConfig
  BY <1>1, <1>4 DEF caches
<1>7. CASE x.pc = "status" /\ x.cond /= "Ready"
  BY <1>3, <1>6, <1>7 DEF SoFar, Busy
<1>8. CASE x.pc = "workload"
  <2>1. Admitted(o) /\ w[k].inc = cObj[o].inc /\ w[k].refs = FoundBy(o)
    BY <1>1, <1>2 DEF SoFar
  <2>2. ConfigDone(o, x.inc, x.refs)'
    BY <1>3, <1>6, <1>8 DEF ConfigDone
  <2>3. w'[KindOf[o]] = x /\ x.inc = w[k].inc /\ x.refs = w[k].refs /\ x.o = o
    BY <1>3, <1>6, <1>8
  <2> QED
    BY <1>5, <1>6, <1>8, <2>1, <2>2, <2>3 DEF SoFar, Busy
<1> QED
  BY <1>3, <1>7, <1>8

LEMMA WorkloadWakes ==
  ASSUME TypeInv, WakeInv, NEW k \in Controllers, NEW o, NEW inc, NEW refs,
         w[k].o = o, w[k].inc = inc, w[k].refs = refs, EnsureWorkload(k), o \notin q'
  PROVE  Busy(o)' /\ SoFar(o)'
<1>1. o \in Objs /\ KindOf[o] = k /\ o \notin q /\ w[k].pc = "workload" /\ w[k].inc \in Nat
  BY WorkerSteps DEF EnsureWorkload, Worker
<1>2. SoFar(o)
  BY <1>1 DEF WakeInv, Awake, Busy
<1>3. UNCHANGED <<caches, config>> /\ pend \subseteq pend'
  BY DEF EnsureWorkload, Changed
<1>4. ASSUME Goto(k, "judge")
      PROVE  WorkloadDone(o, inc, refs)'
  <2>1. CASE NotReady(k, "Waiting")
    <3>1. w'[k].pc = "judge"
      BY <1>4 DEF Goto, TypeInv, TypeOK, Worker
    <3>2. w' = [w EXCEPT ![k] = Refused(o, "Waiting")] /\ Refused(o, "Waiting").pc = "status"
      BY <1>1, <2>1, WorkerSteps, RefusedType DEF Reasons
    <3>3. w'[k].pc = "status"
      BY <3>2 DEF TypeInv, TypeOK
    <3> QED
      BY <3>1, <3>3
  <2>2. CASE /\ ~EnsureFails(cWorkload[o].owner, workload[o].owner, w[k].inc, TRUE,
                             <<"workload", o>> \in pend)
             /\ \/ Changed(<<"workload", o>>)
                \/ /\ workload[o].owner /= Absent /\ workload[o].tmpl = Stamped(k)
                   /\ UNCHANGED workload
    <3>1. CASE Changed(<<"workload", o>>)
      BY <3>1 DEF Changed, WorkloadDone
    <3>2. CASE /\ workload[o].owner /= Absent /\ workload[o].tmpl = Stamped(k)
               /\ UNCHANGED workload
      <4>1. cWorkload[o].owner = w[k].inc /\ <<"workload", o>> \notin pend
        BY <2>2, <3>2 DEF EnsureFails
      <4>2. workload[o].owner = w[k].inc
        BY <1>1, <4>1 DEF WakeInv, FreshCaches
      <4> QED
        BY <1>1, <1>3, <3>2, <4>2 DEF WorkloadDone, Stamped, caches
    <3> QED
      BY <2>2, <3>1, <3>2
  <2> QED
    BY <2>1, <2>2 DEF EnsureWorkload
<1>5. (Admitted(o)' <=> Admitted(o)) /\ FoundBy(o)' = FoundBy(o)
  BY <1>1, <1>3, SameCaches DEF caches
<1>6. CASE Goto(k, "judge")
  <2>1. PICK x \in Worker : /\ w' = [w EXCEPT ![k] = x] /\ x.pc = "judge" /\ x.o = w[k].o
                            /\ x.inc = w[k].inc /\ x.refs = w[k].refs
    BY <1>6, WorkerSteps
  <2>2. w'[KindOf[o]] = x
    BY <1>1, <2>1 DEF TypeInv, TypeOK
  <2>3. /\ Admitted(o) /\ w[k].inc = cObj[o].inc /\ w[k].refs = FoundBy(o)
        /\ ConfigDone(o, w[k].inc, w[k].refs)
    BY <1>1, <1>2 DEF SoFar
  <2>4. ConfigDone(o, inc, refs)'
    BY <1>3, <2>3 DEF ConfigDone, caches
  <2>5. x.inc = cObj'[o].inc /\ WorkloadDone(o, x.inc, x.refs)' /\ ConfigDone(o, x.inc, x.refs)'
    BY <1>3, <1>4, <1>6, <2>1, <2>3, <2>4 DEF caches
  <2> QED
    BY <1>5, <2>1, <2>2, <2>3, <2>5 DEF SoFar, Busy
<1>7. CASE NotReady(k, "Waiting")
  <2> DEFINE x == Refused(o, "Waiting")
  <2>1. x.o = o /\ x.pc = "status" /\ x.cond /= "Ready"
    BY <1>1, RefusedType DEF Reasons
  <2>2. w'[KindOf[o]] = x
    BY <1>1, <1>7, WorkerSteps DEF TypeInv, TypeOK
  <2> HIDE DEF x
  <2> QED
    BY <2>1, <2>2 DEF SoFar, Busy
<1> QED
  BY <1>6, <1>7 DEF EnsureWorkload

LEMMA DropWakes ==
  ASSUME TypeInv, NEW k \in Controllers, NEW o, w[k].o = o, Drop(k), o \notin q'
  PROVE  Busy(o)' /\ SoFar(o)'
<1> DEFINE x == Refused(o, "ConflictingDatabase")
<1>1. o \in Objs /\ KindOf[o] = k
  BY WorkerSteps
<1>2. NotReady(k, "ConflictingDatabase")
  BY DEF Drop, DropDeployment, Return
<1>3. x.o = o /\ x.pc = "status" /\ x.cond /= "Ready"
  BY <1>1, RefusedType DEF Reasons
<1>4. w'[KindOf[o]] = x
  BY <1>1, <1>2, WorkerSteps DEF TypeInv, TypeOK
<1> HIDE DEF x
<1> QED
  BY <1>3, <1>4 DEF SoFar, Busy

\* It ends with no other asked for only when it finds the component Ready.
LEMMA StatusWakes ==
  ASSUME TypeInv, WakeInv, NEW k \in Controllers, NEW o, w[k].o = o,
         UpdateStatus(k), o \notin q'
  PROVE  Awake(o)'
<1>1. /\ o \in Objs /\ KindOf[o] = k /\ w[k] \in Worker
      /\ w' = [w EXCEPT ![k] = Idle(o)]
  BY WorkerSteps DEF UpdateStatus
<1>2. /\ o \notin q /\ Verdict(k) = "Ready" /\ UNCHANGED <<caches, workload>>
      /\ pend \subseteq pend'
      /\ \/ cObj[o].phase /= "absent" /\ cObj[o].cond = "Ready" /\ UNCHANGED obj
         \/ /\ ~(cObj[o].phase /= "absent" /\ cObj[o].cond = "Ready")
            /\ obj' = [obj EXCEPT ![o].cond = "Ready"]
  BY DEF UpdateStatus, Return, ObjChanged, Changed
<1>3. Busy(o) /\ SoFar(o)
  <2>1. w[k].pc \in {"judge", "status"}
    BY DEF UpdateStatus
  <2> QED
    BY <1>1, <1>2, <2>1 DEF Busy, WakeInv, Awake
<1>4. w[k].pc = "judge" /\ RolloutDone(o)
  BY <1>1, <1>2, <1>3 DEF UpdateStatus, Verdict, SoFar
<1>5. ~Busy(o)'
  <2>1. w'[k] = Idle(o)
    BY <1>1 DEF TypeInv, TypeOK
  <2> QED
    BY <1>1, <2>1, IdleType DEF Busy
<1>6. ASSUME Live(o)', cObj'[o] = obj'[o]
      PROVE  Settled(o)'
  <2>1. cObj' = cObj /\ cConfig' = cConfig /\ cSecret' = cSecret /\ cProj' = cProj
    BY <1>2 DEF caches
  <2>2. cObj[o].cond = "Ready" /\ UNCHANGED obj
    BY <1>1, <1>2, <1>6, <2>1 DEF Live, TypeInv, TypeOK, Object
  <2>3. /\ Admitted(o) /\ ConfigDone(o, cObj[o].inc, FoundBy(o))
        /\ WorkloadDone(o, cObj[o].inc, FoundBy(o))
    BY <1>1, <1>3, <1>4 DEF SoFar
  <2>4. <<"workload", o>> \in pend \/ workload[o].rolled
    BY <1>1, <1>4 DEF RolloutDone, WakeInv, FreshCaches
  <2>5. (Admitted(o)' <=> Admitted(o)) /\ FoundBy(o)' = FoundBy(o)
    BY <1>1, <2>1, SameCaches
  <2>6. /\ ConfigDone(o, cObj[o].inc, FoundBy(o))'
        /\ WorkloadDone(o, cObj[o].inc, FoundBy(o))'
    BY <1>2, <2>1, <2>3, <2>5 DEF ConfigDone, WorkloadDone
  <2> QED
    BY <1>2, <2>1, <2>2, <2>3, <2>4, <2>5, <2>6 DEF Settled
<1> QED
  BY <1>5, <1>6 DEF Awake

LEMMA ControllerWakes ==
  ASSUME TypeInv, WakeInv, NEW k \in Controllers,
         Drop(k) \/ EnsureChildren(k) \/ EnsureWorkload(k) \/ UpdateStatus(k)
  PROVE  WakeInv'
<1>1. PICK o \in Objs : w[k].o = o /\ KindOf[o] = k /\ Announced
  BY WorkerSteps, ControllerAnnounces
<1>2. FreshCaches'
  BY <1>1, AnnouncedFresh DEF WakeInv
<1>3. Awake(o)'
  <2>1. CASE o \in q'
    BY <2>1 DEF Awake
  <2>2. CASE o \notin q'
    BY <1>1, <2>2, ChildrenWake, WorkloadWakes, DropWakes, StatusWakes DEF Awake
  <2> QED
    BY <2>1, <2>2
<1>4. ASSUME NEW d \in Objs, d /= o PROVE Awake(d)'
  <2>1. KindOf[d] \in Controllers
    BY ConstantTypes
  <2>2. d \in q => d \in q'
    BY <1>1 DEF Drop, DropDeployment, EnsureChildren, EnsureWorkload, UpdateStatus,
         Return
  <2>3. obj'[d] = obj[d]
    <3>1. UNCHANGED obj \/ obj' = [obj EXCEPT ![o].cond = Verdict(k)]
      BY <1>1 DEF Drop, EnsureChildren, EnsureWorkload, UpdateStatus
    <3> QED
      BY <1>4, <3>1 DEF TypeInv, TypeOK
  <2>4. w'[KindOf[d]] = w[KindOf[d]] \/ (KindOf[d] = k /\ w'[k].o = o)
    BY <1>1, <2>1, WorkerStepTypes DEF WorkerStep
  <2>5. (Busy(d)' <=> Busy(d)) /\ (Busy(d) => w'[KindOf[d]] = w[KindOf[d]])
    BY <1>1, <1>4, <2>4 DEF Busy
  <2> QED
    BY <1>1, <2>2, <2>3, <2>5, Undisturbed DEF WakeInv
<1> QED
  BY <1>2, <1>3, <1>4 DEF WakeInv

LEMMA InitWakes == Init => WakeInv
<1> SUFFICES ASSUME Init PROVE WakeInv
  OBVIOUS
<1>1. FreshCaches
  BY DEF Init, FreshCaches
<1>2. ASSUME NEW o \in Objs, o \notin q PROVE ~Busy(o) /\ ~Live(o)
  <2>1. KindOf[o] \in Controllers /\ w[KindOf[o]].pc = "idle"
    BY ConstantTypes DEF Init, Idle
  <2> QED
    BY <1>2, <2>1 DEF Init, Busy, Live
<1> QED
  BY <1>1, <1>2 DEF WakeInv, Awake

LEMMA NextWakes == TypeInv /\ ActsInv /\ WakeInv /\ [Next]_vars => WakeInv'
<1> SUFFICES ASSUME TypeInv, ActsInv, WakeInv, [Next]_vars PROVE WakeInv'
  OBVIOUS
<1>1. TypeInv'
  BY NextTypes
<1>2. ASSUME NEW k \in Controllers, Controller(k) PROVE WakeInv'
  BY <1>1, <1>2, StartWakes, ControllerWakes DEF Controller
<1>3. CASE Cluster
  BY <1>3, DeliverWakes, OthersWake DEF Cluster
<1>4. CASE Environment
  BY <1>4, OthersWake, RestartWakes DEF Environment
<1>5. CASE UNCHANGED vars
  BY <1>5, OthersWake
<1> QED
  BY <1>2, <1>3, <1>4, <1>5 DEF Next

\* With no event under way the caches are the API server's state.
LEMMA WakeUp ==
  ASSUME TypeInv, ActsInv, WakeInv, NEW o \in Objs, Live(o), o \notin q, ~Busy(o), pend = {}
  PROVE  obj[o].cond = "Ready" /\ Complete(o) /\ Current(o)
<1> DEFINE k == KindOf[o]
           p == ProjectOf[o]
<1>1. /\ \A d \in Objs : cObj[d] = obj[d] /\ cConfig[d] = config[d]
      /\ cProj = proj /\ cSecret = secret
  BY DEF WakeInv, FreshCaches
<1>2. Settled(o)
  BY <1>1 DEF WakeInv, Awake
<1>3. ASSUME NEW dk PROVE Listed(dk, p) = Having(dk, p)
  BY <1>1 DEF Listed, Having
<1>4. FoundBy(o) = Needs(o)
  <2>1. ASSUME NEW d \in Objs
        PROVE  (\E dk \in Requires(k) \cup Optional(k) : d \in Listed(dk, p))
               <=> (/\ d \in Having(KindOf[d], p)
                    /\ KindOf[d] \in Requires(k) \cup Optional(k))
    BY <1>3 DEF Having
  <2> QED
    BY <1>1, <2>1 DEF FoundBy, Found, Needs, Live
<1>5. Complete(o)
  BY <1>1, <1>2, <1>3 DEF Settled, Admitted, FindsDependencies, Complete
<1>6. Current(o)
  <2>1. /\ workload[o].owner = obj[o].inc /\ workload[o].rolled
        /\ workload[o].tmpl = [env    |-> IF HasConfig(k) THEN {} ELSE Needs(o),
                               config |-> config[o].refs, secret |-> secret]
    BY <1>1, <1>2, <1>4 DEF Settled, WorkloadDone
  <2>2. HasConfig(k) => config[o].refs = Needs(o)
    BY <1>1, <1>2, <1>4 DEF Settled, ConfigDone
  <2>3. obj[o].inc /= Absent
    BY DEF ActsInv, IncsPast, Exists, Live, Absent, TypeInv, TypeOK, Object
  <2> QED
    BY <2>1, <2>2, <2>3 DEF Current, Owns
<1> QED
  BY <1>1, <1>2, <1>5, <1>6 DEF Settled

\* No change of a component, its Project, the Secrets or anything that it looks up
\* goes unnoticed, however far behind the caches are when it is reconciled.
THEOREM NoWakeupIsLost == Spec => []NoLostWakeup
<1>1. TypeInv /\ ActsInv /\ WakeInv => NoLostWakeup
  BY WakeUp DEF NoLostWakeup
<1> QED
  BY <1>1, ActsInvariant, InitWakes, NextWakes, PTL DEF Spec
=============================================================================
