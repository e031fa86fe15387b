# Verification of the Supabase Kubernetes operator

TLA+ models, TLC checks and TLAPS proofs for the operator in this repository.
The operator turns custom resources (`Project`, `SingleDatabase`, `Migration`
and eleven kinds of component) into Kubernetes objects. Its own logic is small;
what is hard about it is where that logic runs: every controller reads informer
caches that lag behind the API server, writes objects that other controllers
change too, starts Jobs that can die between two statements, and keeps what it
knows about the database in a status that it overwrites as a whole.

## The system

| Component | State it keeps | Operations | What is hard | What makes it correct | Module |
|---|---|---|---|---|---|
| Migration controller (`internal/controller/migration`) | status: `AppliedHash`, Ready; ConfigMap `<m>-sql`, Job `<m>-job` | `Reconcile` | stale caches, Jobs that expire, names used again | a status says what is recorded in the database; no Migration is forgotten; each is applied in the end | `Migration` |
| `migration-apply.sh` | table `_operator_migrations` | check, apply, record | interruption between any two statements, concurrent Jobs | only complete batches are recorded, recorded ones are not executed again | `Migration` |
| Project controller (`internal/controller/project`) | status: `JWTSyncHash`, `PasswordSyncHash`, Ready; a Migration, two Secrets, two Jobs | `Reconcile`, three watch mappings | edits and rotations while a Job runs or has just finished | a hash says what a Job has applied; Ready means that schema and passwords are there; every change is noticed | `Project`; its Secrets: `Wiring` |
| `project-sync-*.sh` | roles, `jwt_exp`, schema `_supavisor` | ALTER, DROP, CREATE | interruption, a password that is replaced meanwhile | an interrupted script can be repeated | `Project` |
| SingleDatabase controller, `singledatabase-password-sync.sh` | Secret, claim, Service, StatefulSet; the data directory | `Reconcile`, init containers | hash and password are read at two times by two programs; children deleted, Pods lost | a running server is not behind the hash its Pod is stamped with; Ready only when initialised | `SingleDatabase`, implements `Database` |
| Reconciler library (`internal/reconciler`), overlays (`internal/helper/overlay.go`) | none | `EnsureResource`, `UpdateStatus`, `Mutate*`, `Overlay*` | cached reads before writes; fields that others fill in, or remove | children of others are not touched, drawn keys and allocated addresses survive, reconciliation comes to rest on what is generated | `Ensure`, `Children`, and part of every controller |
| Component framework (`internal/controller/component`) | index by Project | `Start`, `ResolveDatabase`, `RequireDependency`, `ListOptional`, `StampInputs`, watches | duplicates seen through a list, dependencies that come and go, inputs that change while Pods start | one component of a kind acts; all wake up; Pods run with present inputs | `Component`, `Kinds` |
| Component controllers (eleven) | Deployments, Services, Secrets, ... | `Reconcile` | order of dependencies, two Analytics on one database, cluster-wide objects of Vector | Ready only with Project, database and dependencies; nothing left behind | `Kinds`, `Component`, `Vector`, `Wiring` |
| Generated resources (`internal/defaults`) | none | builders of Pods, Services, Secrets | labels, ports and keys that packages agree on by convention | calls lead to the Pods meant, and keys exist that Pods read | `Generated`, `Wiring` |
| Credentials (`internal/defaults/project/*_secret.go`, `internal/controller/{supavisor,analytics}/secret.go`) | Secrets `<p>-jwt`, `<p>-keys`, those of components | draw once, fill in missing keys, derive connection strings | a refill from a cache that is behind; a string made of an old password | a token once given out stays; everybody ends up with the present values | `Wiring` |
| Upgrade and rollback scripts (`charts/supabase/scripts`) | data directories, Helm values | many steps | interruption between two steps | the old data can always be restored | not modelled |
| Charts, CRDs, asset templates, `cmd/main.go` | none | rendering, wiring | nothing stateful | - | restarts only |

Interaction is through the API server alone. The Project controller waits for
the SingleDatabase (`database.ResolveRef`) and for every Migration of its
database (`migrationsReady`), then for its two Jobs; components wait for the
Project, for the database and for each other. A controller is woken by watches,
by the errors it returns and by `RequeueAfter`.

## Modules

| Module | Models |
|---|---|
| `Ensure` | the outcome of `EnsureResource` for a child object, seen through a cache and at the API server |
| `Migration`, `MCMigration` | the Migration controller, informers, work queue, Job controller, kubelet, garbage collector, `migration-apply.sh`, the database |
| `Project`, `MCProject` | the Project controller, its two Jobs and scripts, the script of its Migration, the password rotation and the roll of the database Pod |
| `Database` | the abstract promise of a SingleDatabase: the administrators' password changes only while the server is down, and only to what the Secret was last set to |
| `SingleDatabase`, `MCSingleDatabase` | its controller with the four children, the StatefulSet controller, the Pod with its init containers, the data directory; implements `Database` |
| `Kinds` | a record for each kind of component: what it requires, may find, watches and writes |
| `Component`, `MCComponent` | the framework and the ten controllers that share it, as they are created, deleted and made to wait; the rollout of their workloads |
| `Vector` | the controller of Vector: finalizer, ClusterRole and binding, DaemonSet that follows Analytics |
| `Children` | one child object, field by field: overlay, mutate function, API server defaults, other clients |
| `Generated` | what the builders put into Pods, Services and Secrets, as far as one resource depends on another |
| `Wiring`, `MCWiring` | how credentials travel from the Secrets of the database, the Project and the components into Pods; composes `Generated` and `Kinds` |
| `MigrationProofs`, `ProjectProofs`, `SingleDatabaseProofs`, `ComponentProofs`, `VectorProofs`, `ChildrenProofs`, `WiringProofs` | theorems, see Proofs |

**Reading the models.** `Reconcile` is split wherever it reads a cache or calls
the API server, so that everything else can happen in between: `w.pc` is the
place in the function, `w.status` (`w.proj`, `w.obj`) the local copy of the
object. A watched object appears twice, at the API server (`mig`, `job`) and in
the cache (`cMig`, `cJob`); `pend` holds the kinds whose last change has not
reached the cache, and `Deliver` is the watch event that brings it there and
wakes the controller. A cache jumps to the latest state: the states in between
that a slow watch would show are left out. `Errs` is a call that fails, for a
reason the model knows or because the request is lost (fault `api`). A write to
the API server with a lost answer is the write followed by a restart or by a
fresh reconciliation.

* `Migration!Reconcile` is Get and `ResolveRef`; `EnsureConfigMap` is
  `ensureConfigMap` with the early return that follows; `EnsureJob`, `JudgeJob`
  and `UpdateStatus` are the rest. `Project!Reconcile`, `EnsureMigration`,
  `ReadConfiguration`, `EnsureSyncJob`, `JudgeSyncJob` and `UpdateStatus` are the
  same for a Project; the two sync Jobs share their actions, `w.kind` says which
  one is dealt with. The Migration of the Project is reduced to what the Project
  sees of it, `migration`, and to the container that applies its batch, `runner`:
  `Execute` is one file of the batch, committed by itself, of which `supabase.sql`
  (CREATE DATABASE) and `pooler.sql` (the schema `_supavisor`) matter to the
  scripts of the Project; `RecordHash` is the INSERT by another `psql`,
  and stands for `webhooks.sql` before it. The
  container can be killed or the Migration deleted between any two, so a database
  with the schema and without the record is among the states.
* `SingleDatabase!EnsureSecret`, `ReadSecret` (the second Get, of which the hash
  is made), `EnsurePVC`, `EnsureService`, `EnsureStatefulSet` and
  `JudgeStatefulSet` are the calls of its `Reconcile` in their order. `pod.pc`
  goes through the init containers (`RunInitContainers`) and the first start
  (`StartPostgres`, with initdb if `data` is empty). Each setting of the Secret has
  a number, which is what `secret`, `data` and the hashes hold; `values` says which
  password that was. The user may set a former password again, and what the program
  compares is the password (`Value`, `Same`), as `helper.SecretHash` is a hash of
  the content. The numbers tell for the properties what came first.
* `Component!Start` is everything `Reconcile` reads before it writes:
  `component.Start`, `RequireDependency`, `ListOptional`, `ResolveDatabase`,
  `checkDatabaseConflict`. `EnsureChildren` stands for the children before the
  workload, of which only the ConfigMap of an Envoy matters there; `EnsureWorkload`
  for `StampInputs` and `Ensure`; then the readiness check and the status. There
  is one worker for each kind, as `SetupWithManager` sets it up.
* `Vector` has an action for each write of `Reconcile`, both ways: with the
  finalizer first and the ClusterRole before its binding, and back.
* In `Children` an object is a function from fields to who has set them. The
  mutate functions are tables: fields they assign, keep, merge, or do not name.
  `EnsureResource` is one action, since the reads and writes around it are in the
  other modules.
* In `Wiring` a reconciliation is the list of its writes (`Writes`, in `Kinds`
  for components) and `w` the position in it. `data` holds the value of each key of
  each Secret as a number; 0 is a missing key, and an object without keys does not
  exist. Pods keep the values they were started with. `Reads` of a component
  is what `podInputs` finds in the template that the builder makes.

**Identity.** A Migration, component or Vector deleted and created again under
its name is a new incarnation, which stands for its UID. Children are identified
with the incarnation that controls them, hashes with what they are computed from.

**Abstractions.** Condition messages, labels (but for `Generated`) and times
(lastTransitionTime, and AppliedAt except for its being new each time a success
is stored, which makes `UpdateStatus` of a Migration write); deletion of a
Project with the Migration and the Jobs it owns; Migrations of users beside the
Project's own; the refresh of a mounted ConfigMap; the twelve ALTER USER
statements, taken as one step; the failure reasons of a Project and of a waiting
component, taken as one. In `Project` the readiness of the SingleDatabase is the
server's being up, seen through a cache. In `Migration` every retry counts against
`backoffLimit`; in `Project` a failing attempt may or may not be the last one.
Growth of a volume and initdb interrupted in the middle are left out of
`SingleDatabase`. In `Generated`: images, resources, probes, plain environment
variables, names that need shortening, and the texts in ConfigMaps, except that
the ConfigMap of an Envoy routes to the components found.

## Runs

| Run | Question | Bounds |
|---|---|---|
| `MigrationFaults` | `TypeOK`, `StatusSound`, `RecordedIsComplete`, `AppliedOnce`, `NoLostWakeup`, and `EventuallyApplied` under fairness | one Migration, two statements, `backoffLimit` 2, two faults of any kind |
| `MigrationReuse` | `NeverAdopt`, and `StatusSound` when a name is used again with another batch | two incarnations, one statement, two faults out of delete, crash, evict, api |
| `ProjectSafety` | `TypeOK`, `JwtHashSound`, `ReadyIsPrepared` | two expiries (symmetric), one edit or fault, a reconciliation may start with one stale cache |
| `ProjectRotation` | `NoLostWakeup` | two out of rotation, crash, eviction, database restart, operator restart, API error |
| `ProjectLive` | `EventuallyInSync` under fairness | two expiries, the first of them fixed, two passwords, one edit, rotation or fault of any kind |
| `SingleDatabase` | `TypeOK`, `RunningIsCurrent`, `ReadyIsInitialised`, `NoLostWakeup`, `ImplementsDatabase`, `EventuallyCurrent` | a good and a broken Pod template, two claims, two faults of any kind, so that a password can be set and taken back, one stale cache |
| `Component` | `TypeOK`, `AtMostOneActs`, `NoLostWakeup`, `ConflictsStop`, `EventuallySettled` | six worlds: routes of an Envoy come and go; Rest and Storage with any one disturbance; a kind claimed twice; a dependency claimed twice; two Analytics of two Projects on one database. One or two disturbances, two incarnations of each name |
| `Vector` | `TypeOK`, `NoOrphanedRBAC`, `EventuallySettled` | two incarnations, two disturbances of any kind |
| `Children` | `TypeOK`, `EventuallyQuiet`, `EventuallyAsGenerated`, `KeepsOthers` | each of the nine kinds of child, two edits by the user or others |
| `Wiring` | `TypeOK`, `CallsReach`, `TokensStay`, `EventuallyCoherent` | nine worlds: each kind that has a Secret, a ConfigMap or a dependency, running or from nothing, alone or with what it requires; one or two faults; and the whole Project for `CallsReach` |

Two statements are the least number with a state in which a batch is half
applied; two incarnations the least with a stale object of a predecessor; two
faults are enough for a fault during the recovery from another. A Job of one
kind is created, fails, expires and is created again within these bounds, since
neither reconciliations nor Jobs are counted. In `Component`, `Vector` and
`Wiring` nothing is counted but the faults either: a component may be reconciled
any number of times. Components of kinds that differ in no way that `Kinds`
records (Auth, Rest, Meta, Realtime) need not all be in a world of `Component`;
the last world of `Wiring` has all of them. Deadlock is not checked: a system
without further edits and faults comes to rest when its work is done.

What the bounds leave out:

* `MaxStale` is 0 in `Component` and `Vector`: a reconciliation starts when the
  informers have delivered what had happened before, though everything can change
  afterwards. For `Component` this is a bound of the runs only: `ComponentProofs`
  has its invariants for every `MaxStale`. With a cache that is behind, `cleanupRBAC`
  of Vector passes over a ClusterRole that was created a moment before, which then
  stays for ever; what is needed there is stated by `NoRBACIsOrphaned`.
* `MigrationFaults` has one Migration, so two that run one batch at the same time
  are covered by the theorem `RecordedIsAlwaysComplete` only. In `Migration` and
  `Project` a Pod that is evicted is gone at once: that a terminating Pod may overlap
  the next one of its Job is left out.
* In `Project` the database Pod is replaced whenever its password is not that of the
  Secret; the case in which it is not, since the password was set back, is in
  `SingleDatabase`. `ProjectLive` has one rotation, which is too few for it.
* In `Wiring` the password is never set back to a former value and a Secret never
  loses its last key. The first is the case of `RollsOnConfigChange` below, the
  second that of the panic below. Components, the Project and the database stay
  ready there. All names are alike, so that what tells resources apart is what the
  builders add to them.

Mutations kept in the modules as "Faulty variant" operators
(a forgotten requeue, a missing check of `status.succeeded`, a Job without TTL,
`DROP SCHEMA IF EXISTS`, a password sync without the check of `PG_VERSION`, a
workload without the hash of its inputs, an existing connection string that is
kept, ...) show that each property notices the bug it is there for;
`PROJECT.json` names the pairs. They are used by no action.

### What the properties rest on

* `StatusSound`: the claim `AppliedHash` passes from the INSERT through Pod,
  Job, cache, worker and a status copied as a whole; no interleaving separates it
  from the record.
* `AppliedOnce`: the check and the batch are not atomic, and the Job is created
  again whenever its success was not seen before it expired. It is enough that
  one Pod at a time runs a batch; two Migrations with one batch may both execute
  it, and `RecordedIsComplete` still holds.
* `ReadyIsPrepared`: the gate `migrationsReady` does not suffice, since it may
  list Migrations before the new one is in the cache, and lists none when Migrations
  are disabled in the middle of a batch. What holds a Project up is that its password
  script connects to the database `_supabase` and that `DROP SCHEMA` fails before
  `pooler.sql` has run; with `IF EXISTS` the property is violated. That the Migration
  is recorded is more than that, and does not hold (`ReadyIsMigrated`).
* `NoLostWakeup`: a Migration is not woken by its database, so every wait must
  end in `RequeueAfter` or an error; a Project must be woken by its Secret; a
  component by six watches, and by a requeue while another of its kind exists. What
  counts as in step is the Ready condition, the settings and the Secret; the
  Migration and the database of a Project are no part of it.
* `RunningIsCurrent`: the hash in the template is of the Secret in a cache, the
  password in the container is of the Secret when it was created, and the data
  directory may have a third one. The sync runs before each start of a Pod, and a
  template with a hash is younger than the setting of the Secret it is of; so a server
  is never behind its hash. It can be ahead: `SetBack` names the one way in which
  hash and password then disagree, a password that was set, reached the server,
  and was taken back while the Pod kept the hash of the one before.
* `ReadyIsInitialised`, `EventuallyCurrent`: `readyReplicas` may be that of the old
  Pod. Ready is then early, which no property forbids, but not for a database that
  never was initialised, and it is corrected.
* `AtMostOneActs`: the one that came first keeps its workload while the newcomer
  waits, even when the first is being deleted, because `Start` counts those too. The
  cache of a kind shows the components in the order in which they were created, so
  the newcomer never reads a list without the other, however old that list is.
* `ConflictsStop`, `EventuallySettled`: a conflict is noticed by the component that
  is reconciled next, not by the one that is Ready; that everything settles
  rests on every wait having a requeue of its own.
* `NoOrphanedRBAC`: the finalizer is stored before the first cluster-wide object is
  created and removed after the last is deleted, with a crash anywhere between.
* `EventuallyQuiet`, `EventuallyAsGenerated`: one wants the merge to keep what the
  API server adds, the other wants it to bring in what is generated and to clear the
  fields it assigns. Each of the two faulty merges satisfies one of them. In fields
  that a mutate function keeps when nothing is generated for them, and in merged
  annotations, what the user has removed stays: `LeftOver` says so, and
  `RemovedIsGone` does not hold.
* `CallsReach`: selectors, labels and ports are written down in a dozen packages;
  Envoy's labels follow another pattern than the rest and Vector repeats all. The
  Services are taken as there: their existence is not looked at.
* `TokensStay`: each reconciliation draws all keys anew and relies on the merge, on
  a cached object and on the refusal of a write based on an old one.
* `EventuallyCoherent`: a password reaches a Pod directly and inside a connection
  string, through caches that need not be equally old; Pods may start in between.
  That the Pods are replaced once more rests on the hash over all inputs.

### Fairness

The worker serves a queued object, informers deliver, Kubernetes' controllers
and kubelet act, the Migration and SingleDatabase controllers act on the
Project's behalf, a database that is down comes back: weak fairness for each.
controller-runtime gives the first (rate-limited requeues are delayed, not
dropped), Kubernetes the others. In `Component`, where two components of one kind
share a worker, `Start` of each is strongly fair: the work queue serves requests in
the order of arrival. Users, edits and faults are under no fairness. The liveness
properties state what else they need:

* `PromptController`: from some time on a successful Job does not expire before
  its result is in the controller's status (a TTL of 30 seconds), and for a
  Project no reconciliation starts from a status it has itself overwritten
  already. Without the second part two reconciliations can undo each other's
  hashes for ever, each time running `DROP SCHEMA` again.
* `[]<>db.schema` and `MigrationCompletes`: see the findings `RunsAgain` and
  `ReasonIsCurrent`, each of which blocks a Project for good. So does a batch that is
  interrupted before its hash is recorded, since `CREATE DATABASE` in its first file
  cannot be executed again; unless the user disables Migrations.
* `Rerunnable`: a batch whose statements fail when they are executed a second
  time never succeeds after an interruption (see `AppliedAtomically`).
* `Admissible` (`SingleDatabase`): the claim is as it was created, and there is no
  Pod that cannot become ready. A refused claim ends every reconciliation before
  the StatefulSet; a broken Pod is never replaced under OrderedReady.
* `Accepted` (`Children`): the next write is not refused for good.

## Findings

Runs that show where the code does not do what a comment says of it:

| Run | Comment | What happens |
|---|---|---|
| `ReasonIsCurrent` | Conditions include Ready and its current reconciliation reason | An applied Migration whose database was not ready once stays NotReady for ever: the early return for `AppliedHash` never sets Ready again. Its Projects wait at MigrationsNotReady. |
| `RunsAgain` | the hash is used to decide whether the job needs to run again | A container killed between `DROP SCHEMA _supavisor` and `CREATE SCHEMA`: every later run fails at the DROP, and the Migration that creates the schema does not run again. |

The following are stated in the modules and do not hold either; they have no run
of their own.

| Definition | Comment | What happens |
|---|---|---|
| `Migration!AppliedAtomically` | Apply migration batch atomically | `psql -f` without `--single-transaction`: a batch interrupted for good stays half applied. For the same reason statements are executed a second time when the script is run again before its hash is recorded. |
| `Migration!AppliedHashIsOwn` | AppliedHash is the hash of the batch that was successfully applied | `UpdateStatus` finds its object by name only, and writes the hash of a deleted Migration into its successor, which is then never applied. |
| `Project!PasswordHashIsApplied` | PasswordSyncHash is the hash last successfully applied by the sync job | A finished Job of the old password, not yet expired, is taken as proof for the new one: its spec only refers to the Secret. |
| `Project!JwtHashIsLast` | JWTSyncHash is the hash last successfully applied by the sync job | `jwtExpSec` edited to B and back to A while the Job for B runs: the hash of A is still there, nothing runs, and the database keeps B. |
| `Project!ReadyIsMigrated` | Manages SQL through `Migration` resources and Jobs, and waits for migrations before completing project setup (`charts/supabase/README.md:24`) | The schema is there as soon as `pooler.sql` has run, the hash is recorded by another `psql` after the batch (`migration-apply.sh:36`, `39-43`). If the list of Migrations is stale, or they are disabled, in between, the Project becomes Ready; if the container is killed then, the Migration is never recorded. |
| `SingleDatabase!EventuallyPassword` | annotation with the secret hash (`internal/defaults/singledatabase/statefulset.go:77`), which makes the Pod follow the password | The password is set to B and back to A, and the Pod, stamped with the hash of A, started in between: the server has B, the hash is that of A again, nothing replaces the Pod. |
| `Component!RollsOnConfigChange` | hashes force a rolling update when the ConfigMap or Secret changes (`internal/defaults/envoy/deployment.go:79-80`) | A route that goes and comes back while the Pod starts: the Pod copied the ConfigMap in between, the hash is the old one again, and the gateway keeps running without the route. |
| `Children!PodOverlays` | Pod overlays the operator-generated Pod template (`api/v1alpha1/auth_types.go:33`) | `mergePodSpec` copies the fields it names; others of the overlay, such as `dnsPolicy`, are applied when the workload is created and ignored in every later edit. |
| `Children!RemovedIsGone` | preserving values allocated or defaulted by the API server (`internal/reconciler/mutate.go:102`); preserving server-side defaults on fields the operator does not set (`mutate.go:226`) | What the user has set is preserved as well: init containers, probes, `terminationMessagePath`, the session affinity of a Service and the like stay in the child after the user has removed them from the template. |

Others that came up while modelling:

* The Pod of a deleted Migration's Job may mount the ConfigMap of a successor of
  that name and record its own hash for the other's SQL; so `RecordedIsComplete` is
  checked without reuse of names.
* The Migration controller reports JobFailed as soon as one Pod was evicted,
  although the Job has retries left.
* `internal/reconciler/ensure.go:56-58` speaks of a comparison that ignores
  server-side defaults; line 109 compares with `DeepEqual`, and what makes
  reconciliation quiet is what the mutate functions keep (`EventuallyQuiet`). For a
  Job they do not, and every reconciliation sends an Update.
* `MutateSecret` assigns to `existing.Data`, which is nil in a Secret whose data
  was emptied: the reconciliation panics until someone else fills it in.
* A single key removed from the JWT Secret is drawn anew, and the tokens that stay
  were signed with the former one.
* The ConfigMap of an EdgeRuntime named `x-envoy` has the name of that of an Envoy
  named `x`; the second of the two is never reconciled.

## Proofs

Every invariant and every action property of the runs is a theorem: the runs show
it on small instances, the proofs for all values of the constants. Each theorem
assumes the ASSUME of its module (numbers are numbers, each scenario is one) and
has further hypotheses only where the table says so. `Component` assumes that
its set of components is finite, since `Start` counts.

| Module | Theorem | Property | Hypothesis |
|---|---|---|---|
| `MigrationProofs` | `TypeCorrect`, `StatusIsSound`, `NeverAdopts`, `NoWakeupIsLost` | `TypeOK`, `StatusSound`, `NeverAdopt`, `NoLostWakeup` | |
| | `RecordedIsAlwaysComplete` | `RecordedIsComplete` | `NamesKeepBatches`: a Migration created again under a name has the batch of the former one |
| | `AppliedOnlyOnce` | `AppliedOnce` | `OneRunner`: no name is used again, no two Migrations have one batch |
| `ProjectProofs` | `TypeCorrect`, `JwtHashIsSound`, `ReadyIsAlwaysPrepared`, `NoWakeupIsLost` | `TypeOK`, `JwtHashSound`, `ReadyIsPrepared`, `NoLostWakeup` | |
| `SingleDatabaseProofs` | `TypeCorrect`, `RunningIsAlwaysCurrent`, `ReadyIsAlwaysInitialised`, `NoWakeupIsLost`, `DatabaseIsImplemented` | `TypeOK`, `RunningIsCurrent`, `ReadyIsInitialised`, `NoLostWakeup`, `ImplementsDatabase` | |
| `ComponentProofs` | `TypeCorrect`, `OnlyOneActs`, `NoWakeupIsLost` | `TypeOK`, `AtMostOneActs`, `NoLostWakeup` | |
| `VectorProofs` | `TypeCorrect` | `TypeOK` | |
| | `NoRBACIsOrphaned` | `NoOrphanedRBAC` | `CleansUpCurrent`: when a deletion is noticed, no event of the ClusterRole or the binding is on its way |
| | `FreshCachesLeaveNoRBAC` | `NoOrphanedRBAC` | `MaxStale = 0`, as in the run |
| `ChildrenProofs` | `TypeCorrect`, `OthersAreKept` | `TypeOK`, `KeepsOthers` | |
| `WiringProofs` | `TypeCorrect`, `TokensAreKept`, `CallsAlwaysReach` | `TypeOK`, `TokensStay`, `CallsReach` | |

The hypotheses are where the code makes a difference. `NamesKeepBatches` is the
case of the operator's own Migrations (`internal/defaults/project/migration.go:34-36`:
a numbered Migration is never changed); without it the property fails, see
Findings. With two runners of one batch a statement may be executed by the second
after the first has recorded it, so `AppliedOnce` needs `OneRunner`. Without
`CleansUpCurrent` a ClusterRole may be passed over, see the bounds.

In every module one lemma per group of actions says that the invariant is
preserved, with a frame lemma for the steps that do not concern it.

**Types.** `TypeOK` is seldom inductive alone. `Migration` adds `WellFormed` (a
live Migration, a Job and the object in the worker's hands have an incarnation,
so that `BatchOf` is applied where it is defined), `Project` `WorkerReady` and
`PodsHaveJobs` (what the worker has read by the time it needs it; a container runs
for an active Job only), `Component` `Kinded` (a worker is busy with a component of
its kind), `Vector` `WellFormed` (the worker has a UID when it writes permissions).

**Claims in a status** (`StatusSound`, `JwtHashSound`, `ReadyIsPrepared`,
`ReadyIsInitialised`). A step that writes a status copies it from the worker, which
judged a cached Job or StatefulSet, which was complete when a Pod had ended. The
invariant follows the claim back along that way, over every copy.

* `SoundInv`: every status, at the API server, in the cache and in the worker's
  hands, names a recorded batch; a Pod at "done" and a completed Job stand for one;
  `OwnJob`: a Job judged by the worker belongs to the incarnation it holds, although
  the code judges it by name: `ensureJob` has just refused any other through the
  same cache, or created it.
* `JwtInv`: the same for expiries. `JobFits`: the Job about to be judged has the
  expiry the worker will claim, since the Update of `EnsureResource` on an existing
  Job is refused if the template differs, and its resourceVersion sees to it that
  the cached Job it compared with was the API server's.
* `ReadyInv` of `Project`: `StatusesVouch`, `JobsVouch` and `ScriptVouches`. The gate
  `migrationsReady` plays no part in it: what carries the claim is that the password
  script is past `DROP SCHEMA` only on a database that had the schema, which is there
  only once `pooler.sql` was executed.
* `ReadyInv` of `SingleDatabase`: nobody who says Ready does so before data is there.

**Order of writes** (`RecordedIsComplete`, `AppliedOnce`). `CompleteInv` says for
each place in the script what the database has, while Pods of other Migrations
execute the same statements in between. `UnrecordedInv` says that between check and
INSERT nobody else can record the batch.

**Nothing is forgotten** (the four `NoLostWakeup`, for every `MaxStale`). Whether the
worker may go to sleep depends on what it read some steps ago, so the properties
are not inductive. The invariants have the same shape: a cache without an event
on its way is the API server's (`FreshCaches`, `FreshMigCache`); as long as nothing
has queued the object since the worker took it, what the worker has read is what
the caches hold, and what it wrote is there or has an event on its way
(`ReadsLatest`, `ReadsCached`, `SoFar`). In `Component` it is stated for every
component in terms of the caches alone (`SoFar`, `Settled`); `WatchesWhatItReads`, that each
controller watches the kinds it looks up, is checked against the table `Kinds`.

**Exclusion** (`AtMostOneActs`). `ActsInv`: one acts if it owns a workload or its
worker is on the way to writing one. Whoever acts has been seen by the cache
(`Seen`), and the cache, which only shows the past (`CachePast`), does not lose what
still exists; so `Start` of the other counts two. No bound on how old the cache is
enters.

**Cluster-wide objects** (`NoOrphanedRBAC`). `RBACInv` is about the distance between
the Vector, its copy in the cache and the copy in the worker's hands:
`GrantsHeld` (permissions are written only for a Vector that is there with its
finalizer), `RemovesDeleted` and `Revokes` (the finalizer is removed of one that is
being deleted, and that has no permissions any more), `CacheIsPast`.

**Merges** (`KeepsOthers`, `TokensStay`). Lemmas about the mutate functions:
`EnsureKeeps`, field by field, and `KeptKeeps`, `MutatedKeeps`, key by key; and
`EnsureWrites`, that a write goes through only if the cached object it is made of is
the API server's.

**Tables** (`CallsReach`). Pods of different kinds differ in their name label, whatever
the components are called (`NamesDiffer`); `PodLabels` and `ServiceLabels` give the
labels kind by kind, `CallsServed` that a Service is there for each call, since a
Project has what its components require.

**Refinement.** `DatabaseIsImplemented`: `last` of `Database` is the length of
`values`, `admin` is `data`, the server is up when the Pod is, every other step is a
stutter. `RunningIsCurrent` uses the same invariant, `Ordered`: settings are numbered
in their order, no copy of a hash is ahead of the last one, and the data of a Pod
that is past its init containers is not older than the hash on the Pod. If that hash
has the password of the Secret and the data have not, the data lie between the two.
`NoLostWakeup` compares templates by content, and needs that a new setting leaves
the passwords of all former ones as they are (`Kept`).

Only model-checked is liveness, for which the prover has no rules: `EventuallyApplied`,
`EventuallyInSync`, `EventuallyCurrent`, `ConflictsStop`, `EventuallySettled` of
`Component` and of `Vector`, `EventuallyQuiet`, `EventuallyAsGenerated` and
`EventuallyCoherent`. The `NoLostWakeup` theorems are the part of it that is safety:
a controller does not sleep while there is something it should do.

## Not modelled

* Upgrade and rollback scripts: planned, see below.
* The cryptography and the encodings of the credentials, and whether a token fits
  the key it claims to be signed with.
* Contents of ConfigMaps, images, probes, resources, plain environment variables:
  nothing outside the Pod depends on them.
* Envoy and Edge Function assets, Helm templates, CRDs, generated deep copies,
  flags and leader election of `cmd/main.go`: no state of the operator's, or none
  of its own.
* Shortening of names, merging of environment variables, random strings: pure
  functions with unit tests.

## Plan

1. `SharedDatabase`: two Projects on one database, composed from `Project`'s
   actions; and an abstract specification (a status that is a lower bound of what
   the database has) that `Migration` and `Project` implement.
2. `Upgrade`: the steps of `upgrade-pg17.sh` and `rollback-pg15.sh` with an
   interruption after each.
3. Proofs: the abstract specification of 1 as a refinement of `Migration` and
   `Project`; what `SharedDatabase` promises of the two Jobs.
