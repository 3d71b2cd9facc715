# Kanary operator: TLA+ models and proofs

The Kanary operator (`cmd/`, `pkg/`) is a Kubernetes controller. A `Kanary`
object names a destination Service and a list of weighted routes to backend
services; the operator gives it a HAProxy Deployment, a ConfigMap with the
server lines of every ready pod of the backends, and the destination Service in
front of the proxies. This directory holds TLA+ models of it, the TLC instances
that check them, and proofs checked by TLAPS.

## 1. Inventory

| Component | State | Operations | Interacts with |
|---|---|---|---|
| Configuration derivation (`haproxy_controller.go`, `utils.go`, helpers of `controller.go`) | none, pure | resolve a route (`buildExpectedEndpointStatus`, `verifyEndpointPortExist`), compare (`deepEqualEndpointStatusList`), print servers (`newHAProxyController`), edit an annotation (`addKanaryRefInEp`, `deleteKyRefInEp`) | called by the reconciler and a handler |
| Reconciler (`syncKanary`) | the worker's copy of a Kanary, between calls | create/update ConfigMap, rolling update, four whole-object status writes, annotation of each backend, create Deployment, create/delete Service | reads the caches, writes the API server |
| Event handlers (`addKanary`, `updateKanary`, `deleteKanary`, `updateEndpoint`) | none of their own | enqueue a key, or walk the status of a deleted Kanary | called by informers; `deleteKanary` writes the API server itself |
| Informers (client-go) | two caches, two streams of events | deliver, resync every 30 s, list again when a watch breaks | API server to handlers |
| Work queue (client-go) and `handleErr` | `queue`, `dirty`, `processing`, the channel and the heap of delayed keys, failures per key | Add, Get, Done, AddRateLimited, Forget, ShutDown | handlers to workers, with a condition variable and a bounded channel |
| Process (`main.go`, `signal.go`, `Run`) | stop channel, goroutines | start, wait for the caches, stop on a signal | starts all of the above |
| Generated informers and listers (`factory.go`, `informers/`, `listers/`) | one informer for each type, which of them run | InformerFor, Start, first list | wired together by `NewController` |
| API types and their copies (`types.go`, `zz_generated.deepcopy.go`) | slices and maps shared by reference | DeepCopy of each type | every function that changes an object of a lister |
| Kubernetes (external) | the objects | optimistic locking, watch, garbage collection by owner, Endpoints of services | all |
| Generated clientset, HTTP routes, manifests | – | – | not modelled |

What is hard here, and what each part has to get right:

* **Concurrency.** Two workers, handlers, the resync and the retries share the
  queue; users and the endpoints controller write the objects the workers write.
  The writes are of whole objects, computed from copies taken several calls
  before. Correct: the queue gives a key to one worker at a time; no write undoes
  another; an annotation never loses a name of somebody else.
* **Ordering.** ConfigMap, rolling update, record in the status, annotations,
  Deployment, Service are separate calls, and *the record is what the next turn
  compares with*. Correct: what is recorded is in place and rolled out.
* **Failure.** A call may be refused or applied without an answer, the process
  may end between two calls, a watch may break. Almost every error ends the turn
  with `nil`, so that the queue does not retry: only the resync returns to it.
  Correct: what is left behind never misleads the next turn, and the Kanary gets
  provisioned in the end. The second is false in several ways (section 5).
* **Identity.** A Kanary may be deleted and created again under its name while
  what belonged to the old one is still being collected.
* **Sharing.** The objects of an index are read by every goroutine. Correct:
  whoever changes one works on a copy that shares nothing with it.
* **Starting and stopping.** Listers, `HasSynced` and handlers are taken from the
  factories one by one, the factories start in goroutines, signals come at any
  moment. Correct: workers see full caches; a signal ends the process wherever it
  is, even with handlers blocked on the queue.
* **Waiting.** Workers sleep on a condition variable and are woken one at a time;
  a key can wait in three places; a key may fail for ever. Correct: no key is
  lost or overtaken for ever, and retries end.
* **Numbers.** Weights divided by the number of pods in float32, so that the parts
  do not add up exactly (100/3 is 33.333332, three times); zero values of a port
  that is a name or a number.

`PROJECT.json` lists every hazard at its line with the property that covers it.

## 2. Modules

| Module | Models | Status |
|---|---|---|
| `EndpointStatus` | the pure operators, shared by the other modules | done |
| `HAProxyConfig` | one Kanary with reconciliations as one step: what ends up in the configuration | done |
| `KanaryController` | API server, informers, handlers, queue, workers, crashes | done |
| `MCHAProxyConfig`, `MCKanaryController` | their instances for TLC | done |
| `KanaryControllerProofs` | theorems about `KanaryController`: types, versions | done |
| `KanaryOwnershipProofs` | theorems: what a status names exists, is its own and is rolled out | done |
| `KanaryStatusProofs` | theorems: what is recorded is current and in order; the refinement of `Provisioning` | done |
| `KanaryRefsProofs` | theorem: the annotations of the Endpoints | done |
| `HAProxyConfigProofs` | theorems about `HAProxyConfig` and the copies of `KanaryMemory` | done |
| `KeyQueue` | abstract: a queue as its users see it, keys waiting and keys held | done |
| `WorkQueue` | the client-go queue in full, its workers and handlers, `handleErr`; implements `KeyQueue` | done |
| `WorkQueueProofs` | theorems about `WorkQueue`, its refinement of `KeyQueue` among them | done |
| `Lifecycle` | a process from `main` to its exit around `WorkQueue`; its own instances for TLC | done |
| `LifecycleProofs` | theorems about `Lifecycle`: what holds of the queue holds in the process; full caches | done |
| `KanaryMemory` | slices and maps as references, the generated copies, the changes made to copies | done |
| `Provisioning` | abstract: how a status grows; implemented by `KanaryController` | done |

    EndpointStatus <- KanaryMemory <- HAProxyConfig
    EndpointStatus <- KanaryController  --implements->  Provisioning
    WorkQueue <- Lifecycle;  WorkQueue  --implements->  KeyQueue

(`<-` is EXTENDS; each module of proofs extends the module it is about, and
`LifecycleProofs` also `WorkQueueProofs`, and `KanaryStatusProofs`
`KanaryOwnershipProofs`.) Every safety property of the passing runs is proved;
the liveness properties stay with TLC.

### EndpointStatus

Endpoints have `subsets`, each with ready `addresses` and `ports`. A status is a
sequence of entries `[service, weight, ips]`, a configuration a sequence of
servers `[name, weight, ip]`. `ip` is the pair the code joins as `addr:port`; the
weight is a float32, kept as the fraction `num/den` it stands for, `den` a power
of two: `Float32(a, b)` is the quotient a/b rounded to 24 binary digits, to the
nearest and on a tie to the even one, as the division of `haproxy_controller.go:73`
rounds it. It is right for weights and numbers of pods below `Exact` = 2^24, which
convert to float32 without a loss. What the template prints is the shortest
decimal that is read back as this float32. The functions return what the code returns, oddities included: the "or" of
`verifyEndpointPortExist`, one port for all subsets, inclusion rather than
equality in `deepEqualEndpointStatus`, index -1 for an element that is not there.

### KanaryController

| Variable | Code |
|---|---|
| `kan`, `ep`, `cm`, `dep`, `svc` | the objects in the API server |
| `kwatch`, `ewatch` | events not yet delivered, per object |
| `kc`, `ec` | caches behind `kanaryLister`, `epLister` |
| `pending` | keys in `queue`, those waiting for a delay included |
| `wk` | each worker: the call it is about to make (`pc`), its key, its copy of the Kanary, the status it built, the position in the loop over backends |
| `deleted` | deletions `deleteKanary` is working on: it runs in the informer's goroutine and makes one call for each backend |
| `panicked`, `budget` | whether something panicked; what is left of `Limits` |

`StartSync` takes a key, reads both caches and compares. From there each call to
the API server is one action, named after the function that makes it:
`CreateConfigMap` or `UpdateConfigMap` with `performRollingUpdate`, then
`updateStatusConfigMap`, `updateStatusEndpoint`, `AddKanaryRef` for each backend,
`CreateDeployment`, `updateStatusDeployment`, `CreateService` or `DeleteService`
followed by it, `updateStatusService`. `ToRefs`, `ToDeployment` and `ToService`
are the conditions of the code that skip steps. `Answer` is a call that was
applied, whose answer arrives or not; `Refuse` is a call that was not applied.
`UpdateStatus` is a write under optimistic locking; a write that changes nothing
keeps the version, as in the API server. Only `updateStatusService` gives its
error back to the queue (`handleErr`).

`DeleteKyRefInEp` is one round of the loop of `deleteKyRefInEp`, in the informer's
goroutine; an update that was applied and whose answer is lost ends the loop like
one that is refused (`EndDeletion`).

`Restart` empties everything in memory and lists again. `Panic` is the same with
`panicked` set. Neither waits for workers, as `Run` does not.

Abstractions, all in `PROJECT.json` too:

* names derived from the Kanary's name (ConfigMap, Deployment) are its name;
* Get followed by Update is one step where nothing the model tells apart depends
  on the gap: those writes replace the content whatever was read;
* a handler that only enqueues runs in the step that delivers its event;
* `pending` has no order, delays or retry count, and dropping a key after the last
  retry is a choice in `handleErr`. That a key waits until it is taken and that one
  worker holds it (the guard `Available`) is built in here; that the queue of the
  code gives it is `ImplementsKeyQueue` of `WorkQueue`. What can differ is a turn
  more: `KeyQueue` lets a key that was added twice be taken twice, and here an
  added key is taken once, which `Resync` makes up for by adding any key at any
  time;
* annotations that are not JSON, events, logs, labels and the template text are
  left out; a call in flight when its process ends is applied before or never.

### WorkQueue and KeyQueue

| Variable | Code |
|---|---|
| `queue`, `dirty`, `processing`, `shuttingDown` | fields of `workqueue.Type`, changed under its lock: one action for each locked section |
| `channel`, `delayed` | `waitingForAddCh`, and the keys of `waitingEntryByData` that `waitingLoop` keeps |
| `failures` | `ItemExponentialFailureRateLimiter.failures` |
| `wk` | each worker: outside its loop (`Away`), about to look at the queue (`Calling`), in `cond.Wait` (`Asleep`), or with a key: in `syncKanary`, about to count its failure, about to send it again, about to call `Done` |
| `posting` | the key a handler has counted in `AddRateLimited` and not sent yet |
| `streak` | history only: failed turns of a key since it was last forgotten |

`Add` and `Done` queue a key and signal one sleeper, if there is one: `Signal` is
the set of possible outcomes. A signalled worker looks again and may find that
another worker has taken the key, as with a real condition variable. `AddAfter`
blocks while the channel is full (`Send`); `Receive` and `Expire` are the
goroutine `waitingLoop`. `Succeed` and `Fail` are the two outcomes of a turn, of
which nothing else is kept here. `handleErr` compares the count under one lock
(`Fail`) and raises it under the next (`AddRateLimited`): a handler may count the
key in between. A handler's `AddRateLimited` raises the same
count as a failure, which is modelled as it is: a key with many events since its
last success may be dropped at its first failure.

Abstractions: a delay ends at any moment; `failures` stops at `MaxRetries`, with
which alone it is compared; metrics are left out. The fast path of `AddAfter` for
a queue that is shut down already is the branch of `Send` that drops the key.

`KeyQueue` has keys that wait (wherever: `dirty`, the channel or the heap), the
key each worker holds, and whether the queue is open. A key added several times
may be taken once for all or several times.

### Lifecycle

`main` is the main goroutine: `Setup`, three requests to each factory for an
informer (`Wire`), the wait for the caches, the wait for a stop, the exit.
`Start` is a goroutine of `main.go:62-63`, `Sync` an informer's first list,
`ReceiveSignal` the goroutine of `signal.go`, which is there from the first line
of `main`. `Work`, `Deliver`, `Post` and `Event` are the steps of `WorkQueue` under
the conditions of the process: a handler is called only by the informer it was
added to, a worker enters its loop only after `Run` has started it and while
`stopCh` is open, and everything ends with the process. Informers of a factory
have numbers: `InformerFor` gives the registered one, or makes number 1. `Start`
is concurrent with whatever follows `NewController`.

### KanaryMemory

`memory` is a sequence of arrays and maps, a slice or a map is an index of it or
`Nil`. Each `DeepCopy...` returns the memory after it and the copy; as in the
generated code a struct is assigned first and its references are then replaced
one by one. `RecordInCopy` and `AnnotateCopy` are `updateStatusEndpoint` and
`addKanaryRefInEp` on such objects. `HAProxyConfig` states the two properties of
copies for the objects of its reachable states: every list of routes, every
status, empty ones as `Nil`.

### Provisioning

The parts of a status in the order they are recorded. The refinement mapping
takes a part as recorded when its field is set. It is for specifications that
have routes: a Kanary without any has nothing to compare with, and never
records a list.

## 3. Runs

`HAProxyConfig` instances: two services, six lists of routes, seven states of a
service's Endpoints, and every sequence of changes (the state space is finite). `KanaryController` instances: one backend
service whose Endpoints hold one pod or two, two specifications (different
destination and weight). `Limits` bounds what the environment does; the
controller itself is not bounded.

| Run | Question | Bound (`MCLimits...`) |
|---|---|---|
| `config` | after a reconciliation, is every ready pod served, and do the servers of a route weigh together what it weighs, but for the rounding? do copies share anything with their originals? | all histories of the instance |
| `reborn` | does the status only name objects that exist and belong to this very Kanary? does a proxy always have its configuration? is anything recorded out of order? | two creations of one name, a deletion, a failed call, a crash, a broken watch |
| `edited` | does a stale worker undo an edit, or clear what was recorded? is the recorded list current, and rolled out before it is recorded? | two edits, one pod change, one failed call, one crash |
| `shared` | does an annotation lose the name of one Kanary when that of another is added or removed? | two Kanaries, two workers, one deletion; the backend has one pod or none |
| `calm` | is every Kanary provisioned in the end? | two lives of one name (two creations, two deletions), an edit, a pod change, two failures, a broken watch |
| `process` | does the queue lose, duplicate or starve a key? do retries end? does a sleeping worker miss a key? do workers see full caches? does a signal end the process? | two keys, two workers, both kinds of informer, a handler of Kanaries; `MaxRetries` 1, `Buffer` 1; signals and events at any moment and without a limit |

In `process` every bound is the smallest at which the case happens: `MaxRetries`
1 (15 in the code) has a turn that is retried and one that is dropped, and the
count is compared with it and nothing else; `Buffer` 1 (1000) is a channel that is
full after one key, so handlers and workers block on it; one handler posts, since
the two workers send to the same channel; two keys and two workers are what one
can withhold from the other. The state space is finite without any other limit.

Why these bounds are enough: each property relates at most two Kanaries, two
workers and two versions of an object; one adverse event of each kind is enough
to separate a record from what it stands for, and the runs place it between any
two calls. One service is enough because the loop over backends only repeats the
same step; two services matter for the configuration, where `config` has them.
In `shared` failures are left out (`reborn` and `edited` have them) and the two
Kanaries and the two workers are symmetric: the run checks no liveness property.
The other properties that the theorems of section 6 establish hold without any
bound.

Deadlock is not checked in these runs: with the budget spent and the work done
only the resync remains, and before anything is created nothing has to happen.

### Liveness and fairness

`FairSpec` adds weak fairness for deliveries, the resync timer, garbage
collection, the deletion handler and each worker's next step: goroutines of a
live process run, and the informers keep their promises. Taking a key has strong
fairness for each key: a key is not available while a worker holds it, but the
queue is first in first out, so a key that is available again and again is taken.
Nothing is assumed of users, pods, failures or restarts.

`Lifecycle!FairSpec` has weak fairness for `main`, the informers' first list
while there is no stop, `waitingLoop`, the end of each delay and each worker's
next step, and strong fairness for a goroutine that waits to send: Go serves
blocked senders in their order, so one that finds room again and again gets it.
Nothing is assumed of signals, of events, or of how a turn ends. Under it
`WorkersStart` says that `Run` does not wait for a cache that nobody fills,
`StopsWhenTold` that a signal ends the process, and `KeysAreServed` that a key that
waits is taken, although others fail for ever and events keep coming. The last is
what the strong fairness of `StartSync` in `KanaryController` stands for.

`Converges` says that every Kanary whose routes can be resolved ends up
provisioned, and stays so. It holds in `calm`, where `Calm = TRUE` restricts the
environment: users and pods change something only when nothing is under way, no
garbage is left and no Kanary is half provisioned; no process ends in the middle;
and the failures are those of `MCRefusedCalm` and `MCUnansweredCalm`, for which
the next turn can tell from the status where to go on. Each restriction is
needed: lift the first and `pod_change` is a counterexample, the second, and a
process that ends in the middle is one, the third, and `move` is one. That is what the run shows: which part of
the controller's life is self-healing, and that there it really is.

## 4. Properties

Each is stated at its definition with the code it is about. Those of
`KanaryController`:

* `StatusBacked`, `DeploymentHasConfig`: a name in the status stands for an
  object that exists and has the identity of this Kanary. They break when a
  create accepts an object that is already there (mutants `CreateDeploymentOrKeep`,
  `CreateConfigMapOrKeep`): the object is the old Kanary's and is collected later.
* `StatusMonotone`, `SpecUntouched`, `RecordedRoutesAreCurrent`: whole-object
  writes from old copies, which the edits of `edited` make of the same Kanary. They
  break when a write drops the version check or
  starts from another object.
* `RecordedIsRolledOut`: breaks when the record is written without the rolling
  update.
* `RefsKept`: two Kanaries and a deletion, each change of the annotation computed
  from a cached one. Breaks when it is written without the version check.
* `ImplementsProvisioning`: the parts of a status are recorded in one order, each
  once, by whatever turns and processes. Breaks when the Deployment's
  part is skipped by a test of the wrong sense (`HAProxyCreationDone`).
* `Converges`: provisioned up to what the comparison lets stand, so pods that have
  gone may stay recorded (`config_scale_down`). Breaks when a later step is skipped because an earlier record
  exists.

Those of `WorkQueue` and `Lifecycle`:

* `QueueHoldsWhatIsDirty` is the comment of `queue.go:48-50` and its converse: a
  key that becomes dirty while it is processed comes back once, by `Done`.
* `NoSleeperIsMissed`: while a worker sleeps, there is a worker awake for each key
  in the queue. It breaks when the signal is left out, and is why `Signal` instead
  of `Broadcast` is enough in `Add` and `Done`.
* `RetriesAreBounded`: between two forgets a key fails at most `MaxRetries` times,
  whatever handlers count meanwhile, and between the comparison and the count of one
  failure. It breaks when the comparison lets one more through.
* `ImplementsKeyQueue`: breaks when `Add` queues a key that is being processed, so
  that two workers hold it.
* `KeysAreServed`: breaks when `Get` takes the last key instead of the first: a
  key that keeps coming back then hides the one queued before it.
* `WorkersReadFullCaches`, `WorkersStart`, `StopsWhenTold`: break when the wait is
  for one cache, when each use gets an informer of its own, and when `Run` ends
  only after its workers were started.

Those of `HAProxyConfig`: `EveryReadyPodIsServed` is about the comparison.
`RouteWeightIsShared` is about the division: a route with a ready pod has server
lines, and these weigh together what the route weighs but for one part in 2^24,
which is the most that rounding a quotient to float32 can cost; it breaks when the
weight is divided as an integer before it is converted (`ServersOfWhole`). `CopiesAreIndependent` and
`CachedObjectsAreNotWritten` about copies: they break when a copy of a list copies
its elements as values (the generated code of an older type, say), or the
annotations are shared with the cached Endpoints.

## 5. What the code does not do as documented

Each of these has a run with `expect: violation` and a finding in `PROJECT.json`.

| Run | What happens |
|---|---|
| `config_scale_down` | A pod that goes stays a server: only missing pods make the lists different. |
| `pod_change` | A version conflict on the annotation ends the first turn after `configName` was recorded; the pods having changed, every later turn takes the update branch and fails at a Deployment that was never created. |
| `move` | The old Service is deleted, the new one refused once: each later turn fails at deleting the old one. |
| `refs` | An annotation lost to a conflict is never written again, as the status is already equal. |
| `relist` | The deletion of a Kanary during a broken watch arrives as a `DeletedFinalStateUnknown`, and the handler's type assertion panics. |
| `shutdown` | `Run` promises to wait for the workers to finish their items; it returns at once and the process exits with 0 in the middle of one. |

The models show more of the same kind, without a run of their own:

* a process that ends between recording `configName` and recording `proxyName`
  leads to the state of `pod_change` (`EveryPodIsProxied` with one restart instead
  of one pod change);
* deleting a Kanary whose name an annotation lacks, after the conflict of `refs`,
  slices with index -1 (`DeletionPanics`, which is among the steps that `shared` takes; the run of
  `NoPanic` has one Kanary and does not reach it);
* a port given by its value matches the first unnamed port, whatever its number,
  and a port is looked up once for all subsets (`verifyEndpointPortExist`,
  `Resolve`; README.md:46);
* `enqueueKanary` counts each event as a failure of its key, so the number of
  retries a key gets depends on how many events it had (`enqueueKanary`, `Fail`);
* weights that do not sum to 100 are used as they are (`ErrWeightRoutes` is never
  returned; README.md:48).

## 6. Proofs

### KanaryController

The theorems hold for every value of the constants that satisfies
`ControllerAssumption` and `NoneAssumption`: a missing object is not an object;
routes are a list (a Go slice) and name known services; the failing calls are
calls; the bounds are natural numbers. TLC evaluates both assumptions in each run.

| Theorem | States | Module |
|---|---|---|
| `TypeCorrect` | `Spec => []TypeOK` | `KanaryControllerProofs` |
| `CopiesInvariant` | `Spec => []Copies` | |
| `SpecIsTheUsers` | `Spec => SpecUntouched` | |
| `StatusGrows` | `Spec => StatusMonotone` | |
| `BackedInvariant` | `Spec => []Backed` | `KanaryOwnershipProofs` |
| `StatusIsBacked` | `Spec => []StatusBacked` | |
| `DeploymentsHaveConfig` | `Spec => []DeploymentHasConfig` | |
| `RolloutComesFirst` | `Spec => RecordedIsRolledOut` | |
| `ListsAreCurrent` | `Spec => RecordedRoutesAreCurrent` | `KanaryStatusProofs` |
| `ProvisioningIsImplemented` | `HaveRoutes` implies `Spec => ImplementsProvisioning` | |
| `RefsAreKept` | `Spec => RefsKept` | `KanaryRefsProofs` |

**Types and versions.** `TypeOK` is inductive as it stands. It is cut into
parts (`KanariesTyped`, `EndpointsTyped`, `OwnedTyped`, `CachesTyped`,
`WorkersTyped`, `ProcessTyped`, `BudgetTyped`) and each action disturbs a few;
`FrameType` takes care of the others. Behind it are facts on the operators: `BuildType` (a build depends on the
subsets of the Endpoints alone, so that what a worker builds from its cache is a
status), `RefsType` (removing a name that is there gives a list of names).

The proofs about ownership need that no other worker holds the key of a turn. In
this module that is the guard `Available` and no more than a lemma
(`OneWorkerPerKey`); that the queue of the code provides it is `OneHolderAlways`
and `QueueImplements` below.

`SpecUntouched` and `StatusMonotone` are not inductive: a worker writes back the
object it read some time ago. The strengthening is `Copies`: a copy, wherever it
is, has no identity later than the last one given, and if its identity is the
stored one it is not newer, and *with the stored version it is the stored
object*. Writes either leave it alone or store the next version (`Evolves`), and
no copy comes from nowhere (`Tracks`); these two give `CopiesStep`. The version check
then makes each status write a step from the object that is stored
(`WritesSucceed`), of which `Succeeds` says what may change. `Copies` was checked
by TLC on the instances `reborn`, `edited` and `shared` before it was proved.

**Ownership.** `StatusBacked` and `DeploymentHasConfig` are far from inductive. A
turn decides with a copy from the cache, maybe of an earlier Kanary of the name,
whether to create or to update; it then writes the ConfigMap, which carries no
version, and restarts the pods, and only the write of the status finds out that
the copy was old. Why is the new Kanary's ConfigMap never overwritten by such a
turn? Because of what `Backed` says:

* an owned ConfigMap shows that the cache has left every earlier Kanary of the
  name behind (`ObjectsBacked`): only a turn with a copy of this Kanary creates
  one, and that copy came from the cache, which does not go back
  (`EventsInOrder`);
* so a worker that still holds a copy of an earlier Kanary meets no ConfigMap of
  the present one (`WorkerBacked`): it is the only worker of the key, hence it was
  already there when nobody had created one;
* a worker with a copy of this Kanary has done what its position in `syncKanary`
  says (`Progress`): the ConfigMap has the servers of its list, the proxies were
  restarted with them, the Deployment is there;
* no copy shows a configuration the stored object does not record (`Known`).

`BackedStep` looks at one key (`SameKeyBacked`: the others are left alone) and at
each action. `StatusIsBacked` and `DeploymentsHaveConfig` are conjuncts;
`RolloutComesFirst` follows from `Progress` and from `ListWrite`: a list is stored by
the call after the rolling update and by no other step. `Backed` was checked by TLC on
`reborn`, `edited` and `shared` before it was proved.

**What is recorded.** For `ListsAreCurrent` the invariant is `Builds`: the list a
worker carries was built for the routes of the copy it carries. The version check
(`CopiesInvariant`) makes the copy the stored object when the list is stored.
For the refinement it is `AllInOrder`: in a stored object, a copy or a worker a part
of the status is set only if the parts before it are, and a worker at a later call
has a copy with the earlier parts (`WorkerInOrder`). Each step then adds at most
the next part to one Kanary, or creates or removes it (`KanaryAdvances`), which is a
step of `Provisioning` or none (`ProvisioningStep`). `HaveRoutes`, that no
specification has an empty list of routes, is the hypothesis of this theorem alone:
without routes the expected list is equal to the empty one that is recorded, and
`syncKanary` goes to the Deployment without the first two parts.

**Annotations.** `RefsKept` needs for Endpoints what `Copies` is for Kanaries,
`EndpointsCopies`: a cached or delivered object that has the stored version is the
stored object. Then an accepted update adds one name to, or removes one from, what
is stored.

### HAProxyConfig

`HAProxyConfigProofs` assumes `ConfigAssumption`: routes, subsets and addresses are
lists, routes name known services, a weight is an integer. Nothing is assumed of
the lengths, of the weights' sum or of the ports; `RouteWeightIsShared` is about
routes that weigh less than `Exact`.

| Theorem | States |
|---|---|
| `ConfigTypeCorrect` | `Spec => []TypeOK` |
| `ReadyPodsAreServed` | `Spec => []EveryReadyPodIsServed` |
| `WeightsAreShared` | `Spec => []RouteWeightIsShared` |
| `CacheIsNotWritten` | `Spec => []CachedObjectsAreNotWritten` |
| `CopiesShareNothing` | `Spec => []CopiesAreIndependent` |

The invariant is `SettledInv`: the status is a list with lists of pairs, and after a
reconciliation it compares as equal to what is expected. It need not be equal to
it, since pods that have gone stay, so the theorems about the servers argue from
the comparison:
each route has an entry with its service, its weight and at least its pairs
(`EntryOf`). If no service has two routes, the entry is the only one of the
service, there being as many entries as routes (`EntryIsOnly`, by counting).

The functions concatenate lists of any length, by recursion on the length.
The library's induction theorems cannot be used, but the least length for which
something fails can be looked at (`Least`): `FlatExists` (the recursion defines a
function) and `FlattenPlaces` (each list has its place in the result, and nothing
else is there) are proved in this way, and so are `SumOfEqual` (the sum of n equal
weights), `PowerDoubles` (powers of two) and `PowerIsLarge`.

For `WeightsAreShared` each line of a route with weight a and n pods weighs
`Float32(a, n)`. `ScaleExists` shows that a/n can be scaled by a power of two
2^s to at least 2^23 and less than 2^24, for a below 2^24 and any n (the greatest
s for which it stays below is not too small), so that the choice in `Float32` is
defined. The nearest integer is off by half at most (`NearestIsNear`), which is
one part in 2^24 of the scaled quotient; n times that is the same part of the
weight (`QuotientIsNear`), and the n lines are equal (`LinesOfService`,
`LinesShare`).

**Copies.** Of the status the two theorems about copies need only that it is a list
of entries with lists of pairs. The argument is about memory: an array more leaves
the others where they are (`Grown`, `MadeGrows`), so what an object shows stays as
it is while memory grows (`KanaryStays`). An object lies in a part of memory
(`KanaryIn`), and `CopyOfKanary` is what a deep copy promises: wherever the object
lies, its copy lies in the part of memory that is new, and shows the same. Two
objects in parts that lie apart share nothing (`PartsApart`), which gives
`CopiesShareNothing`; an array that was there before the copy is in no part that is
written, which gives `CacheIsNotWritten`. The generated code copies the entries of a
status in a loop, a fold here: `FoldExists` and `FoldSteps` show, with the least
counterexample again, that the fold takes the elements one after the other, and
`CopyAllEntries` that after k of them k have been copied.

### WorkQueue and Lifecycle

`WorkQueueProofs` assumes `QueueAssumption`: `None` is not a key, the workers are
finitely many, `MaxRetries` is a natural number and `Buffer` a positive one. Keys
and handlers are arbitrary sets.

| Theorem | States | Inductive invariant |
|---|---|---|
| `QueueTypeCorrect` | `QueueSpec => []QueueTypeOK` | itself |
| `RetriesEnd` | `QueueSpec => []RetriesAreBounded` | `FailuresAreCounted`: what has failed is counted in `failures`; `RoomIsKept`: a worker that has compared and not yet counted still has room, as no other worker can count a failure of its key |
| `QueueIsDirty`, `OneHolderAlways` | `QueueSpec => []QueueHoldsWhatIsDirty`, `[]OneHolder` | `HoldInv`: both, and `processing` is what the workers hold |
| `SleepersAreNotMissed` | `QueueSpec => []NoSleeperIsMissed` | itself, with the types |
| `QueueImplements` | `QueueSpec => ImplementsKeyQueue` | `HoldInv` |

None of the three parts of `HoldInv` is inductive alone: `Get` hands out a key that
nobody holds because what is queued is not in `processing`, and `Done` may queue a
key without queueing it twice because its worker was the only holder. The library
has no facts about the range of a sequence for `Append` and `Tail`; `AppendElements`,
`TailElements`, `AppendDistinct` and `TailDistinct` are proved first.

`NoSleeperIsMissed` is a matter of counting: a key that is queued adds one to the
length, and its signal adds one to the workers on their way if anyone sleeps
(`SignalIsEnough`); a worker that takes a key takes one from both; a worker goes to
sleep only when the queue is empty.

For the refinement a step of the queue either moves a key between the places
where it can wait, which `KeyQueue` does not see (`MoveKey`; after `ShutDown` the key
may be lost, which it allows), or sends a key to the channel (`SendKey`, a step
`Add`), or is `Take`, `Release` or `Close`.

`LifecycleProofs` shows that a step of the process is a step of the queue or leaves
it alone (`QueueStep`), so `Spec => QueueSpec` (`ProcessUsesTheQueue`), and each
theorem above holds of the process. `ProcessTypeCorrect` is `Spec => []ProcessTypeOK`.
`CachesAreFull` is `Spec => []WorkersReadFullCaches`, for any kinds of object: its
invariant `ProcessInv` says which uses are wired to the registered informer at each
point of `NewController` (`Wiring`), and that nobody is in a worker's loop before
`Run` has seen full caches (`StartedInOrder`). A key that arrives earlier wakes
nobody (`AwayStaysAway`).

### What is only model-checked

* `Converges`, `WorkersStart`, `StopsWhenTold` and `KeysAreServed`: liveness under
  fairness, which is out of the prover's reach.

## 7. Not modelled

* The generated clientset, the registration of types, HTTP routes, manifests, the
  text of the HAProxy template: no state and no decisions. The clientset's fakes
  and the filters of informers are not used by the program.
* The lengths of delays, and metrics.
* A call in flight across a restart, and two Kanaries that exchange their
  destinations (`PROJECT.json`, hazards).
* Kubernetes beyond what the operator's calls see of it.

## 8. Running

    tlc -workers 2 -config KanaryReborn.cfg MCKanaryController.tla
    tlc -workers 2 -config Lifecycle.cfg Lifecycle.tla
    for m in KanaryController KanaryOwnership KanaryStatus KanaryRefs \
             HAProxyConfig WorkQueue Lifecycle; do tlapm ${m}Proofs.tla; done

`PROJECT.json` names the module of each `.cfg`.
