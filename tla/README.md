# Verification of storage-capability

TLA+ modules, TLC configurations and TLAPS proofs for the storage-capability
controller, sidecar and admission webhook (`pkg/controller`, `pkg/sidecar`,
`pkg/handler`, `pkg/webhook`). Paths and line numbers below are relative to the root
of the repository.

## The system

Two custom resources describe what storage can do. A *ProvisionerCapability* says what
a CSI driver can do; a *StorageClassCapability* says what a StorageClass can do.

```
 CSI driver --gRPC--> sidecar --Get/Create/Update--> ProvisionerCapability ----+
                                                     StorageClass -------------+--> controller
                                                     VolumeSnapshotClass ------+        |
                                                     StorageClassCapability <--+--Create/Update/Delete
 pod creation --> webhook --> sidecar container + ClusterRole(Binding)
```

| component | state | operations | what is hard | what makes it correct |
|---|---|---|---|---|
| controller `pkg/controller/controller.go` | four informer caches, a rate limited work queue, five workers with their locals; all in memory | event handlers, `processNextWorkItem`, `syncHandler` | caches lag and are read one after the other; notifications lag behind the caches; conflicts; failing calls; crashes | every change reaches the StorageClassCapability, none is left of a deleted class, none mixes two drivers |
| start and signals `cmd/controller/main.go`, `pkg/controller/singal.go`, `Run` | three informer factories, the fields of the controller, the stop channel | wire, start informers, check the version, wait for caches, start workers, stop | order of start; kinds that are not installed; two signals; ends at any moment | no worker decides on an empty cache; a signal ends the process; a process that can work does |
| custom resources, clientset, informers, listers `pkg/apis`, `pkg/generated` | objects in the API server and in the caches | list, watch, get, create, update, delete | lost watches, old resource versions | (assumed behaviour of Kubernetes) |
| sidecar `pkg/sidecar`, `cmd/sidecar` | nothing but the locals of one pass | a pass every 60 s: four calls to the driver, a Get, a Create or an Update | several sidecars of one driver; a driver replaced in the middle of a pass; lost calls | what is published is what one release of the driver reports, and settles on a running one |
| CSI handler `pkg/handler/plugin.go` | none | `GetFullCapability` and its four calls | repeated, missing and unknown entries | the loop means what it should |
| webhook `pkg/webhook`, `cmd/webhook` | the RBAC objects in the API server, the locals of each admission | one admission: patch, ClusterRole, ClusterRoleBinding | concurrent admissions, one creation of two failing, an API server that gives up, deleted RBAC objects, colliding names | a pod with a sidecar has the rights its sidecar needs (which the code achieves only when no other account makes the same binding name) |
| get-api `cmd/get-api` | none | lists objects | - | - |

They interact through the API server only: the sidecar writes what the controller
watches, and the webhook puts the sidecar beside the driver.

## The modules

| module | what it is |
|---|---|
| `Capability` | the data of the API group, `newSccap` and `updateSccap` |
| `Cluster` | external: the objects of the API server and what users do to them |
| `WorkQueue` | external: the client-go queue as the controller uses it |
| `Controller` | informers, handlers, workers, the life of the process in three phases; EXTENDS `Cluster` and `WorkQueue` |
| `ControllerProperties` | properties, fairness and inductive invariants of the controller |
| `ControllerProofs` | their proofs |
| `Reconciler` | abstract: what a controller promises of the objects it keeps, without caches, queue or workers |
| `ReconcilerProofs` | that `Controller` implements it, and what follows from it |
| `ControllerHistory`, `ControllerHistoryProofs` | the controller with a history variable, the property that needs it, its proof |
| `MCController`, `MCControllerBudget` | instances for TLC; the second one bounds users and faults, and has the history variable |
| `FifoQueue` | external: the client-go queue with its order and its shutdown |
| `InformerFactory` | the generated factory: one informer per kind, started once |
| `Process` | `main`, `NewController`, `Run` and the signal handler in full, over `FifoQueue` and `InformerFactory`; what a worker does with a key is left to `Controller` |
| `ProcessProperties`, `ProcessProofs`, `MCProcess` | its properties, their proofs, an instance |
| `Plugin`, `PluginProofs` | what a driver answers, what `GetFullCapability` makes of it, and what its loop computes |
| `Sidecar`, `SidecarProperties`, `SidecarProofs`, `MCSidecar` | any number of sidecars, their properties, their proofs, instances |
| `Composition` | `Sidecar` and `Controller` over one API server; EXTENDS the first, has an INSTANCE of the second |
| `CompositionProofs`, `MCComposition` | its proofs, a bounded instance |
| `Webhook`, `WebhookProperties`, `WebhookProofs`, `MCWebhook` | the admission webhook, its properties, their proofs, an instance |

Detailed specifications that implement abstract ones:

| detailed | abstract | property |
|---|---|---|
| `Controller` | `Reconciler`, class by class | `ImplementsReconciler` |
| `Process` over `FifoQueue` | `WorkQueue`, the queue that `Controller` is built on | `ImplementsQueue` |
| `Sidecar` | what `Cluster` lets happen to ProvisionerCapabilities | `ImplementsUsers` |
| `Composition` | `Controller` in an environment that may publish anything | `ImplementsController` |
| `Process`, as far as the workers read | `StartWorkers` of `Controller`, which waits for all four caches | `ReadsAreSynced` |

The first four are refinement mappings; the last one is an invariant.

Some definitions are marked "A mistake": plausible bugs that no behaviour uses. Each
property is known to fail when one of them takes the place of the definition after it.

### Controller: state

| TLA+ | code |
|---|---|
| `sc`, `snap`, `pcap`, `sccap` | the objects in the API server |
| `scCache`, `snapCache`, `pcapCache`, `sccapCache` | the caches behind `scLister`, `snapLister`, `pcapLister`, `sccapLister` |
| `synced`, `phase` | the four `HasSynced`; before `main`, before and after line 228 of `Run` |
| `pending[kind]` | notifications of an informer its handlers have not run for |
| `dirty`, `processing`, `delayed` | the sets of client-go's queue, and what `AddRateLimited` will add |
| `worker[w]` | `pc` and locals of a goroutine in `syncHandler`: `key`, `class` (`sc`), `pcap`, `driver` (of `snapClass`), `held` (`sccap`) |

A StorageClassCapability in a cache or in a local is only a `[there, latest]` pair:
`syncHandler` overwrites its whole spec, so that only its existence and its resource
version matter. Any write to the name resets `latest`; an Update without `latest` is
rejected (conflict or not found).

### Controller: actions

One action per step another party can see: the dequeue (`ProcessNextWorkItem`), the four
cache reads of `syncHandler` (`GetStorageClass`, `GetProvisionerCapability`,
`GetSnapshotClass`, `GetStorageClassCapability`), each API call together with the return
of `syncHandler` and the `Forget`/`AddRateLimited`/`Done` that follow it
(`CreateCapability`, `UpdateCapability`, `DeleteCapability`), and `DerivePanics` for the
nil dereference in `newSccap`/`updateSccap`. What the server does with a request of the generated
client is `Created`, `Updated` and `Deleted`; the reads of the generated listers are `pcapLister`
and `sccapLister`. `Handle` is one run of an event handler;
`enqueuePcap` lists the cache of classes and adds the keys in one step. `InitialList`,
`Deliver...` and `Resync...` are the informers. `StartInformers`, `StartWorkers`,
`Crash` and `ProcessExits` are the life of the process.

What is abstracted, and why that is sound:

- A delivery brings a cache to the latest version at once. Intermediate versions only
  add notifications with the same name, which enqueue the same key.
- The notifications of an informer are a set, not a queue: a handler only uses the name
  and the cache, so that order and repetition do not matter. More interleavings
  are possible than in the code, none less.
- Handlers of classes and snapshot classes drop the resync, which has the
  resource version they know; it is not modelled. Those of the two custom resources do not.
- The initial list shows the cluster at the moment it is taken.
- A call that is on its way when the process ends happens before the end or never.
- An object that came and went while its watch was broken is not announced.
- The queue hands out any queued key; the fairness below says that none waits forever,
  which `Process` shows of the queue that is first in, first out (`NoStarvation`).
- The back-off of a key is "later", so `Forget` has no effect.
- The version check of `Run` is one of the ways the process ends; `Process` has it.
- Topology and the five Boolean volume features are one value, because the code always
  copies them together. The provisioner of a class is immutable, as Kubernetes has it.
- The listers return no error but "not found": the indexer has no other error for Get.

### Reconciler: the abstract specification

An object is unknown, queued, handled or settled. Others may change what is wanted of it, which queues
it (`Queue`) or makes it unknown (`Forget`), and may overwrite it, which leaves a newer version unseen
(`Overwrite`); `Take` and `Settle` are the controller's. The mapping from `Controller`: a class that is
cached is *queued* when it is scheduled, *handled* when it is not and a worker has it that has read
nothing but what the caches show now (`UpToDate`), and *settled* otherwise; what is *wanted* is what
the caches say (`WantedOf`), or nothing when there is no ProvisionerCapability; what is *found* is the
StorageClassCapability in the cluster, and it is *known* when the cached copy is the latest. Each class
takes its own abstract step, because one handler (`enqueuePcap`) queues many of them.

The abstract specification says nothing about an object after a step that queues or forgets it. All it
forbids is that an object becomes, is or stays handled or settled in any way but these: it is taken from
the queue, it is written as wanted by whoever handles it, or somebody else overwrites it and that will be noticed.

### Sidecar: state and actions

`driver[s]` is the release running beside sidecar `s`, `connected[s]` whether the
sidecar's connection leads to the driver process that runs now, `sidecar[s]` the
program counter and what it has read. `GetPluginInfo`, `GetIdentityCapability`,
`GetControllerCapabilities` and `GetNodeCapabilities` are the calls of
`GetFullCapability`; the last one puts the spec together. `GetCapability`,
`CreateCapability` and `UpdateCapability` are `createOrUpdateProvisionerCRD`, where the
comparison of line 91 is `DeepEqual`, which is never true. A reply is "ok", "rejected" or
"lost" (the call fails and may have been executed). `DriverRestarts` replaces the driver:
the connection is lost, no call succeeds through it any more, and
`ExitOnConnectionLoss` ends the process (`ConnectionLost`). Administrators may delete a
ProvisionerCapability; they do not write one.

### Process: state and actions

`main` is where the main goroutine is, `step` how many calls of that phase it has made;
`factories` are the three informer factories, `uses[u][k]` the informer behind the lister,
the `HasSynced` or the handler of kind `k`. An informer is named by its kind and the
number of informers its factory made before, so that two informers of one kind
would be two. `queue`, `dirty`, `processing`, `delayed` and `shuttingDown` are
client-go's queue, `busy[w]` the key of a worker, `signals` what is in the channel of the
signal handler, `installed` the kinds the server has a definition of, `server` whether it
is new enough.

`Wire` is one of the twelve calls of `NewController` that reach `InformerFor`
(every `Lister()` does, too), `StartFactory` one of the three calls of `Start`.
`VersionIsValid`, `VersionIsOld` and `CheckFails` are lines 210 to 217 of `Run`,
`StartWorkers` and `WaitIsAborted` the two outcomes of `WaitForCacheSync`, `Stop` what
follows line 233, and `Return` the deferred `ShutDown`. `FirstSignal` and `SecondSignal` are
the two receives of `SetupSignalHandler`. `Exit` is the end of `main`, which does not wait for
the workers: after `Stop` they go on taking keys (`Take` in "draining") until the process is gone.
A stop during the wait for the caches ends in `Fatalf`, because `Run` returns an error.
`Notify` is an event handler that adds any key; `Succeed` and `Fail` are the ends of
`syncHandler`. The process may be started again at any time, as a Deployment does.

### Webhook: state and actions

`role` and `binding` are the RBAC objects, `pod[p]` what was written, where its
creation is, and the container that was added. `handler[h]` is a goroutine of the
HTTP server with its locals: the pod whose creation waits for it (`None` when the API
server has given up; such a goroutine ends with its last call, because nobody reads its answer), the
pod it decoded, the patch, and the answer. An account has a name and a
namespace, which are sequences of words that hyphens join. `UniqueName` puts the word "in" between
the two, and different accounts may share the result: "a-in-b" in "c" and "a" in "b-in-c".

`AddSidecarContainer` reads the request and decides: a pod it cannot decode (`Unreadable`: it was built
with one version of the API) is denied. `createSidecarClusterRole` and
`createSidecarClusterRoleBinding` are the two calls with every reply ("ok", "exists",
"rejected", "lost"), `DecodeFails` is the template that does not decode, because it writes
names without quotes, and `serveAdmitFunc` the answer. `CallFails` is an API server that cannot
reach the webhook, does not get an answer in time, or gets an error status: the
`MutatingWebhookConfiguration` says no failurePolicy and its version's default is Ignore, so that the
pod is created as it is, and the goroutine goes on. `Crash` is the end of the process between any two
steps. `DeleteRole` and `DeleteBinding` are administrators; `deleted[p]` is a history variable that
records what they took from `p` since the webhook was asked about it, so that `Rights` can say "unless
somebody deleted it"; it is forgotten when `p` is not admitted.
`Valid` is external: the API server refuses two containers of one name and the
mount of an unknown volume. The labels and the rules of the RBAC objects, the image and the
arguments of the container never change and are left out.

### Composition

`Composition` has the variables of both specifications. `pcap` is the sidecars'; the
controller's is their features. A step is one of a sidecar, its driver or an administrator while
the controller stutters, or one of the controller, its faults or the users of classes while the
sidecars stutter. The users of `Controller` who set a ProvisionerCapability are gone: the
sidecars take their place.

## What TLC checks

All classes, drivers and features are model values or records of a few. Nothing but the
sets is bounded, except in `two_classes` and `composition` (users and faults) and in
`process` (what goes wrong): elsewhere users, crashes and faults happen any number of times.

| run | instance | shows |
|---|---|---|
| `updates` | 1 class that forbids expansion (deleted and created again), its snapshot class, 1 driver whose ProvisionerCapability comes, goes and changes between two modes, 1 worker, calls fail, users write and delete the StorageClassCapability | `TypeOK`, `UpdateInv`, `NoLostUpdate`: when all is quiet the StorageClassCapability is right, without any resync |
| `two_classes` | 2 classes of 1 driver, 2 workers, at most 1 step of users or faults, from every initial cluster | `KeyExclusive`, `NoLostUpdate` when one driver concerns several classes; `ExistingClassKept`: no existing class is taken for a deleted one |
| `drivers` | 1 class that moves between 2 drivers and omits AllowVolumeExpansion for the second (which panics), 1 worker, no failing call or watch | `OneDriver`: no mixture of two drivers; `OrphanInv`, `NoOrphan`: nothing is left of a deleted class; `ReconcilerInv`, `ImplementsReconciler`: the controller is a reconciler |
| `converges` | 1 class, 1 driver, 1 worker, every fault | `Converges`: after the last fault all becomes consistent (liveness) |
| `sidecars` | 2 sidecars of 1 driver with 3 releases: one that names two kinds of expansion, one none, one a known kind and then an unknown one | `TypeOK`, `SidecarInv`, `Whole`: what is published is what one release reports; `LastExpansionCounts`: and says the expansion the driver names last, and a mode that `types.go` defines for exactly the releases that name one (see below); `ImplementsUsers`: the sidecars are the environment of the controller; `Publishes`: what is published settles (liveness) |
| `webhook` | 2 pods with 6 manifests: two whose accounts make one binding name, one whose account makes a name of its own, one that forgets an annotation, one that cannot be decoded, one whose account is a number; 2 goroutines, every fault | `TypeOK`, `RightsInv`, `Rights`: a pod with the sidecar finds the ClusterRole and a binding of its name, for its own account if no other account makes that name; `BindingsStay`: a binding is never turned over; `Admitted`: a pod that can be admitted is (liveness) |
| `process` | 2 keys, 2 workers, 3 of: a signal, a crash, a version check that fails; definitions and versions change | `TypeOK`, `ProcessInv`, `ReadsAreSynced`: workers read synced caches of the informers that notify them; `ImplementsQueue`; `NoStarvation`, `Stops`, `Runs` (liveness) |
| `composition` | 1 sidecar of 1 driver with 2 releases, 1 class, 1 worker, at most 1 step of users, driver or faults | `ReportedByOneRelease`: no StorageClassCapability mixes two releases; `QuietIsReported`: when nothing is under way for a class it says what the class says now and a release reports; `ImplementsController`; `Delivers`: it settles on what a running driver reports, without the resync (liveness) |

Why the instances are large enough: keys only meet in `enqueuePcap` and in the queue, so
two classes show every interaction between classes; one key is with one worker
(`KeyExclusive`, proved), so that a second worker matters only for other
keys, and two of them show it; a mixture or a loss needs two versions or two drivers.
An edit of a class in place goes the way of an edit of its ProvisionerCapability; to run both
together with snapshot classes takes TLC too long. The proofs cover it, and every other size.
Two pods are enough for the webhook, because admissions only meet in the ClusterRole and in
one binding; one of them may have the colliding name, a name of its own, or none of the webhook's
business. In `process`, three things that go wrong are enough for both signals of one life and a crash in the
next one, and for a signal more than the channel holds; the version and the definitions change without a bound. In
`composition`, the state space is the product of two systems that are checked with
every fault on their own; one disturbance at any moment is what they have not met yet:
a change that has to go all the way, or that comes in the middle of another that does.

`two_classes` is the only run of the controller that may stop: when its one disturbance
is spent and the classes are gone there is nothing left to do, so deadlock is
not checked there.

### Runs that find a violation

Each states what the repository says of itself, and TLC finds a behaviour of the code
that is different.

| run | what the repository says | what the code does |
|---|---|---|
| `collision` | `README.md:38` "The webhook will add sidecar container and ClusterRoleBinding when deploying CSI plugin with special annotation." and `pkg/webhook/controller.go:246` `UniqueName` | account `a` in namespace `b-in-c` and account `a-in-b` in `c` make one name: for the second one Create returns AlreadyExists, which line 281 takes for success, and its pod runs with a sidecar that has no rights |
| `tombstone` | 200 "Recovered deleted object '%s' from tombstone" | 203 passes the tombstone on, its key cannot be made, and the deletion is dropped |
| `recreated` | 80 "update StorageClassCapability CRD resource object to the newest status." | a class created again for a driver without ProvisionerCapability keeps what was derived for its old driver |
| `nil_expansion` | 279 "When creating a new storage class, the controller will create a new storage capability object." | a class without the optional AllowVolumeExpansion makes the worker panic after every restart |

More places where the code does something else than it says have no violation of their own:

- A successful Delete ends the process. Line 297 calls `err.Error()` when `err` is nil, although line 281 says "When
  deleting storage class, the controller will delete storage capability object." and the next line is
  `return nil`. `DeleteCapability` models it (the phase becomes "down"), so that every run and every proof has these
  crashes; the restarted process finds nothing left to delete.
- An error of Delete is logged and the key forgotten (298), so that a failed deletion is not
  retried; without the assumption that no call fails, `NoOrphan` fails for that reason, too.
- A driver that lists no volume expansion is published with the mode "": `GetIdentityCapability`
  (`plugin.go:64`) returns the zero value, and `newSccap` copies it for a class that allows
  expansion. `types.go:68-72` and the enums of the CRDs (`crd/storage-v1alpha1-provisioner-cap.yaml:84`,
  `crd/storage-v1alpha1-class-cap.yaml:73`) define UNKNOWN, OFFLINE and ONLINE only. The enum stands
  under `items` of a string, so that the server does not reject the object. `LastExpansionCounts` says where it
  happens: a defined mode is published for exactly the releases that list an expansion. Release `r2` of
  `sidecars` lists none.
- Line 91 of `sidecar/controller.go` compares a struct with a pointer, so that the branch of line 97, "CRD
  is equal to current status, nothing to update", is never taken: the sidecar writes in
  every period (`DeepEqual` is FALSE).

The consequences of `tombstone` and of a swallowed error do not stay: `converges` has both
faults and holds, because the resync of StorageClassCapabilities enqueues
the name again every 30 s (`cmd/controller/main.go:54`). Those of `recreated` stay, and those of
`collision` as long as the first binding is there.

A new class whose driver has no ProvisionerCapability gets no StorageClassCapability either
(line 318), although line 279 promises one and the test at `controller_test.go:276` expects
it (it never compares its expectation). No property is about it: there is nothing to
derive a StorageClassCapability from, and `NoLostUpdate` says that it is made when there is.

### Fairness

`Fairness` of the controller: the process is started again when it ended (a Deployment
restarts it), initial lists are taken, a delivery and a handler that can run do run
(goroutines of client-go), the resync and the back-off of a key come
(timers), a worker in `syncHandler` goes on. All of this is weak fairness: each of these
stays enabled until it happens or is made unnecessary. Only handing out a key is
strongly fair: a key is not available while a worker has it or while the process is down,
and the first-in-first-out queue still gives every waiting key its turn: `NoStarvation` of
`process` shows that from weak fairness of taking any key. Users, crashes, broken
watches and lost replies have no fairness: `Converges` only assumes that they end
(`EventuallyQuiet`), and no more. Panics are not faults: they may go on forever.

`Fairness` of the sidecars: a sidecar that ended is restarted, gRPC notices a lost
connection, and a pass of `contentWorker` goes on (its calls have a timeout) and comes again
(`wait.Until`).

The fairness of `Composition` is that of the sidecars and, of that of the controller, what it needs while
no watch breaks: the resync is left out, so that `Delivers` shows that it is not needed. Actions that cannot
disable each other share a conjunct.

`FairSpec` of `Process`: `main` and the signal handler go on, a list is answered when its kind is
installed (and the informer was not told to stop), back-offs end, workers finish what
they took, some worker takes a key when there is one, and the process is started
again. Nothing says which key is taken, nor that `Fail` stops: `NoStarvation` holds although keys may
fail forever.

`Fairness` of the webhook: a goroutine goes on, refused pods are tried again by what controls them,
and a pod that is asked about again and again finds a free goroutine. The last one is strongly fair,
because `http.Server` starts a goroutine for every request and `Handlers` is
only finite for TLC. Users, administrators and faults have no fairness.

## What TLAPS proves

For any sets of classes, drivers, features, workers, sidecars, releases, pods, manifests,
goroutines and keys, under the assumptions named `NoneAssumption`, `ClusterAssumption`,
`ControllerAssumption`, `PluginAssumption`, `SidecarAssumption`, `CompositionAssumption`,
`WebhookAssumption` and `ProcessAssumption` (types of the constants, and that `None` is none of
the things it is compared with), which TLC evaluates in the runs.

| theorem | further assumption | statement |
|---|---|---|
| `TypeCorrect` | | `Spec => []TypeOK` |
| `KeysAreExclusive` | | `Spec => []KeyExclusive` |
| `NoUpdateIsLost` | no watch breaks | `Spec => []NoLostUpdate` |
| `OneDriverOnly` | users write no StorageClassCapability (they may delete them) | `Spec => []OneDriver` |
| `UpdateInvHolds` | no watch breaks | `Spec => []UpdateInv` |
| `NothingIsOrphaned` | no watch breaks, no call fails | `Spec => []NoOrphan` |
| `OrphanInvHolds` | no watch breaks, no call fails | `Spec => []OrphanInv` |
| `ExistingClassIsKept` | | `HistorySpec => []ExistingClassKept` |
| `ReconcilerInvHolds` | no watch breaks | `Spec => []ReconcilerInv` |
| `ReconcilerIsImplemented` | no watch breaks | `Spec => ImplementsReconciler` |
| `ReconcilersSettle` | | `Abstract!Spec => []Abstract!SettledAsWanted` |
| `ReconcilingLosesNoUpdate` | | `ImplementsReconciler /\ [](TypeOK /\ KeyExclusive) => []NoLostUpdate` |
| `IdentityType`, `LastExpansionReturned` | | for every sequence of capabilities, the result of the loop has its type, and its mode is `LastExpansion` |
| `TypeCorrect`, `LastExpansionIsPublished` (sidecar) | | `Spec => []TypeOK`, `[]LastExpansionCounts` |
| `ReadFromOneRelease` | | `Spec => []SidecarInv` |
| `PublishedWhole` | | `Spec => []Whole` |
| `SidecarsImplementUsers` | | `Spec => ImplementsUsers` |
| `ControllerIsImplemented` | those of both parts | `AllSpec => ImplementsController` |
| `ReportsAreWhole` | users write no StorageClassCapability | `AllSpec => []ReportedByOneRelease` |
| `NothingReportedIsLost` | no watch breaks | `AllSpec => []QuietIsReported` |
| `TypeCorrect`, `RightsAreKept`, `PodsHaveRights` (webhook) | | `Spec => []TypeOK`, `[]RightsInv`, `[]Rights` |
| `FirstBindingStays` | | `Spec => BindingsStay` |
| `BoundToOwnAccount` | no account, or no namespace, has the word "in" in its name | `Spec => []OwnBinding` |
| `TypeCorrect`, `ProcessInvHolds` (process) | | `Spec => []TypeOK`, `[]ProcessInv` |
| `WorkersReadSyncedCaches` | | `Spec => []ReadsAreSynced` |
| `QueueIsImplemented` | | `Spec => ImplementsQueue` |

The further assumptions are needed: a broken watch (`tombstone`) or a failing deletion violate
`NoOrphan` without them, a broken watch may lose an update as well, and a user may write any nonsense.

**No lost update.** `NoLostUpdate` speaks of quiet states only and is not inductive. The
invariant behind it, `UpdateInv`, says of every cached class that it is *attended to*: it
is scheduled (its key is dirty or delayed, or a notification is pending whose handler
will add it), or a worker has it and has read nothing that is older than the caches
(`UpToDate`), or its StorageClassCapability is what the caches say (`Done`). A delivery changes a
cache, which breaks the second and third part, and queues a notification, which is the first one.
A handler turns a notification into a dirty key. For `enqueuePcap` that
needs the class to be in the cache when the handler runs: a class that is not cached is not
attended to, and when it arrives its own notification is pending. A dequeue turns a dirty
key into a worker that has read nothing, a read keeps it up to date, a write with
up-to-date locals makes the class done, and a rejected or failing write delays the key. Types,
the locals of a worker (`LocalsOK`) and `KeyExclusive` are part of the
invariant: without the latter, another worker could undo what is done.

**The reconciler.** Nothing has to be shown of a step after which a class is not cached or is scheduled:
that is `Forget` or `Queue`. `NextUnscheduled` says that any other step leaves the class at rest, takes it, settles
it or is a user's edit of it. The steps that could be none of these are those of a worker that has read
something outdated, and `ReconcilerInv` excludes them: it adds to `UpdateInv` that a worker which has an
unscheduled, cached class is up to date. `UpdateInv` does not say that: it would allow an outdated
worker beside a class that is done, and the write of that worker would be no abstract step. In turn the
abstract specification is strong enough for what it is there for: `ReconcilersSettle` is a short induction in
it, and `ReconcilingLosesNoUpdate` gets `NoLostUpdate` back from it, without anything of the
controller's steps but the mapping. So a change of the code that still implements `Reconciler` loses no update.

**No orphan.** `OrphanInv` adds that every StorageClassCapability of a class that is not cached is
scheduled or with a worker that will find the class missing. When the process starts, the
initial list of StorageClassCapabilities schedules those of classes deleted meanwhile.

**One driver.** The locals of a worker name one driver: the features it holds were
published for the provisioner of the class it holds, whatever happened to the class since.

**Sidecars.** `SidecarInv` says that all a sidecar has read comes from one release, and that it can
read no more unless that release still runs: the connection is lost with the driver and never
opened again. Without `ExitOnConnectionLoss` the invariant fails (mutant
`ConnectionLostReopened`). What is published is then always what one release reports in whole,
and `ImplementsUsers` follows: the sidecars do nothing to ProvisionerCapabilities that the environment
of the controller, `SetProvisionerCapability` with what was `Published`, does not allow. So the
theorems of the controller hold beside any sidecars.

**The loop of `GetIdentityCapability`.** Induction over sequences needs a theorem of the library that the provers
cannot instantiate. `PluginProofs` gets it from sets instead: a set of numbers that has 0 and, with each
number, the next one up to `n` has all of `0..n`, because a set of numbers that is not empty has a least member
(`LeastMember`, from the library's `WFMin`). The set in question holds the numbers of entries after which
the loop has a result (`ResultsExist`), or one with the last expansion so far (`LastExpansionReturned`).
`LastExpansionIsPublished` then needs of the sidecars only that what is published is whole (`Whole`).

**Existing classes.** `HistoryInv` says that the cache of classes, once it is filled, has every class that
was never absent, and that workers only run when it is filled. A worker that finds a class missing has then found
one that was absent once. Broken watches, failing calls and panics are allowed.

**Composition.** Every step of the composed system is one of the controller's specification:
that of a sidecar by `SidecarsImplementUsers`, or it changes nothing the controller sees. So
what is proved of the controller holds of it: `CompositionProofs` has an instance of `ControllerProofs`, with
the features the sidecars publish in place of `pcap`, shows that the assumptions of that module hold there
(`AssumptionsHold`; that only features of the right type are published is proved, not assumed), and uses its
lemmas on the steps of the composition. `ReportsAreWhole` is `OneDriver` with what the sidecars publish
written out, and `NothingReportedIsLost` combines `NoLostUpdate` of the one with `Whole` of the
other: a quiet class says what one release reports, although no part of the system knows of
releases, and the sidecars need not be quiet.

**Webhook.** `RightsInv` says how far each goroutine is: one that has passed the ClusterRole has it, one that is
about to say yes has both, or an administrator deleted them since it was asked. The API server waits
for one goroutine per pod at most (`OneAnswer`), so that no old answer counts for a
new question. Bindings only get accounts of pods that asked for a sidecar, and a binding
of a name that no other account makes is for that account: "already exists" is then as good as
success. For names that collide nothing more holds than that there is a binding; the first account
keeps it (`FirstBindingStays`), and the other has a sidecar without rights. `SeparateNamesAreOwn` says when
names cannot collide: two accounts make one name only if one of them has the word "in" in its name and the other
has it in its namespace (`JoinedApart`: the first of two separators lies within the longer name, the second within
the longer namespace). Where either half of the names avoids the word, every pod is bound to its own account
(`BoundToOwnAccount`). Without that hypothesis `OwnBinding` is false, which the run `collision` shows.

**Process.** `ProcessInv` relates the queue's sequence to its sets (each dirty key that no worker has is in it,
once), the keys in process to the workers, and every field that is set to the informer its factory
has. So all fields of a kind are one informer, and that the `HasSynced` of it was true means that the lister
reads a full cache. `QueueIsImplemented` follows: what leaves the head of the sequence is dirty and with no worker.

### Only model-checked

Liveness (`Converges`, `Publishes`, `Delivers`, `Admitted`, `NoStarvation`, `Stops`, `Runs`) is out of reach of the
prover; it is checked on the instances above. Every invariant and every refinement that a run checks is proved,
and so is every action property; `OwnBinding`, `NewestStatus` and `DerivableClassGetsCapability`, which the code violates, are not
(the first one is proved for separate names).

## What is not modelled

- `get-api`: it lists objects and prints their number.
- `Patch`, `DeleteCollection` of the clientset, `ForResource`, `WaitForCacheSync` and the options of the
  informer factory: nothing calls them.
- Deep copies, scheme registration, fake clientset: generated, without a protocol.
- HTTP, TLS and JSON of the webhook, beyond "the call fails"; reading the kubeconfig and making clients, whose
  failure ends a process that has done nothing yet.
- A signal before `SetupSignalHandler`, and a panic before the workers run: as a crash.
- Validation of objects by the API server, but for the two rules the patch may break; other fields
  of classes and pods; text of log messages.
- The webhook composed with the other two: it decides where a sidecar runs and what it may do, which the
  sidecars take as given (`Sidecars`), and a sidecar without rights is one whose writes are all rejected.

## Plan

1. Sidecars whose rights the webhook grants and administrators revoke: `Sidecar` with the verdict of `Webhook` in
   place of "rejected at any time", and a pod's way from its admission to the first publication.
2. The refinement of `Reconciler` for the composition, with what a release reports as what is wanted.
