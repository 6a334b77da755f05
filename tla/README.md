# A TLA+ specification of cma-operator

cma-operator watches three custom resources on a management cluster and installs
things on the clusters they stand for. This directory holds TLA+ modules that
model its controllers, TLC configurations that check them on small instances, and
proofs for every value of the constants. References such as
`sds-cluster/controller.go:259` are relative to `src/pkg/controllers/` or, where the
first directory is `pkg` or `cmd`, to `src/`.

## 1. Inventory

### 1.1 Components, their state and their operations

| Component | State it keeps | Operations | Model |
|---|---|---|---|
| **SDSCluster controller** `sds-cluster/controller.go` | informer store (shared objects), work queue, three workers, one goroutine per handled event | `processNextItem`, `processItem`, `waitForClusterReady`, `handleClusterReady`, `handleDeletedCluster`, `handleFailedCluster` | `ClusterController` |
| **SDSCluster life cycle** (the phase on the API server) | `Status.Phase`, the callback annotation, the incarnation of the name | written by clients and by the handlers above | `ClusterLifecycle` (abstract) |
| **Cluster installation** `sds-cluster/controller.go:283-448`, `sds-cluster/sdsappbundle.go`, `pkg/util/k8sutil/serviceaccount.go`, `secret.go` | resources named after the cluster, a service account, its token, a secret | `checkBundles`, logging, service, ingress, `CreateSDSToken` | `ClusterInstall` |
| **Getting ready** (a waiter's copy of a resource, its notice, its Ready; `sds-cluster/controller.go:283-286`, `428-459`) | what a waiter read, what was announced | the part of `handleClusterReady` both modules above show | `ClusterReadiness` (abstract) |
| **SDSPackageManager controller** `sds-package-manager/controller.go` | store, queue, workers, the tiller job on the managed cluster | `deployTiller`, `waitForTiller` | `AddOns` |
| **SDSApplication controller** `sdsapplication/*.go`, `pkg/util/helmutil/job.go` | store, queue, workers, the helm job on the managed cluster | `deployApplication`, `waitForApplication` | `AddOns` |
| **Work queue** (client-go, as the controllers use it) | order, dirty and processing sets | `Add`, `Get`, `Done` | `WorkQueue` |
| **Add-on life cycle** (the phase on the API server, the job on the managed cluster) | phase and incarnation, job, what was announced | written by clients and by the two controllers above | `AddOnLifecycle` (abstract) |
| **Callback delivery** `pkg/util/sds/callback/callback.go` | one goroutine per notice | `DoCallback`, three attempts, ten minutes apart | `Callbacks` |
| **Operator process** `cmd/cma-operator/cmd/root.go` | everything above, in memory | load the configuration, create the CRDs, start the controllers, end at any point | `Operator`; `Restart` / `Started` / `Starts` of the others |
| **Cluster manager API client** `pkg/util/cmagrpc/cma.go` | none | `GetCluster` | the sets `Answers`, `ConfigAnswers` |
| **CRD creation, retry helper** `pkg/util/k8sutil/crd.go`, `pkg/util/retryutil` | none | `CreateCRD`; `WaitCRDReady` and `Retry` have no caller | `Operator` (`CreateCRD`) |
| **API schema** `pkg/apis/cma/v1alpha1/openapi_generated.go` | none | `GetOpenAPIDefinitions` and 255 schema functions, never called by the operator | `CoreTypes`, `SchemaTypes`, `ApiSchema` |
| **Object builders, resource helpers, API types** `pkg/util/k8sutil`, `pkg/util/cma`, `pkg/apis` | none | create with "AlreadyExists is an error", get, update | folded into the actions that call them |
| **Generated clients, informers, listers, deepcopy; command line, logging, chart** | none | | not modelled |

### 1.2 How they interact

* Clients write SDSClusters to the API server. The informer decodes a version into an
  *object*, puts it in its store and adds the key to the queue. A worker takes the key,
  reads the store, **starts a goroutine for the phase it sees** and calls `Done`. The
  SDSPackageManager and SDSApplication workers call their handlers themselves.
* A waiter polls the cluster manager until the cluster runs. It creates one
  SDSPackageManager and the SDSApplications of every matching SDSAppBundle, then logging,
  a service, an ingress and a token, hands a Completed notice to the callback package and
  stores Ready.
* `deployTiller` waits for the SDSCluster to be Ready, `deployApplication` for its
  package manager to be Implemented; both then create a job **on another cluster**, store
  Installing, and a later event polls the job and stores Implemented.
* Handlers assign `Status.Phase` in the object the store and all other goroutines share.
* A notice is posted by a goroutine of its own, which outlives its handler and dies with
  the process; a post whose URL is malformed takes the process with it.

### 1.3 What is hard here

Overlapping handlers of one resource; objects assigned in place without a lock; writes
refused by optimistic locking and half-heartedly retried; errors that are logged and
forgotten in a queue that never sees them; read-then-create races between waiters; panics
that take every goroutine down; restarts that find their work only through stored phases;
waits that hold one of three workers for hours; a nil config that means the management
cluster; jobs that are found by a name which others share; posts that time out never.
`PROJECT.json` lists each of them, at its line, with the properties aimed at it.

### 1.4 What makes each component correct

* **SDSCluster controller**: a late or doubled handler never moves a resource out of its
  life cycle; a client is told before the outcome is recorded, and of progress before of
  failure; nothing that waits or failed is forgotten, or stays so for ever; what is to be
  deleted goes away; no key is lost or handled by two workers.
* **Installation**: a Ready cluster has what its bundles ask for; an application has a
  package manager; the token a client was told is the one kept, and it is of use.
* **Add-ons**: no application's job before tiller; Implemented only after a success, told
  only after progress was; every add-on is installed in the end, whoever else blocks a
  worker; nothing lands on the management cluster; what is announced was run.
* **Callbacks**: a notice is given up only after all its tries, a receiver gets a bounded
  number of copies and none after its 200, every post ends or is seen to hang.
* **Operator process**: after the last fault it comes up, and a kind whose definition is
  missing holds up its own controller only.
* **API schema**: references lead somewhere, and this repository's types can be built.

## 2. How the project is built

In this order, each part checked before it was proved about:

1. `WorkQueue`, well formed under its three operations (`WorkQueueProofs`).
2. `ClusterLifecycle` (abstract) and `ClusterController`, which implements it
   (`ClusterControllerProofs`); what is announced, and of which incarnation
   (`ClusterNoticesProofs`); that nothing is forgotten (`ClusterForgottenProofs`).
3. `ClusterInstall`: the action `Install` of `ClusterController`, call by call: the token
   (`ClusterInstallProofs`), and what is created for a cluster (`ClusterInstalledProofs`). What
   the two modules say of one code is `ClusterReadiness` (abstract), and both implement it.
4. `AddOnLifecycle` (abstract) and `AddOns`: both add-on controllers and the clusters
   they install on, which implement it (`AddOnsProofs`).
5. `Callbacks` and `Operator`, which EXTENDS it: the process and the posts that live and
   die with it (`OperatorProofs`).
6. `CoreTypes`, `SchemaTypes` and `ApiSchema`: the generated definitions and the walk over them.

The modules meet in three places. A handler of `ClusterController` or `AddOns` that hands out
a notice (`sent`, `told`) is `HandOut` of `Operator`. `Restart` there is `Kill`, `Panic` and the start
that follows here. What `Install` of `ClusterController` does in one step, a waiter of
`ClusterInstall` does in a dozen; `ClusterReadiness` has the notice alone, and it is proved of
both that they implement it. They are not one specification: the product has far more
states than TLC can visit, and what one part needs of another is no more than these steps.

## 3. The modules and the code

**`WorkQueue`** - the record `[order, dirty, processing]` of client-go's queue and its
`Enqueue`, `Dequeue`, `Finish`. `AddRateLimited` is unreachable here, because `processItem`
returns nil whatever its handler did.

**`ClusterController`** - `log[c]` is every version of name `c` the API server had, an
index being a resourceVersion; `heap[c]` the decoded objects, the last one in the store;
`tasks[c][s]` the handler goroutines, with the object each shares, the fresh copy and the
polls counted so far.

| Action | Code in `sds-cluster/controller.go` |
|---|---|
| `Create`, `Request`, `Withdraw` | clients of the API server (external) |
| `Deliver`, `Relist` | informer and its event handlers (87-108) |
| `GetItem`, `ProcessItem`, `FinishItem` | `processNextItem` (121-137), `processItem` (140-172), `handleErr` (175-198) |
| `WaitPoll`, `ReadFresh`, `Install`, `SaveReady`, `AssignFailed` | `waitForClusterReady` (232-281), `handleClusterReady` (283-459) |
| `DeletePoll`, `Remove` | `handleDeletedCluster` (461-486) |
| `Announce`, `Save` | `handleFailedCluster` (488-508); `Save` is the Update of the waiters' Failed, too |
| `Restart` | `cmd/cma-operator/cmd/root.go:69-140`, `Run` (200-221) |

**`ClusterLifecycle`** - which phase may replace which, and that the operator neither
creates a resource nor changes its incarnation. The refinement maps a resource to its
latest version.

**`ClusterReadiness`** - a waiter takes a copy of the resource, hands out Completed for it, and
stores Ready over the version it took, or does not. What it creates on the way is left out,
and with it every failing call: whatever happens there, only the end of the process keeps a
waiter with a copy from its notice. `ClusterController` maps each handler of each
cluster to a waiter: it has no copy before `ReadFresh`, and `Install` is the notice.
`ClusterInstall` maps its one cluster: all steps between `ReadFresh` and `TellCompleted` change
nothing, `Restart` and the panic are `Stop`, and without a URL there is no notice
to give. The other writers of a resource, clients and handlers, are `Write`, of anything but Ready.

**`ClusterInstall`** - one cluster, waiters that run at the same time, every Get and Create
a step. The list of things to create (`Plan`) is computed from the bundles as
`checkBundles` does: once without providers, else once per matching entry. A waiter is at
the place `next` of it, and an entry names an object of a kind: two bundles that ask for one
name mean one object, an application and a package manager of one name are two. `trouble` is a
history variable: it counts failed calls, missing kubeconfigs and stops, so that a
property can say "as long as nothing went wrong". A panic is the operator's own doing and
leaves no trace in it.

**`AddOns`** - the SDSPackageManagers and SDSApplications of one cluster. `log`, `store` and
`queue` are as above, each version with the `gen` of its name (`Create` starts the next);
`work[w]` is what a worker does. Jobs go by **name**: `JobOf[r]` is the install job `r` looks
for, `managed[j]` its state on the managed cluster, `madeFor[j]` the deployment that created
it, and `rights` the jobs whose account has its role. `management` says that a job went to the
management cluster. A version has a `url` when it names a callback URL. Clients may give an
add-on one, or take it away, at any time (`Touch`), and a notice goes out only if the object *in
hand* has one: `Tell` has the guard of `sds-package-manager/controller.go:251` and `350`,
`sdsapplication/application.go:33` and `91`. The add-ons the operator itself creates have none, so
they are deployed with no notice at all.

| Action | Code in `sds-package-manager/controller.go` (and its twin `sdsapplication/`) |
|---|---|
| `Touch`, `Delete`, `Create`, `ClusterChanges`, `JobSucceeds` | clients, the SDSCluster, the managed cluster (external) |
| `Deliver`, `Resync` | informer, event handlers, the resync of 30 seconds |
| `GetItem`, `Dispatch` | `processNextItem`, `processItem` |
| `Gate`, `GetConfig`, `Prepare`, `CreateJob`, `Announce`, `SaveInstalling` | `deployTiller`, `deployApplication`; `Prepare` is the account, role and binding of tiller, `Announce` the notice and the phase assigned after the job was submitted |
| `FindJob`, `Poll`, `SaveImplemented` | `waitForTiller`, `waitForApplication` |
| `Restart`, and `Started` in `CreateJob` and `FindJob` | the end of the process, and the two panics |

The two controllers are one text because the code is; `Relied(r)`, the package manager an
application reads again and again, is where they differ.

**`AddOnLifecycle`** - the abstract specification: which phase follows which, that Installing
and Implemented were announced, that the job of Implemented has succeeded, and that an
application's job is started only where tiller has been installed. It has no informers,
queues, workers or stale objects. `asked[r]` are the gens in which `r` has waited to be deployed,
with the annotation it had then: a gen that never waited without a URL must have been announced
before it is Installing or Implemented (`Announced`), and only one that waited with a URL is
announced. The refinement maps an add-on to its latest version, `asked` to the Pending
versions of the log (`Asked`) and `job` to `managed`. `Announce` takes any gen so far, because a
worker may announce a deployment of a resource that was re-created meanwhile.

**`Callbacks`** - `posts[m]` is the goroutine of a notice, its URL and its `retries`, with
what receiver (`got`) and goroutine (`heard`) know. `Received` is `client.Do` when the notice
arrives: a 200, any other or a lost answer, or none ever, for the client of
`pkg/util/sds/callback/callback.go:55` has no timeout. `Unreachable` is a try that reaches
nobody, `WakeUp` the end of ten minutes, `Panics` the header set on the request that
`http.NewRequest` did not make.

**`Operator`** - `at` and `next` are where `operator()` of `cmd/cma-operator/cmd/root.go` is,
`crds` the definitions the API server has, `controller[k]` where `Run` of a controller is.
`Boot`, `CreateCRD` (its error is ignored), `Start` and `Sync` lead up; `BootWithoutConfig`,
`StartWithoutClient`, `Panic` and `Kill` down. The channel `stop` is never closed and no
signal is handled, so there is no orderly end to model.

**`CoreTypes`**, **`SchemaTypes`** - one operator for each schema function of the generated
file, under its name, in the first those of Kubernetes' core group: properties, references, required properties, dependencies. The file writes references
and dependencies separately, and so does the module. **`ApiSchema`** is the walk of
kube-openapi's builder over them (external: the builder is a library, and nothing in this
repository calls it).

**Operators called "Mutant of ..."** stand before the definition they distort. They are no
part of the specification: `PROJECT.json` pairs each with the property that fails when it
takes the definition's place, so that every property is known to depend on the code.

### What the models assume

* The phases None, Pending and WaitingForCluster are one phase: the code treats them alike
  (`sds-cluster/controller.go:156`). No client takes a deletion back.
* A read of a phase while another goroutine assigns it is a data race; it yields the phase
  or `Garbled`, a text no branch matches.
* `GetByKey`, the read of the phase, and the start of the goroutine with the notice of a new
  waiter are one step, `ProcessItem`. `Get` before it and `Done` after it are steps of their
  own: what arrives while the key is held matters.
* A client of `ClusterController` or `ClusterInstall` fixes the callback annotation when it creates
  an SDSCluster. Given later, it would let a Failed or Completed go out with no InProgress
  before it, as it does of an add-on (`CompletedFollowsProgress`).
* `Rewrites` says whether clients of `ClusterController` also write a resource that waits, or upgrades,
  without changing its phase. The theorems hold either way. The passing runs have it FALSE to stay
  small: such a write to a waiting resource starts one more waiter, which asking for another
  phase and back does, too.
* `ClusterLifecycle` lets Ready follow Deleting. A waiter that read its copy in Deleting stores
  Ready over it: `handleClusterReady` looks at no phase (`sds-cluster/controller.go:284`, `450`).
  So `DeletionEnds` is for a cluster that is gone, where `GetCluster` fails and no waiter
  hears that it runs.
* An Update that would change nothing is answered without a new version, as the API
  server does.
* `ClusterInstall`: whether a waiter has tries left is a choice (`Again`), the
  namespace a bundle names is "the operator's or not", the look-up before the Azure
  ingress belongs to the ingress entry. Errors of the role and of its binding both leave
  the account unbound. An application of a bundle names its package manager itself
  (`sds-cluster/sdsappbundle.go:108`, `119`): here it names that of its bundle, so "a package
  manager for it" (`ApplicationsHaveManagers`) is a bundle's that brings the application.
* `AddOns`: the job names of package managers and applications differ, and applications
  that share a job rely on one job of tiller (`AddOnAssumption`): the names begin differently,
  and the latter lie in the namespace of their package manager. The calls of `Prepare` are one
  step; an error of any of them is the account without rights. Jobs are never deleted: the
  operator does not, and has no code for it. The runs give every add-on a job of its own; the
  proofs hold for any sharing, and re-creation makes TLC find an old job, too.
* A notice counts as told when it was handed to `DoCallback`; what becomes of it then is
  `Callbacks`. That one `Messages` element is one notice, handed out once, loses nothing: its
  posts know nothing of each other.
* `Operator`: each of the four definitions may exist before the first start. A message is handed
  out once and the process ends at most `MaxStops` times, by panics, too. So what a
  malformed annotation does for as long as it stays, a panic at every start that hands the notice
  out again (`pkg/util/sds/callback/callback.go:54`), is cut short: each property speaks of a
  notice that was handed out, and `ComesUp` of what follows the last end.

## 4. The runs

| Run | Asks | Instance |
|---|---|---|
| `cluster_safety` | type, inductive invariant, announcing before recording, progress before failure, no deletion told that was not asked for, refinement of `ClusterLifecycle` | one name, one worker, **two** goroutines, a restart, failing calls, five versions |
| `cluster_liveness` | `NotForgotten`, `Settles`, refinement of `ClusterReadiness` (with failing calls it is proved, not run) | no failing calls; a relist and a restart; two tries |
| `cluster_deletion` | `DeletionEnds`, `QueueOK` | **two** workers and goroutines, relist and restart; `GetCluster` fails, as it does when the cluster is gone |
| `install_safety` | four properties of the installation, refinement of `ClusterReadiness` | two waiters, four bundles that share names, one of another provider, one of another namespace; one failing call, one stop |
| `addons_safety` | `TillerFirst`, `ImplementedRan`, `CompletedFollowsProgress`, `OneWorkerPerAddOn`, refinement | a package manager (two workers, created twice, with or without a URL that may come or go) and an application, failing calls, an empty kubeconfig for the application, panics, a deletion, stops |
| `addons_chain` | `ResyncRetries`, `Installs` | two package managers and an application, one worker of each kind, and one job that **never** succeeds; no failing calls |
| `operator` | `NoEarlyGiveUp`, `BoundedCopies`, `HeardIsLast`, `PostsEnd`, `ComesUp` | two notices, the three tries of the code, two ends of the process, CRDs that cannot be created |
| `api_schema` | `NoDanglingReference`, `OwnTypesBuild`, `RequiredIsDefined` | all 255 definitions, each as the root of a build |
| `cluster_forgotten`, `install_panic`, `addons_management`, `addons_redeploy` | the four findings | violations, see section 7 |

**Bounds, and why they are enough.** A property here fails by what two goroutines do to
one object, or one goroutine and one client: two `Slots` show it. `MaxTries` is 100 in the
code and 1 or 2 here; the counter only decides between another poll and the end, and two
already tell "not the first, and the last" apart. `MaxVersions` stops *clients* only, never the
operator: five leaves room to create, ask, delete, re-create and ask again with a handler
of the first incarnation still running. One restart is enough because a restart forgets all that is in
memory; one relist because it skips and duplicates events at once. `MaxPolls` is 2000 in
the code; like the tries, one poll and one more behave like many. Three workers are one or
two: what distinguishes three from two is only how many stuck jobs fill them, and
`addons_chain` fills its one worker. `MaxGens` is two: a name and its re-creation. `Annotated`, the
add-ons that may have a callback URL, is the package manager in `addons_safety`: the
application's notices go through the same text. `Keyless` is the application there: an empty
kubeconfig of the package manager sends its job elsewhere and nothing follows from it
(`addons_management`). `Degrades` is FALSE there: a cluster that stops being Ready only closes
the gate, as a failing call does; `addons_chain` has it TRUE, where the gate must open again. `RetryLimit`
is the code's own three. `MaxStops` bounds the ends of the process: two let it die
before and after it is up, once with a post under way. Symmetry is used in safety runs only.

Deadlock is not checked: a system in which every cluster is settled and the clients have
used up their writes rightly rests.

**Fairness.** Weak fairness, stated in the `Fairness` of each module:

| Of | Because |
|---|---|
| each worker, each handler goroutine, each post | Go's scheduler runs what can run, `time.Sleep` ends, gRPC and API server calls return |
| the watch of each kind, the resync of each add-on, each controller's cache | the reflector lists and watches again after any error; the timer fires |
| a job that can succeed | an assumption about the managed cluster; `Stuck` are the jobs that cannot |
| the start of the process | the deployment's restart policy |

Nothing is assumed of clients, of relists, stops or faults, or of what a call answers. In
particular `PostStep` is fair but may leave a post hung, and `ComesUp` speaks of what follows
the last fault: a process that is killed for ever never comes up. Where a
liveness property needs more, the run says so with a constant: `ApiFails = FALSE` or `Failing = {}`
(no call fails), or `Answers = {"fail"}` (the cluster is gone). That is not decoration. With failing
calls `Settles` and `ResyncRetries` are false (section 7), and so is `Installs`: a tiller job
whose account got no rights never succeeds, and nothing creates the rights again.

## 5. Proofs

`tlapm` checks eight modules. **SDSCluster controller** (`WorkQueueProofs`,
`ClusterControllerProofs`, `ClusterNoticesProofs`, `ClusterForgottenProofs`): for every set of clusters and
workers, any `Slots`, tries, versions, relists and restarts, any set of answers, with and without
failing calls. The only assumption is `ConstantsAssumption` of `ClusterController`: the
names are finite in number and `NoKey` is none of them, `MaxTries` is positive, and the
remaining constants have their types.

* `EnqueueWellFormed`, `DequeueWellFormed`, `FinishWellFormed`: each operation of the queue keeps
  it well formed, the last two also with what the workers hold. `FilledQueueHolds`: so is the
  queue that a start fills, in any order, and it holds every key.
* `Invariance` and `TypeCorrect`: `Spec => []TypeOK /\ []IndInv`. `TypeOK` is not
  inductive alone: a step follows a task to its object and an object to its version, and
  that these exist, and are in the phase that started the handler, is `IndInv`
  (`PointersOK`, `SharedObjects`, `TasksOK`). It speaks of one cluster at a time, so the proof states
  it of a log, a heap and a family of tasks (`Local`), shows what four elementary changes
  (write, observe, move a task, assign) do to `Local`, and lifts them over all clusters
  (`Core`). Each action is then one or two of these changes. The crux is `LocalAssign`:
  an object assigned in place is shared only by goroutines that may see it assigned.
* `Refinement`: `Spec => ImplementsLifecycle`. Every write is located (`ResourceWrite`); that
  `Save` may only overwrite what waits or failed follows from `Accepted`, which forces the
  object's version to be the latest, and `TasksOK`.
* `ReadinessRefinement`: `Spec => ImplementsReadiness`. A resource, its copies and its notices are mapped
  together, so each step is located in all three (`VersionsWrite`, `CopiesMove`,
  `CompletionsTell`). A copy is mapped by its index in the log, and versions are only ever
  appended, so no step but its waiter's own changes it (`CopyStays`). That Ready goes over the
  very version is `Accepted` again; that nothing else stores Ready needs to know what a handler
  may save of an object others assign to, which is `TasksOK`.
* `QueueSafe`: `Spec => []QueueOK`, from the three theorems on the queue: the keys being
  processed are exactly those the workers hold, each by one of them.

* `AnnouncedFirst` and `ProgressFirst`: `Spec => []RecordedWasAnnounced` and `Spec =>
  []FailureFollowsProgress`. A handler records what a shared object shows, which another
  handler may have assigned or the informer decoded; so `NoticesOK` says of every version,
  object and handler which notice is out for it: of a version or object in Failed, and of a
  waiter, that of progress; of one in Error, that of failure; of a waiter about to store
  Ready, that of completion for its fresh copy. With `Core` it is inductive. Its types are those
  of `TypeOK`, and the version a write replaces is the one the notice was about, because
  `Accepted` forces it to be.

* `DeletionAskedFor`: `Spec => []DeletedWasAskedFor`. The deleter removes by name
  whatever lives there, but its notice is of the object it was started with, and that `TasksOK`
  knows to be in Deleting. A version in Deleting was written by a client, of its incarnation.

* `NeverForgotten`: `Spec => []NotForgotten`, under `ApiFails = FALSE`; section 7 shows that it
  fails otherwise. Alone it is not inductive: a worker that finds Error in the store starts
  nothing. That is harmless only because Error, when the latest version does not say so, was
  assigned by a goroutine that has still to save it; `KeptOne` says so of every object of
  that version. When the save is accepted the resource is settled, when it is refused there is
  a newer version, and its event is to come.

**Installation** (`ClusterInstallProofs`, `ClusterInstalledProofs`): for any bundles, waiters at
once, touches, failing calls, missing kubeconfigs, panics and stops.

* `ToldIsKept`: `Spec => []ToldTokenIsKept`, under `OnePlace`: the kubeconfig leads to one
  cluster, or to none. Without that it is false, and the run makes the same choice: a
  kubeconfig that is empty now and then sends `CreateSDSToken` to the management cluster
  and back, and the second token is told but not kept. The invariant follows a token from the
  account to the notice: while no call fails a waiter past `CreateAccount` has an account
  where it looks, so it has a name to read, and what `KeepToken` finds kept is the same.
* `TypeCorrect`: `Spec => []TypeOK`. That a waiter stays inside `Plan` needs to know what
  `Plan` is: the flattened lists of the bundles. `FlattenDefined` and `FlattenIn` say what
  `FlattenSeq` yields for every sequence of lists, `BundlesListed` and `PlanMade` that every entry of
  a bundle is in `Plan`, behind the entries that come before it in the bundle. The prover has no
  induction over data, so these lemmas take the least number that fails (`AllNumbers`, from `WFMin`)
  and show that there is none.
* `ManagersFirst`: `Spec => []ApplicationsHaveManagers`, under `ApplicationsOwn`: no bundle has an
  application by the name of the logging one. A waiter among the bundles has created, or seen,
  all that it has passed (`AllWalked`), because an error leaves the bundles and never
  skips an entry; and in `Plan` a package manager comes before its applications.
* `CompletedMeansUsable`: `Spec => []CompletedIsUsable`. While no call fails, a waiter that
  has passed an entry outside the bundles leaves the object there, its own or another's
  (`AllFurnished`). The half about the token is `ToldIsBound`; it needs no `OnePlace` either.
* `InstalledWhenReady`: `Spec => []InstalledWithoutTrouble`, under `OnePlace` and `LoggingOwn`: no
  bundle asks for the package manager or the application of logging. The crux is
  `NeverAllGiveUp`: once a waiter is past the bundles, or the resource is Ready, either all
  that the bundles want is there or some waiter is `Busy` with them, which nobody has beaten
  to its next Create. For a Create is refused only where the object is never to be had, and
  then nothing behind it is wanted, or where another waiter was faster. A panic could take
  the busy one; but a resource that is Ready has seen a waiter past the name of the token, so
  the account has its token and nobody panics any more (`TokenGiven`, `NoLatePanic`).
  Both hypotheses are needed, and TLC finds the counterexamples. With a bundle
  that asks for the package manager of *logging*, a waiter that has given up and is at the
  extras creates that object, and the one that was busy gives up, too. With a kubeconfig that is
  empty now and then, there are two accounts, and a late panic over the second takes the last
  busy waiter.

* `OnlyTroubleKeepsBundlesAway`: with no stop, no failing call and no missing kubeconfig, and the two
  hypotheses of `InstalledWhenReady`, even `Spec => []BundlesGetInstalled` holds, which
  `install_panic` violates: nothing else brings that about, a panic alone does not. Its
  invariant is that `trouble` stays as it was.
* `InstallReadiness`: `Spec => ImplementsReadiness`, for any failing calls, kubeconfigs, panics and stops. That a
  waiter with a notice to give has a URL (`ForUrl`) is all it needs besides the types: the
  code between copy and notice has no way out but the panic.

**Add-on controllers** (`AddOnsProofs`): for every set of package managers, applications and
workers, any assignment of jobs, any answers, faults and stops that `AddOnAssumption` allows.

* `AddOnsTypeCorrect`, and `OneWorker` from the theorems on the queue.
* `TillerIsFirst`, `ImplementedHasRun`, `CompletedIsLast`: the inductive invariant follows what
  each worker has *seen*. One that is past the gate has seen its package manager
  Implemented, so that job has succeeded, and jobs do not un-succeed; one that is about to
  store Installing has told progress of the gen it holds, or holds a Pending version without a
  URL, which the log keeps (`Announced`); one about to store Implemented has seen a success. An object in the store that shows Installing or Implemented was read
  from such a version or assigned by such a worker, perhaps one that is gone since. The
  gen of a version never changes, which is what carries this past a re-creation.
* `AddOnRefinement`: `Spec => ImplementsAddOnLifecycle`, each action being one step of
  `AddOnLifecycle` or none; `Accepted` makes the version that is replaced the one the worker holds.
* `ResyncFindsIt`: `Spec => []ResyncRetries`, which speaks of the add-ons outside `Failing`; calls for the
  others may fail. An object in the store that shows
  Implemented, although its version, the latest, does not, is one that a worker is about to save
  (`ShownIsSaved`), and that worker is busy with it.

* `OnlyEmptyGoesAstray`: `Spec => []NothingOnManagement` when no kubeconfig is empty (`Keyless = {}`). A worker then knows
  the managed cluster (`OnManaged`), whatever fails or stops.
* `OnlyNamesConfuse`: `Spec => []CompletedWasRunForIt` when no two add-ons look for one job and no name
  is created twice. A job on the managed cluster was then made for the add-on that looks for it
  (`MadeForIt`). Each hypothesis is needed: `addons_redeploy` drops the second, and two package
  managers of one namespace are the first.

**Process and posts** (`OperatorProofs`): for every set of notices, every limit and number of
stops. `OperatorTypeCorrect`, `NotGivenUpEarly`, `CopiesAreBounded`, `HeardIsTheLast`. `BoundedCopies`
is not inductive: what is received must be counted against the tries. The invariant says that
a post that may go on was received at most as often as it failed, and otherwise at most once
more; that one about to send has tries left; and that one which was heard has ended.

**Only model-checked:** `ApiSchema`, which has no parameter to generalise over: TLC
visits all 255 definitions; and everything temporal under fairness (`Settles`, `DeletionEnds`,
`Installs`, `PostsEnd`, `ComesUp`), which the prover does not reach.

## 6. Not modelled

* Generated clientset, informers, listers and deepcopy: what the operator does through them
  is in the actions that call them; the rest is typed wiring around a library.
* `WaitCRDReady` and `retryutil.Retry`, which only call each other; the helpers of
  `pkg/util/cma` without a caller.
* Builders of Kubernetes objects, parsing of kubeconfigs, TLS options, logging, the command
  line, the chart: data or wiring.
* The payload of a notice. (Its `creation_datetime`, `sds-cluster/controller.go:433`,
  is `string()` of a number: one character, not digits.)
* The order in which notices arrive. Their posts are independent, a first try may fail and
  its second come ten minutes later, so no order holds, and the repository promises none.
* A deleter that removes a re-created namesake (the life cycle allows it, the code
  promises no more), one that runs out of tries, an error of `GetCluster` taken for
  "deleted": modelled, without a property that rules them out.

**How much of the code this is.** The modules map about 13,300 lines of the implementation,
of which about 11,800 are the generated `openapi_generated.go`: it is long and of one
shape, and its model is a table. Of what was written by hand, about 4,000 lines, they map
about 1,500; most of the remainder is object builders and unused helpers.

## 7. What the runs found

Each of the four comes with a theorem that names its causes: without them, what the
run shows cannot happen, for any number of clusters, add-ons and workers.

1. **A failed Update is not retried** (`cluster_forgotten`). The comment at
   `sds-cluster/controller.go:174` promises a retry; the error of the goroutine
   reaches nobody and the informer has no resync. The add-on controllers throw errors away
   as well, but resync. There the same promise breaks in another way: the phase is assigned
   in the store's object before the Update (`sds-package-manager/controller.go:331`,
   `sdsapplication/application.go:72`), so after a failed Update the store shows
   Implemented and no resync does anything: `ResyncRetries` is false of an add-on in `Failing`.
   Only failing calls do this: `NeverForgotten`, `ResyncFindsIt`.
2. **An empty kubeconfig installs on the management cluster** (`addons_management`).
   `getRestConfigForRemoteCluster` logs that tiller could not be installed yet, and returns
   a nil error with a nil config, which every helper takes for the management cluster.
   Only an empty kubeconfig does this: `OnlyEmptyGoesAstray`.
3. **A deployment is announced as complete that nothing ran for** (`addons_redeploy`). Every
   package manager of a namespace looks for the job `tiller-install-job`, and `CreateJob`
   leaves one that exists as it is. A package manager that was deleted and created again,
   with other parameters perhaps, takes over the success of its predecessor's job, and so
   does a second one of the same namespace. Only these two do: `OnlyNamesConfuse`.
4. **A panic can leave a Ready cluster without its bundles** (`install_panic`). It takes three
   waiters. The first is beaten to a Create and gives up its bundles; it finds no kubeconfig for the
   token and stores Ready. The third, started by an event from before that, works through the
   bundles and beats the second to a later Create. The second gives up as well, and with nothing
   left of the bundles to do for it (`sds-cluster/controller.go:288`) it comes to `CreateSDSToken` (421),
   gets a kubeconfig, creates the account, and panics at `Secrets[0]`, as the account has no token yet
   (`pkg/util/k8sutil/serviceaccount.go:57`). That takes down the third, which was the only one still
   among the bundles. After the restart the cluster is Ready and nobody looks again. The property is stated for resources with a callback URL: without
   one `handleClusterReady` installs nothing at all. It takes the
   missing kubeconfig of the run, or a failed call or a stop in its place, as long as bundles
   leave the names of logging alone and kubeconfigs lead to one cluster:
   `OnlyTroubleKeepsBundlesAway`.

Three remarks that are no findings. A bundle that asks for `pm-logger`, the package manager of
logging, breaks `InstalledWithoutTrouble` without a panic (section 5, `InstalledWhenReady`). The comment at `sds-cluster/controller.go:128-129` says that
SDSClusters with the same key are never processed in parallel; that holds of the workers
(`QueueOK`), but `processItem` starts its handlers with `go`, and handlers of one SDSCluster do run
at once: most of what `cluster_safety` checks is about that. And a hundred of the Kubernetes
types in `openapi_generated.go` cannot be built, because four types they lead to
(`resource.Quantity`, `intstr.IntOrString`, `runtime.RawExtension`, `runtime.Object`) have no
definition in the file; `OwnTypesBuild` shows that the operator's own types are not among them.
