# Verification of the aggregated API server and its operator

TLA+ models of `ntnn/aggregated-apiserver-operator`, the TLC runs that check
them on small instances, and TLAPS proofs for all instances. Paths are
relative to the repository (`src/`). `PROJECT.json` maps every definition to
the lines it models and lists runs, findings, hazards and theorems.

## The system

A user creates an `AggregatedAPI` that names member clusters and the APIs to
serve from each. The **operator** runs one **api-aggregator** process per
`AggregatedAPI`. The api-aggregator reconciles that one object: it registers
each member on an **aggregated API server**, which reads the members'
discovery, merges it, and serves the merged resources by proxying every
request to the members.

| Component | State | Operations | Interacts through |
|---|---|---|---|
| discovery and merge (`pkg/apiserver/discovery.go`) | none | `FromDiscovery`, `Filter`, `Union` | called by the server under its mutex |
| inner server installation (`generic.go`, `install.go`) | endpoints, discovery entries and root paths of one inner server | `installResources`, `installGroupVersion` | called by `rebuild`; the go-restful container and the discovery managers are libraries |
| aggregated API server (`server.go`) | members, served resources, handler, `stopWatches`, mutex | `SetCluster`, `RemoveCluster`, `resync`, `rebuild`, `swapHandler`, `ServeHTTP` | reconciler calls it; ticker drives `resync`; requests load the handler without the mutex; a cancelled context ends the watches of an inner server |
| storage requests (`storage/reader.go`, `writer.go`, `status.go`, `metadata.go`) | none between requests | `Get`, `List`, `Create`, `Update`, `Delete`, `DeleteCollection`, status | concurrent calls to the members, which others write to |
| aggregate watch (`storage/watcher.go`) | remote watches, result channel | `Watch`, `forward`, `Stop` | four kinds of goroutines, one unbuffered channel, the server's `Done` |
| operator (`pkg/controllers/operator`) | objects in the API server, a cache | `reconcile`, `finalize` | API calls that fail; watch events; a finalizer |
| api-aggregator reconciler (`pkg/controllers/api-aggregator`) | status, kubeconfig Secret, two caches, a queue | `fetchAggregatedAPI`, `run`, `registerCluster`, `applyKubeconfigSecret`, `commitStatus` | calls the server one call at a time; reads the object and Secrets from caches; its own writes come back as events |

What is hard here: discovery is read before the mutex is taken; requests run on
inner servers that have been replaced; one watch joins several streams and has
to end as a whole; a request finds an object in one step and writes it in the
next; the operator acts on a stale cache and can stop between any two calls; the
api-aggregator reads two caches that lag each on its own, patches a status
without its version, is woken by its own writes and forgets every member when it
restarts, while the status still says Ready.
What makes each part correct is stated as its properties below. The hazards in
`PROJECT.json` name the lines.

## Modules

| Module | Models | Notes |
|---|---|---|
| `Discovery` | `discovery.go` as operators | sets instead of slices; the map order of `Union` is a parameter |
| `UnionLoop` | the loops of `Union` step by step | shows that the loops compute what `Discovery!Union` says |
| `Install` | `rebuild` from the merge to the installed inner server | goes on from `UnionLoop` |
| `Membership` | what the server keeps of a member, and when members have a merge | shared by `Server`, `ServedSet` and `Aggregator` |
| `Server` | `server.go`, and when `generic.go` refuses resources | composes `Discovery` |
| `ServedSet` | what the server promises its caller | abstract; `Server` implements it |
| `ServerProofs`, `ServerRefinement` | theorems about `Server`, and that it implements `ServedSet` | TLAPS |
| `Watch` | one call of `Storage.Watch` | `ServerSwaps` is `Server`'s cancelled context; `Server!EndWatch` is what `Watch` is shown to guarantee |
| `Storage` | one request at a time on one resource | members change between all steps |
| `Operator` | the operator's controller | any number of processes and objects |
| `Aggregator` | the api-aggregator's controller and reconciler | composed with `ServedSet` in place of `Server` |
| `InstallProofs`, `WatchProofs`, `StorageProofs`, `OperatorProofs`, `AggregatorProofs` | theorems about the module of that name; `InstallProofs` also about `UnionLoop` | TLAPS |
| `MC*` | values for the constants of the runs | |

### Server

`handler`, `members`, `resources`, `stopWatches` and `mu` are the fields of
`Server`. Every inner server that was ever built is an element of `gens`; its
index stands for the handler, the context and its cancel function, and `0` for
the NotFound handler and the nil function.

`SetCluster` is two actions, because discovery comes before the lock:
`SetClusterResolve` and `SetClusterPublish` (or `SetClusterFails`).
`RemoveCluster`, and what follows the lock in `SetCluster`, run to the end of
`rebuild` in one step, except that a swap is two: `StoreHandler`, visible to
requests at once, and `FinishSwap`, which ends the old watches, records the
resources and unlocks. `resync` holds the mutex from `ResyncStart` through one
`ResyncResolve` per member to `ResyncUnchanged` or `ResyncRebuild`; the
clusters change meanwhile. A watch request is `LoadHandler`, `OpenWatch`,
`EndWatch` or `LeaveWatch`.

Two details are kept because they matter. The random order of `range byCluster`
decides the singular name, so `Rebuild` chooses an order. `reflect.DeepEqual`
never finds an empty slice equal to nil, so an empty merge always swaps.
`resolve` compares slices, so the same resources in another order are a change;
`ResyncResolve` has a disjunct for it.

### ServedSet, and how Server implements it

`ServedSet` is the server without handlers, inner servers, the mutex and the
passes of `resync`: a call changes the members, puts their merge in service and
returns in one step; `Refresh` and `Republish` are all that `resync` may do in
between. `Server!Promise` is `ServedSet` with `served` read from the installed
inner server and `result` already `ok` while a caller's swap is being finished;
the other variables are the same. `ImplementsServedSet`, the whole of
`Promise!Spec`, is a property of the run `server_live`. Its fairness is written
as `[]<>` of the negated guards. Each guarded action disables itself, so this
follows from weak fairness of the action and is all that a caller can rely on; TLC
cannot evaluate `ENABLED` under the substitution.

### Aggregator

The AggregatedAPI that the process was started for is `api`; `cache` and
`secretCache` are the manager's caches, `queued` the one key of the work queue,
and `pass` the reconcile under way with the object it read, its step, the failures
so far and the status it will write. A pass is `Fetch` (or `FetchNothing`), then
for each entry of the spec `RegisterWithoutClient`, `RegisterFails`, or
`RegisterResolve` and `RegisterPublish` (the two halves of `SetCluster`), then
`RemoveStale` for every member that left the spec, `SetReady`, `ApplyKubeconfig`
or `ApplyFails`, and one of the `Commit` actions. `SyncAPI`, `SyncSecret` and the
writes of others queue the key. Abstracted: a cache jumps to the latest version;
the message of the condition is the set of clusters that failed; a missing Secret
and one that cannot be used are one value, since both fail the entry alike; names
of Secrets, so that the generated one is none of the members'; the order of
removals, which only decides the message. An object that is being deleted by the
operator's finalizer is reconciled as any other one, so `DeleteAPI` is only its
disappearance.

### Install

`Merge` is a step of `UnionLoop`. `BuildStorages` (or `Refuse`) is the first loop
of `installResources`, then one `InstallGroupVersion` per group version, in any
order. A second web service at a root path ends the process. `Server` does not
have that outcome; its runs have one version per group, for which
`DiscoveredIsServed` shows that it does not happen.

### Watch

The request's goroutine does a `ListMember` and `WatchMember` per cluster or
`SetupFails`, then `WatchReturns`. Feeder, forwarders and closer are state
machines whose `select`s are choices. An unbuffered send is one step with the
client that receives it, and cannot happen when the client does not read. A
write adds one object, so the history of a cluster is a number: the writes since
the client's own list.

### Storage

`Get`, `Update`, `Delete` ... begin a request and set which members are asked;
`Answer` and `AnswerFails` are the goroutines of the error group; then one
action ends the request as `locate` and its caller do. An object is cluster,
name and uid. `stamp` and `strip` are the cluster in that triple.

A member that deletes objects (`MemberDeletes`) lets any of them stay, in
`ending`, as finalizers and grace periods do; the code reports such an object as
deleted all the same. `option` is what the client sends along that decides about
a write: `"exact"`, the uid and version of the object that was located (in the body
of an update that was computed from it, or as a precondition of a delete);
`"dryRun"`, nothing is stored; or neither, and then the write takes whatever has
the name when it arrives. Object bodies are left out. A member may refuse any
write.

### Operator

One action per API call. The API server refuses an update of an old version and
a change of a Deployment's selector. `cache` lags behind `api` by any amount;
changes of children reach the queue through `pending`. `CallFails` returns with
an error at any call and `Crash` loses all state of the process. A name is a
sequence of the segments between its dashes, so joining names with a dash is
concatenation. `Refused` names children that the API server never takes, for the
length or the form of their name or label.

## Runs

| Run | Shows | Bounds |
|---|---|---|
| `install` | loops and operator of `Union` agree; what merges is installed and listed | 3 clusters, 10 variants of one GVR (kind, scope, status, singular, none), a second group with one or two resources, one version each: every pair of variants meets in every order |
| `server_safety` | safety of `Server` | 2 clusters, 2 selector lists, 5 documents (plain, with status and a second resource, conflicting scope, without a kind, malformed), 4 events |
| `server_live` | stale watches end; the served set converges; `Server` implements `ServedSet` | 2 clusters, 3 documents (plain, with status, conflicting scope), 4 events |
| `watch` | no panic, leak, gap, repetition or early live event; a watch that is stopped, swapped or broken ends | 2 clusters, up to 2 writes each, so that one falls before and one after any step |
| `storage` | requests are unambiguous, complete and truthful; a write that identifies its object takes no other one | 3 clusters, 2 names, 3 objects ever created, so that one can be replaced beside another; any deleted object may be held back |
| `operator` | no orphans; children of live objects stay; all settles | 2 objects of one name in two namespaces, the Service of one refused, 5 user actions (create, delete, create again), 2 faults |
| `aggregator` | Ready is earned, failures are reported, membership and everything else come to rest | 2 clusters, 2 specs (both clusters; one cluster twice with different selectors), 2 kubeconfigs or none per cluster, one Secret missing at the start or none, 2 documents in conflict, 2 events of users or clusters, 1 failed call or restart |

Symmetry is used only in runs without liveness. Two of each kind are enough for
the cases at hand: a conflict, a race or an ambiguity takes two parties. In
`aggregator` two events let an object go and come back, a Secret be broken and
repaired, or a conflict begin and the spec change under it. A Secret can be
missing from the start, so that the object can also go and come back beside it and
the failure must be reported on the new one. The runs of `Operator`
and `Aggregator` do not check for deadlock: a controller with an empty queue and
no users really stops.

### Runs that fail, and what they found

| Run | The code | A comment, test or doc |
|---|---|---|
| `server_clients` | re-registering a cluster with new credentials and the same resources keeps the old client in use (`server.go:205`) | "adds or updates a member cluster" |
| `install_versions` | a group discovered in two versions ends the process, since its root path is added twice (`install.go:75`) | "A single entry with group "*" serves all discovered APIs" |
| `watch_resume` | a re-established watch starts at the present (`watcher.go:78`) | "to have a consistent stream/state across all clusters" |
| `storage_limit` | a limit truncates every member's list for good (`reader.go:104`) | "will returns all pods" |
| `operator_names` | `team-a/api` and `team/a-api` share children (`reconciler.go:81`) | "It carries the AggregatedAPI's namespace" |

Seen while modelling, and without a statement in the repository that is clear
enough to hold them against:

* A removed cluster stays served while the remaining ones conflict: `rebuild` fails
  after the member is deleted (`server.go:190`). The comment says "removes a member
  cluster and its served resources"; the error is reported, and `ServedSet` states
  what is left to rely on.
* Clusters that report different singular names (the field may be empty) cause
  swaps without a change, which end all watches (`discovery.go:85`). The runs of
  `Server` have one singular name per resource; with two, `SwapOnlyOnChange`
  fails.
* While a conflict lasts, the Ready message names the clusters in map order
  (`discovery.go:94`), so the status changes from pass to pass and its own event
  queues the object again, past the back-off of the failed pass.
* With two spec entries of one kubeconfig name each pass registers both in turn
  and swaps the inner server twice.
* Two conflicting members fail the merge as a whole (`server.go:201`), so a third
  one registered after them is not served. A test says "one failing cluster must
  not block the others", of a cluster that fails before it becomes a member.
* `DeleteCollection` also deletes what was created since its list, and does not
  report it (`writer.go:189`).
* A delete without a precondition, and an update whose object has no
  resourceVersion, take whatever has the name in the located cluster by then
  (`writer.go:153`). The delete answers with the object that was located, also when it
  deleted a successor of it.
* An apply that names a cluster takes that cluster's NotFound for "exists in no
  remote" (`writer.go:94`) and may create a name that another cluster has; every
  request for the name without a cluster is a conflict from then on.
* The operator's manager elects no leader (`cmd/operator/main.go:39`). With two
  `Processes`, as during a rolling update, `ChildrenAreGuarded` fails: one
  process applies a child from a stale cache after the other one has finalized.

## Fairness

* `Server`: the ticker of `resyncLoop` fires for ever and whoever holds the
  mutex proceeds (weak fairness of `Resync` and `FinishSwap`). A `SetCluster`
  that waits for the mutex is strongly fair: `sync.Mutex` hands over to a
  waiter that starves. A watch whose context is cancelled ends; that is what
  `StopEndsWatch` of `Watch` shows. No caller, client or cluster must act.
* `Watch`: goroutines that can run do. No client must read and no member must
  answer, write or end.
* `Operator`: a process works off its queue, and its watches deliver. The queue is
  first in, first out, and a key that failed is added at the end after a delay, so
  taking each object from it is strongly fair.
* `Aggregator`: the controller works off its queue (a failed pass is repeated), the
  caches' watches deliver, the resync ticker fires and the garbage collector runs.
  No user must act and no cluster must recover.

## Proofs

Every invariant and every action property of the passing runs is a theorem, for
all values of the constants that satisfy the named assumptions. These say that
the clusters are finite (which gives an iteration order, and lets the answers of a
request be counted), that constants have their types, that null values (`NoMember`,
`NoCall`, `NoRequest`, `Idle`) are none of the values they stand apart from, and
that a request without a limit exists (`0 \in Limits`). Bounds such as `MaxEvents`
are arbitrary numbers. Each inductive invariant was checked by TLC on the
component's run before it was proved.

| Module | Theorems | Property |
|---|---|---|
| `ServerProofs` | `TypeCorrect`, `ServedSetCurrent`, `WatchesEndWithHandler` | `TypeOK`, `ServedSetIsCurrent`, `WatchesFollowHandler` |
| `ServerRefinement` | `ReturnedOkServed`, `SwapsOnlyOnChange`, `Refinement` | `ReturnedOkIsServed`, `SwapOnlyOnChange`, the safety part of `ImplementsServedSet` |
| `InstallProofs` | `TypeCorrect`, `LoopsCompute`, `AllServed` | `TypeOK`, `LoopComputesUnion`, `DiscoveredIsServed` |
| `WatchProofs` | `TypeCorrect`, `NoSendAfter`, `NoneLeft`, `GapFree`, `BookmarkSeparation` | `TypeOK`, `NoSendAfterClose`, `NoRemoteLeft`, `NoGap`, `BookmarkSeparates` |
| `StorageProofs` | `TypeCorrect`, `WritesUnambiguous`, `WritesHitLocated`, `StableFound`, `ReportedDeleted` | `TypeOK`, `WriteIsUnambiguous`, `WriteHitsLocated`, `StableIsFound`, `ReportedIsDeleted` |
| `OperatorProofs` | `TypeCorrect`, `ChildrenGuarded`, `LiveChildrenKept` | `TypeOK`, `ChildrenAreGuarded`, `LiveKeepsChildren` |
| `AggregatorProofs` | `TypeCorrect`, `ReadyEarned`, `ServerUsedAsPromised` | `TypeOK`, `ReadyIsEarned`, the use of `ServedSet` |

Four theorems, and the invariant of `OperatorProofs`, have a hypothesis. Each is
needed: TLC finds a counterexample without it, and each names a limit of the code.

| Theorem | Hypothesis | Without it |
|---|---|---|
| `SwapsOnlyOnChange` | `SingularsAgree`: documents agree on the singular name of a resource | a rebuild in another map order swaps without a change |
| `AllServed` | `OneVersionPerGroup` | the run `install_versions` |
| `ChildrenGuarded`, `LiveChildrenKept` | `SingleProcess`: one operator process | a second process applies a child, or finalizes, from a stale cache |
| `LiveChildrenKept` | `NamesDiffer`: names of children do not collide | the run `operator_names` |

### The arguments

**Server.** `ServedSetIsCurrent` speaks only of moments when the mutex is free, so it
is not inductive. `IInv` extends it to all moments: what the installed handler serves
is the merge of the members, or they have none, unless `resync` has seen a
change and has not rebuilt yet. For that it needs `LockDiscipline` (a swap
happens only under the mutex; `todo` is empty outside of `resync`'s loop and
holds members only) and `SwapReplaces` (a swap never ends the watches of the
handler it has just stored). The lemmas follow the code: what `Union` and
`resolve` return, what `rebuild` does in its four cases (`RebuildStep`), and then
one lemma per group of actions.

**Refinement.** `Server` chooses one iteration order per rebuild and `ServedSet` says
that a merge fails or is served whatever the order. `OrderDecidesSingular` bridges the
two: without a conflict any two orders give merges that differ in singular names
only. So an error in one order is an error in all (`NoErrorInAnyOrder`), and
where singular names agree there is one merge (`OneUnion`). `RInv` adds to `IInv`
that the handler which a swap has stored serves the merge already, that inner
servers are never empty and never hold a resource without a kind, and that a member
has what some document reports. Every action of `Server` then maps to a step
of `ServedSet` or to a stutter.

**Install.** `Discovery!Union` is given an iteration order; the loops have none. The
invariant says that there is an order of the clusters visited so far, the current
one last, for which `merged` holds the merge of the resources met so far (`SoFar`):
visiting a cluster makes the order longer, and an entry is extended only by a cluster
behind its leader. When the loops end, `SoFar` is the whole argument. The installation
adds that each group version of the merge is waiting or done, never both.
This is what entitles `Server` to take `Union` as one step.

**Watch.** The control part says which goroutine can run in which phase. The data part
is about one sequence, what the client has received followed by the initial events
still to be sent: the feeder only moves the border between the two, so the sequence
grows at its end alone, and gap, order and bookmark are facts about it.

**Storage.** The invariant says who has been asked, that an answer is about the member
that gave it and the name that was asked for, that uids given out are new, that an
object which was there all along is in each answer it belongs in, that an answer for
one name holds one object at most, that a dry run has deleted nothing, and that what
was listed before a successful `DeleteCollection` is gone or ending. What is ending
never comes back, and a uid is not given out twice, so both last until the response.

**Operator.** `ChildrenAreGuarded` is not inductive: a reconcile that releases the
finalizer looks at no child, and one that applies a child looks at no finalizer.
`CacheFollows` says what a lagging cache still tells of the API server (versions,
and that a cached live object with its finalizer is guarded to this day),
`WorkFollows` what a reconcile that read the cache before its first call can rely on.

**Aggregator.** `ReadyIsEarned` speaks of the end of a pass. The invariant carries it
through the loop: as long as nothing failed, the cluster of every passed entry is
registered with the selectors of some entry of that name; the call that waits is
that of the current entry; removal touches no cluster of the spec; and the resync
loop in between changes no selector. `ServerUsedAsPromised` closes the composition:
to the server, each step of the process is a step of `ServedSet` or the end of all of
it, and `Refinement` shows that `Server` implements `ServedSet`.

### Only model-checked

Liveness: `StaleWatchesEnd`, `Convergence`, the fairness in `ImplementsServedSet`,
`StopEndsWatch`, `RemoteEndEndsWatch`, `EventuallySettled`, `MembershipConverges`,
`FailureIsReported`, `Settles`. The prover handles neither fairness nor `ENABLED`.

## Not modelled

`scheme.go`, `protobuf.go` and the converter of `install.go`: stateless
conversions of bytes, whose result depends on encodings and generated types of
libraries. `listen`/`Run` (sockets, TLS), flags and wiring, generated code, the
test framework. None has state that changes after start-up or after an inner server
is built. Bodies of objects; names of Secrets; texts of errors and conditions.

## Plan

1. An abstract specification of the stream that a watch gives its client, and a proof
   from the invariant of `WatchProofs` that `Watch` implements its safety part.
2. More about `Aggregator` in the proofs: what a status says when it is written
   (`observed` and the clusters that failed) relative to the object that was read.
3. Possible: two requests at once in `Storage`.
