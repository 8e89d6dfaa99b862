# A verification project for orin-device-system

orin-device-system lets Kubernetes pods ask for single Orin chips ("orins") of
the boards of a node. This directory holds TLA+ models of it, from the pod that
asks for orins to the file its container finds on the node, the TLC runs that
check them, and TLAPS proofs about their cores.

1. What the system is: components, state, operations, interactions
2. Which behaviours are hard, and what makes each component correct
3. Modules, and how they correspond to the code
4. Runs: what each asks, its bounds, its fairness
5. Proofs
6. What the models show about the code
7. What is not modelled, and the limits of the models
8. Plan

Paths are relative to `src/`; `manager/` stands for `pkg/scheduler/manager/`.


## 1. The system

A pod lists the orins it wants by number (`superedge.io/device-orin-1: 1`, ...). All of
them must come from *one* board. A node reports each board as an extended
resource whose value is a *decimal map*: the digit 1 at position *i* says that
orin *i* is there. Two programs make this work.

**The scheduler extender** (`cmd/scheduler`) is called by kube-scheduler over
HTTP, each request in a goroutine of its own.

| component | state | operations |
|---|---|---|
| topology maps, `manager/topo/mazuinfo.go` | board -> set of orins | `Add`, `Equal`, `DifferenceFromSuperset` |
| `NodeInfo`, `manager/cache.go` | per node: `Total`, `Requested`, `Allocatable`, `Pods` | `NewNodeInfo`, `addPod`, `deletePod` |
| `scheduleCache`, `manager/cache.go` | `nodeCache`, `podMaps`, `assumePods`, `releasedPod`, one RW lock | `AddPod`, `DeletePod`, `AssumePod`, `ForgetPod`, `AddNode`, `UpdateNode`, `DeleteNode`, `GetNode`, `KnownPod` |
| `BinpackAllocator`, `manager/allocator.go` | none | `Allocate`: the tightest board the request fits, and a score |
| `manager`, `manager/manager.go` | the cache, a client | `Predicate`, `Priority`, `Bind` |
| `Controller`, `manager/controller.go` | listers, `podQueue` | three pod handlers, three node handlers, the workers' `syncPod` |
| HTTP routes, `pkg/scheduler/routes` | none | decode, call the manager, encode |

**The device plugin** (`cmd/deviceplugin`) runs on every node.

| component | state | operations |
|---|---|---|
| `DevicePluginServer`, `pkg/device/plugin/plugin.go` | a gRPC server and a socket per orin class, an error channel, a file watcher | `Run`, `Serve`, `Wait`, `Register` |
| gRPC handlers, `pkg/device/plugin/orin.go` | none | `ListAndWatch`, `Allocate`, `PreStartContainer`, and `patchNodeExtraResource` at start-up |
| locator and sitter, `pkg/device/kubeapis` | a client with a sticky error; a pod lister | `Locate`, `GetPod` |
| file provider, `pkg/device/provider` | a configuration, read once | look-ups |

How they interact:

```
 kube-scheduler --Predicate/Priority/Bind--> manager --AssumePod/ForgetPod--> scheduleCache
                                               | GET, UPDATE(annotation), BIND      ^
                                               v                                    | AddPod, DeletePod,
                                          API server --watch--> Controller ---------+ AddNode, UpdateNode, ...
                                               ^                (handlers, queue, workers)
       patchNodeExtraResource (decimal maps)   |
 device plugin --------------------------------+---- PreStartContainer reads the annotation
```

* Predicate and Priority read `Allocatable` of the candidates.
* Bind chooses a board, charges it to the ledger (`AssumePod`), writes the board
  into the pod's annotation (UPDATE), and binds the pod to the node (BIND).
* The informers' handlers and the queue's workers bring the ledgers in line with
  what the API server says, among it the pods an earlier scheduler process bound.
* On the node, `PreStartContainer` finds the board in the annotation.


## 2. What is hard, and what correct means

Everything in the scheduler shares the cache, whose lock is held for one method
at a time. The interesting executions are those *between* two methods, and
between an API call and what the informers say of it. PROJECT.json lists the
hazards one by one with their lines; in short:

* **Half-way failures.** `addPod` charges before it checks and never undoes the
  charge; `deletePod` repairs `Allocatable` incrementally. Correct: the books of
  a ledger always balance, it never offers an orin the node does not report, and
  a broken ledger offers nothing new until it is replaced.
* **Bind against itself and the API server.** Board chosen without the lock,
  retries, failing calls, lost replies, an old `*NodeInfo`, a second request for a
  pod that is bound, or that has completed and still exists. Correct: a live bound
  pod has a board and keeps it; one writer per live pod; a live bound pod is known;
  no orin to two live pods; every request is answered.
* **Handlers against workers.** Pods are read from a lister and acted on later;
  node handlers list first and lock later. Correct: no pod in two workers; a
  running pod is not taken off its ledger because of a stale read; bound pods
  get known; completed pods are released for good.
* **The pool of Parallelize.** Goroutines share slices. Correct: every candidate
  is answered exactly once, and the request ends.
* **The kubelet's life, and the plugins'.** The kubelet restarts, empties the
  socket directory and forgets the plugins between any two steps of `Run`; the
  process of the plugins ends. Correct: no plugin rests while unregistered, and
  every plugin ends up registered.
* **From the board to the container.** The kubelet knows nothing of boards: it
  gives a pod devices of *any* board, and the directory a container has mounted
  is named after one of them. PreStartContainer has to find out which pod a
  device belongs to, from a list of the kubelet and a lister that lags, while
  calls fail, are given up, and are made again. Correct: a running container
  reads the attributes of its pod's board; no two containers of live pods are
  given one orin; every placed pod gets started.
* **Numbers.** Decimal maps beyond 19 digits, repeated entries of the
  configuration, scores of nodes with more than 100 free orins. Correct: the
  scheduler never believes in an orin that is not there; both reports of a node
  agree; the order of the scores survives.


## 3. Modules

```
 Topo <- NodeInfo <- ScheduleCache <- BindProtocol ..implements..> Placement
              ^         ^  ^   (with Allocator)                       ^
              |         |  Controller                                 |
              |         |                                         NodeAgent
              |         +- MCScheduleCache                            |
       MCAlgorithms -> Allocator, NodeReport <------------------------+
                                    |
                                    +-> Provider, DecimalMap
 Topo <- Allocator <- Filter
 DevicePluginServer

 ScheduleCache <- ScheduleCacheProofs <-+- BindProofs -> BindProtocol
                                        |      ^
                                        |      +- BindPlacementProofs
                                        +- ControllerLedgerProofs -> ControllerProofs -> Controller
 NodeAgent <- NodeAgentProofs
 Filter <- FilterProofs
 DevicePluginServer <- DevicePluginProofs
```

An arrow points to the module that is extended. MCAlgorithms, MCScheduleCache,
MCBindProtocol, MCController, MCFilter and MCNodeAgent give the runs their
constants; MCAlgorithms also holds reference definitions. Two of the modules are
abstract specifications: `ScheduleCache` and `Placement`.

`ScheduleCache` is at once the model of the cache and the abstract specification
its callers are measured by: its actions have no guards, and its `Next` allows any
caller to call any method with any arguments that keep `Consistent`. That
`BindProtocol` implements it (`KeepsCacheContract`, the cache's `Spec`) is checked in
bind_serial and proved under the hypotheses of section 5; that `Controller` does is
proved without hypotheses (a run with its one board would show little).

**Topo** `BoardDetails` is a function from some boards to sets of orins.
`OrinInfo`, which only repeats its board, is left out. `Covers` is the condition
under which `DifferenceFromSuperset` returns no error. A board with no orins
left stays in the map, as in the code.

**NodeInfo** The ledger. `addPod` and `deletePod` change it in place and may
fail half way; each is two operators: the ledger left behind and whether an
error was returned. The steps of `addPod` are named: `Evicted` (the delete of a
pod stored before), `Charged`, the check `Healthy`, `Stored`. A pod object
matters only through its UID and its annotation, so `Pods` maps a pod to the
board it was stored with; `BadBoard` is an annotation that does not parse. Go
maps are references; values are enough here because every map a ledger shares
with another one (`newNi.Requested = oldNi.Requested` in `UpdateNode`, `Allocatable
= Total` in `NewNodeInfo`) is either dropped with its other owner or replaced
before it is changed in place: `deletePod`'s `Allocatable.Add` runs only for a
stored pod, and storing a pod has replaced `Allocatable`. `NewNodeInfo` is a
closed form of the loop over the listed pods, in the order of a Go map;
`MCAlgorithms` checks it against the loop.

**ScheduleCache** One action per method of the `Cache` interface, each one step
because it runs under the lock; where the code returns an error there is an
operator `...Err`, used by the callers. `podMaps` and `assumePods` are sets of
UIDs. `GetNode` and `KnownPod` are reads.

**Allocator** The set of boards the binpack scan may return, one of the
tightest fits; and the node's score, which falls from `EmptyScore` (100 in the
code) by one for every free orin and is negative for a large node.

**Placement** What the extender promises: a pod is placed at most once, on a
node and a board, for good, and has its orins on that board to itself while it
lives. `BindProtocol` implements it (`ImplementsPlacement`) where the requests for
a node or a pod do not overlap, no bound pod is requested again, and under the other
hypotheses of section 5: a pod is placed when the BIND takes effect, with the board in
its annotation; it has ended when it completed (from its deletion timestamp on) or is
gone. `NodeAgent` extends it: what happens on the node is checked against any
scheduler that keeps the promise.

**BindProtocol** `manager.Bind`. A handler is a record with its place (`pc`),
pod, node, attempt, the version it read and the board it chose. One action per
call: `Start` (with `GetNode`), `GetPod`, `AllocateBoard`, `Assume`, `Update`,
`ForgetUpdate`, `BindPod`, `ForgetBind`, `Recover`. `ni` is `Current` while the
`*NodeInfo` taken by `Start` is the one in the cache; when a node event replaces
it the handler keeps the old one (`Detach`). The API server (external): UPDATE
checks the resource version, one that changes nothing makes no new version, and BIND
checks that the pod is neither bound nor being deleted; each may fail or lose its
reply as far as `Faults` allows. A pod is live, then completed (`IsCompletedPod`: from
its deletion timestamp on, or by its phase; `PodCompletes`), then gone, then its
delete event is handled. A completed pod can still be read and updated, while a
worker takes it off the ledger and out of `podMaps` (`PodReleased`). The informers
appear as the calls of their handlers and workers (`NodeAdded`, `NodeUpdated`,
`NodeDeleted`, `PodSynced`, `PodReleased`, `PodDeletionHandled`) at any time. `shown`
is how old what they go by may be: the versions in which the lister may still show a
bound pod. It shows none older than a completed one that a worker has acted on.
`Requests` says which requests kube-scheduler may make besides the orderly ones: for
a pod that is bound or completed, for one that is in hand, for a node that is. A pod
may begin with an annotation an earlier process left (`Leftover`).

**Controller** The path watch -> lister -> notifications -> handlers -> queue ->
workers -> cache, from the start of a process on, with whatever pods an earlier
process left at the API server (`Leftover`). The lister is updated before the
handlers are notified. `podQueue` is client-go's queue with its three sets;
`Done(p, again)` is `AddRateLimited` and the deferred `Done` together. A
worker's steps are split where the code reads something and uses it later:
`syncPod` (read the lister), `assignPod` (look at the cache), `AssignList` (GET the
node, list its pods), `AssignNode`, `AssignAdd`, `releasePod`. The add handler of
the node is `ListForNode` and `addNodeToCache`. Bind is reduced to what concerns the
cache and the watch: the choice of a board from what is free at one moment
(`BindChoose`), the charge at a later one (`BindAssume`, with the error of `AssumePod`
and what it leaves behind), UPDATE and BIND when the API server answers, and
`ForgetPod` when the pod is gone (`BindFails`). `Overlaps` says which overlaps are possible,
so that what holds only without one of them is stated as such.

**Filter** One request of Predicate or Priority. `Take`, `Check`, `CountIn`,
`Store`, `Fail`, `Score`, `Leave` are the steps of a goroutine of `Parallelize`;
the slot from the atomic counter and the store into the slice are two steps.
Meanwhile ledgers change (`LedgerChanges`). `Answer` is the return of `wg.Wait`,
with `Normalize` for Priority.

**DevicePluginServer** `Run` of each plugin with the labels of the code as
places, the goroutine that stops the old server (`Stopped`), and the kubelet
(external). `errChan` is a channel of one; `Push` waits for room in it. The
process of all plugins may end anywhere, as when `Serve` panics (`ProcessEnds`),
and is started again when the kubelet is up (`ProcessStarts`).

**Provider, DecimalMap, NodeReport** Pure. The look-ups in the configuration
file; the two directions of the decimal map, over integers of `Bits` bits, with
what a float that does not fit becomes as a parameter (`Beyond`: the smallest
integer on amd64, the greatest on arm64); and the two reports of a node: the
number per board (`patchNodeExtraResource`, parsed back by `TotalOf`) and the
devices per class.

**NodeAgent** One node, from the placement of a pod to its running container.
A handler of PreStartContainer is a record of `call`, one action per thing it
waits for: `Locate` (under the locator's lock; a sticky error is dropped by
dialling again), `GetPod` (the pod the lister shows *under the name* of the one
located), `PopulateOrinAttr` (a write that may stop half way). The kubelet
(external): `Admit` picks free devices of the classes asked for, of any board, and
calls Allocate, whose answer is the mount of one directory; `CallPreStart` one
class after the other; a call that fails, or is given up (`GiveUp`), is made
again from the first class on. `lister` is behind the API server until `Sync`.
`StartAgent` is main: the lister is synced first, locators are new, the capacity is
patched. `Crash` ends every call. Pods that do not ask for
`superedge.io/device-board` reach the node without an annotation
(`PodBoundElsewise`). Pods have one container.

Definitions preceded by a comment "Mutant:" are plausible bugs. PROJECT.json
says which definition each replaces and which property must then fail; every
property of a passing run has one. They are used by no specification.


## 4. Runs

Deadlock is not checked where the system comes to rest: a finished request, all
pods gone, all plugins registered. Every such cfg says so.

| run | question | instance | result |
|---|---|---|---|
| schedule_cache | does any sequence of calls keep the books? | 2 boards, 2 orins, 2 pods that share an orin, 3 capacities | `TypeOK`, `Accounting`, `OffersOnlyReported`, `ClosedLedgerStaysClosed` hold |
| algorithms | do configuration, capacity, ledger and allocator fit together, and are the closed forms the loops? | every file of 2 entries with up to 2 of 6 orins (one below the first digit and two beyond the last among them), up to 3 listed pods, 16-bit integers, both conversions | `LoopBuildsClosedForm`, `ScanChoosesAllocate`, `ReportMatchesClasses`, `ReportNeverInvents` hold |
| bind_serial | is Bind the abstract placement, and is the cache's contract kept? | 2 pods that need the same orin number, 2 boards, 1 handler, 2 requests per pod (orderly ones), 2 attempts, 2 capacity changes, every fault but a lost BIND reply | `ImplementsPlacement`, `KeepsCacheContract` hold |
| bind_concurrent | what survives every fault and two handlers for one pod? | 1 pod, with or without an old annotation, 2 handlers, 2 requests, overlapping or for the pod when it is bound or completed, 2 attempts, 1 capacity change or deletion of the node, all faults but a failing GET | `BindTypeOK`, `BoundHasBoard`, `OneWriterPerPod`, `BoundIsKnown`, `BoundStays`, `BindReturns` hold |
| bind_exclusive | are orins exclusive under concurrent requests? | 2 pods, 2 handlers, no fault | **violated**, section 6 |
| filter | is every candidate answered once, and scaled in order? | 3 candidates, 2 workers, negative scores, ledgers change | `EveryCandidateAnswered`, `NormalizeKeepsOrder`, `RequestAnswered` hold |
| controller_calm | do bound pods get and stay known, completed ones get released? | 1 node, 1 board, 2 pods in any stage left by an earlier process, 1 worker, no overlaps | `BoundBecomesKnown`, `CompletedIsReleased` hold |
| controller_overlap | what holds with every overlap? | as above, 2 workers, pods that exclude each other, all `Overlaps`, `Relists` | `ControllerTypeOK`, `OneWorkerPerPod`, `RunningStaysCharged` hold |
| device_plugin | does a plugin survive a restart of the kubelet and an end of its process? | 2 plugins, 1 restart, 1 end | `RestsOnlyRegistered`, `EndsRegistered` hold |
| device_plugin_stuck | does the error channel have room? | 1 plugin, 1 restart, 1 failing registration | **violated**, section 6 |
| node_agent | does every container read its own board? | a board with 2 orins and one with 1, 2 pods (both orins; orin 1), 2 handlers, 1 trouble | `AgentTypeOK`, `SeesOwnBoard`, `OrinsNotShared`, `PodStarts` hold |
| node_agent_names | also when a pod follows another one of its name? | the same, one name, no trouble | **violated**, section 6 |

**Bounds.** `MaxCalls` (Bind requests per pod), `MaxNodeUpdates`, `Attempts` (3
in the code, 2 here: a first and a repeated round), `MaxChanges`, `MaxRestarts`,
`MaxCrashes`, `MaxTimeouts`, `MaxTroubles` (of a node: calls and writes that fail
or are given up, crashes, restarts of containers, pods without the extender),
`MaxBoards` and `MaxSocs` (entries of the file, orins of an entry); each is in the guard of the action it bounds. Two pods are
enough for any conflict over an orin, two orins to tell a part of a board from
all of it, two boards to tell boards from one another; a third pod would repeat
the role of one of the two. The pods of schedule_cache request {o1} and {o1, o2}
so that charges overlap, and its capacities grow, shrink and lose a board. In
the bind runs both pods need the *same* orin, so they fit a board only one at a
time. bind_concurrent has one pod because its properties are about one pod;
two pods are in the other two. It leaves out a GET that fails, which only repeats the
round (bind_serial has it); with it TLC finds the properties kept as well, in 604
thousand states, but not within a short run. In node_agent the second board lacks an orin, so
that what the kubelet may choose and what the pod was placed on differ. Integers
of 16 bits and 5 places are small, but stand in the same relation as 64 and 19
(`BitsAssumption`). `EmptyScore` is 4 in `filter`, so that a ledger of five free
orins already has a negative score. The proofs lift the properties they are
about beyond these bounds.

**Symmetry.** Only workers in controller_overlap, which checks no liveness.

**Fairness.** The weakest the code justifies:

* `BindSpec`: weak fairness of each handler's step. A goroutine is scheduled,
  and the client's calls return (with a result or an error). Nothing is assumed
  of informers, of kube-scheduler, or of which outcome a call has.
* `Filter`: weak fairness of each worker and of `Answer`: goroutines run and
  `wg.Wait` returns.
* `ControllerSpec`: weak fairness of informer, handlers, node handler and each
  worker. These are loops of client-go and `wait.Until`. Nothing is assumed of
  pods or Bind.
* `NodeAgent`: weak fairness of the kubelet's steps for each pod (its sync loop
  retries every start), of each handler of PreStartContainer (its calls return),
  of the lister, and of the process's start (a DaemonSet). Nothing is assumed of
  the scheduler, of the end of a pod or of which outcome a call has; that troubles
  end is the bound `MaxTroubles`.
* `DevicePluginServer`: weak fairness of `Run`, of the goroutine that stops the
  old server, and of the starts of the kubelet and of the process (what is down
  comes back).
  Nothing makes a registration succeed except that the kubelet is up.

**Preconditions that matter.** `Settled` (bind_serial): capacities change only
between Bind requests and with a lister that has caught up. Without it a node
update drops the charge of a pod whose Bind is under way (section 6).
`Leftover = {NoBoard}` (bind_serial): no pod has an annotation of an earlier
process. `Requests = {}` (bind_serial): a pod is not requested again once it is bound;
with such requests both properties fail (section 6). `Binder` has one handler there:
overlapping requests are what bind_exclusive is about (`Requests = {"node"}`), and how
much of them the promise survives is proved (section 5). bind_concurrent has
`Settled = FALSE`, `Leftover` and all `Requests`.
`Overlaps = {}` (controller_calm): no handler is called while the node's add handler
or a worker is in between two of its steps. `Prompt` (both plugin runs): the goroutine
that closes the old listener is done before the sleep of a second. Without it
`RestsOnlyRegistered` fails. One restart (device_plugin): with two of them
`EndsRegistered` fails by the flaw of `PushHasRoom`. In node_agent: `Prompt` (a
call the kubelet has given up returns before it is made again or its device goes
to another pod), `Count = 1` (orin.go:181 says so) and names used once; section 6
says what happens without each. `MaxTroubles = 1` keeps the liveness check small;
the three invariants do not need it: TLC finds them kept with 2 and with 3
troubles as well (2.6 million states), and the proofs are for any number.


## 5. Proofs

| theorem | statement |
|---|---|
| `ScheduleCacheProofs!InvHolds` | `Spec => []IInv` |
| `ScheduleCacheProofs!TypeCorrect` | `Spec => []TypeOK` |
| `ScheduleCacheProofs!AccountingHolds` | `Spec => []Accounting` |
| `ScheduleCacheProofs!OffersOnlyReportedHolds` | `Spec => []OffersOnlyReported` |
| `ScheduleCacheProofs!ClosedLedgerHolds` | `Spec => ClosedLedgerStaysClosed` |
| `ControllerProofs!OneWorkerPerPodHolds` | `ControllerSpec => []OneWorkerPerPod` |
| `ControllerLedgerProofs!CInvHolds` | `ControllerSpec => []CInv` |
| `ControllerLedgerProofs!ControllerTypeHolds` | `ControllerSpec => []ControllerTypeOK` |
| `ControllerLedgerProofs!ControllerKeepsContract` | `ControllerSpec => KeepsCacheContract` |
| `ControllerLedgerProofs!ControllerKeepsBooks` | `ControllerSpec => [](Accounting /\ OffersOnlyReported)` |
| `ControllerLedgerProofs!LedgerStaysOpen` | `ControllerSpec => []LedgerInv` |
| `ControllerLedgerProofs!RunningStaysChargedHolds` | `ControllerSpec => RunningStaysCharged` |
| `BindProofs!BInvHolds` | `BindSpec => []BInv` |
| `BindProofs!BindTypeHolds` | `BindSpec => []BindTypeOK` |
| `BindProofs!BoundHasBoardHolds` | `BindSpec => []BoundHasBoard` |
| `BindProofs!BoundStaysHolds` | `BindSpec => BoundStays` |
| `BindProofs!OneWriterPerPodHolds` | `BindSpec => []OneWriterPerPod` |
| `BindProofs!BoundIsKnownHolds` | `BindSpec => []BoundIsKnown` |
| `BindPlacementProofs!KInvHolds` | `CleanStart, Orderly` give `BindSpec => [](BInv /\ KInv)` |
| `BindPlacementProofs!BindKeepsContract` | the same hypotheses: `BindSpec => KeepsCacheContract` |
| `BindPlacementProofs!BindKeepsBooks` | the same: `BindSpec => [](Accounting /\ OffersOnlyReported) /\ ClosedLedgerStaysClosed` |
| `BindPlacementProofs!PInvHolds` | `Settled, CleanStart, OneByOne` and no `"bindReply"` in `Faults` give `BindSpec => [](BInv /\ IInv /\ KInv /\ PInv)` |
| `BindPlacementProofs!ExclusiveHolds` | the same hypotheses: `BindSpec => []Exclusive` |
| `BindPlacementProofs!BindPlaces` | the same: `BindSpec => ImplementsPlacement` |
| `FilterProofs!FInvHolds` | `Spec => []FInv` |
| `FilterProofs!EveryCandidateAnsweredHolds` | `Spec => []EveryCandidateAnswered` |
| `FilterProofs!NormalizeKeepsOrderHolds` | `Spec => NormalizeKeepsOrder` |
| `DevicePluginProofs!RestsOnlyRegisteredHolds` | `Prompt => (Spec => []RestsOnlyRegistered)` |
| `NodeAgentProofs!AInvHolds` | `Spec => []AInv` |
| `NodeAgentProofs!AgentTypeHolds` | `NamesUnique, ReportInventsNothing, AttrsAreThere` give `Spec => []AgentTypeOK` |
| `NodeAgentProofs!SeesOwnBoardHolds` | `Prompt, Count = 1, NamesUnique` give `Spec => []SeesOwnBoard` |
| `NodeAgentProofs!AgentPlaces` | `Spec => PlacementSpec` |
| `NodeAgentProofs!OrinsNotSharedHolds` | with `ReportInventsNothing, AttrsDiffer` as well: `Spec => []OrinsNotShared` |

Each is for every set of pods, nodes, boards, orins, handlers and workers and
every number of rounds and faults. The assumptions on the constants are `ASSUME`s
of the modelled modules, which TLC evaluates on the runs; conditions that a reader
may want to doubt are hypotheses of the theorem that needs them. Every inductive
invariant below was first checked by TLC on the instance of a run.

### The cache

*Assumptions*: `ReqAssumption` (a pod requests a set of orins),
`AnnotationAssumption` (no annotation and a bad one are no boards),
`NodeAssumption` (the empty node name is no node), `TotalsAssumption` (a node
reports board details). `Spec` itself assumes of the callers what `Consistent`
says.

*The inductive invariant.* Neither `Accounting` nor `OffersOnlyReported` is
inductive: `deletePod` subtracts from `Requested` and adds to `Allocatable`, and
whether the two stay complements depends on what the pod was charged. `IInv`
adds to `TypeOK`, for every ledger (`LedgerOK`): if the ledger is healthy,
`Allocatable` is `Total` minus `Requested`; whatever it is, it lies within `Total`
and every stored pod's claim lies within `Total`. The last conjunct is what
makes a release from an *unhealthy* ledger safe: the orins that return to
`Allocatable` are the node's. That a stored pod is charged where its annotation
says comes from `Consistent`, which restricts the callers: that the controller
and Bind keep it is proved (below).

*The argument.* Lemmas about `Add`, `DifferenceFromSuperset` and `Covers`
(`Topo`); lemmas that `Released`, `Charged` and `Stored` keep `LedgerOK`; from
them `addPod`, `deletePod` and `NewNodeInfo`; then one step per method of the
cache. `ClosedLedgerStaysClosed` needs that a charge only grows `Requested`, and
that a delete from an unhealthy ledger leaves it unhealthy: what is released
was part of `Total`, so what exceeded `Total` is still there. This is the point
that surprised: a ledger broken once by overlapping claims is not repaired by
the deletion of the pods that broke it.

### The controller

*The queue* (ControllerProofs). `OneWorkerPerPod` is not inductive: that the head
of the queue is with no worker depends on how client-go's three sets fit
together. `QueueInv` says that what is queued is dirty, queued once, and not being
processed, and that what a worker has is being processed. Only `Get`, `Finish` and
the handlers' `Enqueue` touch the queue; the lemmas about them rest on two about
sequences (a new key at the end, the head taken off). Nothing is assumed of
informer, API server or Bind.

*The ledger* (ControllerLedgerProofs). Everything handlers and workers act on may
be stale. `CInv` says how stale: `Seen(p)` are the stages pod `p` is in or may once
have been in, and the lister, every notification, every list taken before a lock
and every worker hold only such stages, with the board the pod still has. Of them
only `completed` and `gone` lead to a release, and a pod never returns from them;
so no stale read releases a running pod (`RunningStaysCharged`), and whatever is
added carries the board the pod is stored with: that is `Consistent`, so that the
controller implements the cache (`ControllerKeepsContract`) and the cache's
theorems hold beside it (`ControllerKeepsBooks`). `LedgerInv` is what a run could
hardly tell with its one board: over any number of boards the ledger stays healthy
and every pod on it is there with its own board. A board that Bind has chosen (`choice`)
may be charged for another pod before `BindAssume`; the charge then overlaps, but still
fits the node, so that `AssumePod` fails for no pod but a known one (`AssumeFits`) and
leaves no charge behind. (Where the node changes it may: `BindProtocol`.) *Assumptions*: `HomeAssumption`
(the node is one, and reports a capacity), `PodsAssumption` (finitely many pods),
`OverlapAssumption`. The overlaps may all be there.

### Bind

For any number of handlers, requests and rounds, all faults, all `Requests`, nodes
that come, change and go with a lister that lags in any way, and annotations an
earlier process left. The theorems speak of *live* bound pods, in a model where
completed ones can be read, updated, requested and released. `BoundStays` is not
inductive: the UPDATE that removes the annotation
after a failed BIND carries the version the handler got, so what matters is how
old that is. `HandlerOK` relates, place by place, the handler's version to the
pod's: up to the UPDATE it is at most the pod's; where a bound pod is to be
forgotten it is *older*, so that the API server refuses the write. `OneAssumed`
rests on `KnownInv`: who is past `AssumePod` has put the pod into `podMaps`, from
which `ForgetPod` does not take it (`manager/cache.go:302`): the code's only guard
against a second writer, and not what the comment at `manager/cache.go:148` says. That a
live pod is not released, which would open `AssumePod` again, rests on `ShownInv`: a
version in which a pod is completed is shown only when it is.
*Assumptions*:
`BinderAssumption` (the names of "no pod" and "the current ledger" are no pods and
no ledgers), `AttemptsAssumption`, `BoundsAssumption`, `FaultAssumption`,
`RequestsAssumption`, `LeftoverAssumption`.

### What Bind keeps to, and what it promises

BindPlacementProofs builds on `BInv`. Both results need hypotheses, which rule out
executions the code *can* have: section 6 has a counterexample without each of
them. Within them they are for any number of handlers, pods, nodes, boards, rounds
and requests.

*The contract.* `BindKeepsContract`: every call of Bind on the cache carries the
board the pod is stored with (`Consistent`), so the cache's theorems hold beside
Bind (`BindKeepsBooks`). The critical call is `ForgetPod` after a failed UPDATE, which
is given the pod as it was *read* (`manager/manager.go:173`), not the one that was
assumed: it undoes nothing or, if the pod was read with a board, releases that
board. `KInv` says why it is harmless: a ledger stores a pod only on the node and
board it is bound to or its handler is about to bind it to (`StoredInv`); a bound pod has one board in every version the lister may
show, also when it is completed (`BoardInv`); a pod in
hand is in one handler's (`HandInv`); and a pod that was never assumed has no board
in its annotation, so the handler that gets through `AssumePod` has read none
(`UnseenInv`). The last holds because `podMaps` remembers every pod until its deletion
is handled, or, when it is bound, its completion is: a handler whose pod is unknown has read it before
anyone wrote to it. *Hypotheses*: `Orderly` (no request for a pod that is bound, or that
another request is at work on) and `CleanStart` (no board of an earlier process in an
annotation). All faults and any lister, lost BIND replies and nodes that change in the
middle of a request included.

*The promise.* `BindPlaces`: Bind is `Placement`, and `ExclusiveHolds`: no orin
goes to two live pods. `PInv` relates three things kept in different places: where
a pod lives by the API server, where a ledger stores it, and what is charged. Who
lives or is stored on a board is charged there (`ChargedInv`) and has its orins for
itself (`ApartInv`); a handler that has chosen a board finds it still free when it
assumes the pod, and finds the pod stored from then to BIND (`ServiceInv`). The
choice is sound because a healthy ledger balances (`IInv` of the cache); on a ledger
that is *not* healthy the chosen board may be taken, but then `AssumePod` fails. The
charge that stays behind (`ForgetPod` never returns it after a failed UPDATE) only
makes the ledger more careful. *Hypotheses*: `OneByOne` (`Orderly`, and requests for one
node do not overlap), `Settled`, no lost reply of BIND, `CleanStart`. Requests for
different nodes may overlap. So the overlap of bind_exclusive, of two pods on one
node, is what breaks the promise; under the other hypotheses a lock per node around
Bind would be enough.

*Assumption*: `PlaceAssumption` (no place is not a place). Before the proof TLC
looked for a counterexample to `PInv` with two handlers on two nodes.

### Predicate and Priority

For any list of distinct candidates, any number of goroutines and any change of the
ledgers meanwhile. `FInv`: each candidate is in exactly one place, the channel, one
worker's hands, a slot of `filterdNodes`, or `failNodes` (`OnePlace`, `OneWorker`,
`QueuedOnce`), and the slots below `filteredLen` are filled or about to be, by one
worker each (`SlotInv`). That a worker's slot is in range is not obvious: it follows
because the slots given away so far belong to candidates other than the one in hand
(`RoomForOne`, by an injection between finite sets). `NormalizeKeepsOrder` rests on
facts about integer division that hold for negative scores as well, and on the
existence of a greatest score. *Assumptions*: `CandidatesAssumption` (candidates are
distinct; kube-scheduler's list is a list of nodes), `WorkerAssumption` (there is a
worker), `LedgersAssumption` (ledgers are board details over finitely many boards
and orins).

### The device plugin server

`RestsOnlyRegistered` for any number of plugins, restarts, crashes and failing
registrations, under `Prompt`. `RestInv` adds that an old server is being stopped
only while `Run` is about to serve, and that a plugin about to register has its
socket or a create event that will wake it up: the watcher is older than the
socket, so that no restart of the kubelet is missed. This is the argument behind
the order of `Serve`, `Wait`, `Register` and the select.

### From the board to the container

`AgentPlaces`: whatever the node does, pods are placed as `Placement` says; that the
extender itself does is `BindPlaces`, with its hypotheses. A lemma says that live pods
on one board then have no orin in common (`Apart`).

*The agent* (NodeAgentProofs), in two layers. `AInv` needs no hypothesis: a pod has
devices of the classes it asks for, a call is for a container being started and
holds the devices of its pod and class, a handler that has located a pod has located
one that had these devices, and its attributes are those of that pod's board if
names are unique. `SInv` adds what makes the devices a key: with one device to a
request no two pods and no two handlers have one device of a class (`DeviceInv`,
`HandlerInv`), hence the pod located is the pod called for; and a class the kubelet
need not call for any more is `Settled`: its file is written with the right
attributes and no handler is left that would write it. A write, a torn one included,
therefore only hits a class that is not settled. `OrinsNotShared` follows from
`SeesOwnBoard`, `AgentPlaces` and `Apart`, if the file gives different orins
different attributes.

*Hypotheses*, each with a counterexample without it (section 6): `Prompt`,
`Count = 1`, `NamesUnique` (no two pods share a name). `ReportInventsNothing` is
`ReportNeverInvents` of the algorithms run, which needs induction over sums of
powers; `AttrsAreThere` and `AttrsDiffer` say that the file gives each orin
attributes, and no two orins the same. All of them hold in the instance of
node_agent. *Assumptions*: `NameAssumption`, `NodePodAssumption`, `CountAssumption`,
`ConfigAssumption` (the file's boards are among the boards, which are finitely many),
`NodeAssumption` (one node).

The attempt to prove `SeesOwnBoard` corrected the model: under the earlier meaning of
`Prompt` (only that a *freed* device is not given away while a handler holds it) the
invariant failed with two troubles, which the run with one did not reach. The retry
of a call can overtake the handler that was given up; see section 6.

### Only model-checked

* Liveness (`BindReturns`, `BoundBecomesKnown`, `CompletedIsReleased`,
  `RequestAnswered`, `EndsRegistered`, `PodStarts`): fairness and ENABLED are out of
  the prover's reach.
* `LoopBuildsClosedForm`, `ScanChoosesAllocate`, `ReportMatchesClasses`,
  `ReportNeverInvents`: what a fold or a recursive function computes for every input
  needs induction over data, which the provers installed cannot do.
* `Exclusive` and `ImplementsPlacement` without the hypotheses of `PInvHolds` have
  counterexamples (section 6), so there is nothing to prove.


## 6. What the models show about the code

Three runs end in a counterexample.

1. **Two Bind requests can give the same orins to two pods** (bind_exclusive).
   Both read `ni.Allocatable` (`manager/manager.go:162`) before either is charged;
   `addPod` merges the second charge into `Requested` (`manager/cache.go:52-58`)
   and the check against `Total` passes, because the union is no larger.
   kube-scheduler binds pods in goroutines of their own.
2. **Run of the device plugin can block for ever** (device_plugin_stuck):
   `errChan <- err` (`plugin.go:42`) waits when an older error is still in the
   channel, and only this goroutine receives from it.
3. **A container can get the orins of another board** (node_agent_names).
   PreStartContainer finds its pod by namespace and name (`kubeapis/sitter.go:37`)
   in a lister that may still show the earlier pod of that name, as with a
   StatefulSet; no UID is compared. The container runs with the wrong attributes
   until it is restarted.

Smaller observations, found while choosing the preconditions of section 4; each
is a counterexample TLC gives when the constant named is relaxed in bind_serial
(with `Exclusive` or `ImplementsPlacement`), controller_calm or node_agent:

* `UpdateNode` rebuilds `Requested` from the lister (`manager/cache.go:260`): the
  charge of a pod that is assumed but not yet listed is lost, and `AddPod` does
  not restore it since the pod is in `podMaps`. (`Settled = FALSE` with
  `Exclusive`.)
* A BIND whose reply is lost: Bind forgets a pod that is bound. While the pod lives
  the annotation survives, as the UPDATE that would remove it is out of date; the
  charge does not. (`"bindReply"` with `Exclusive`.)
* `addNodeToCache` lists pods before it takes the lock (`manager/controller.go:339-346`):
  a pod that ends in between may get onto the ledger for good. (`"node"` with
  `CompletedIsReleased`.) A worker has the same window (`"sync"`).
* A pod bound by the previous process after the LIST of the new one is never
  added: update events concern completed pods only
  (`manager/controller.go:268`). (`"restart"` with `BoundBecomesKnown`.)
* A delete event after a broken watch carries an object without node and is
  ignored. (`Relists` with `CompletedIsReleased`.)
* An annotation that a failed BIND leaves behind (`manager/manager.go:173`: the
  UPDATE that would remove it carries an old version) does harm after a restart
  of the scheduler: the pod's first UPDATE fails, and `ForgetPod` takes the old
  board's claim off the ledger, which may be another pod's. (Three pods, one
  handler, `Leftover = {NoBoard, b2}` and `Faults = {"update"}` with `Exclusive`.)
  It is also a call outside `Consistent`, so the cache's theorems do not cover it.
* Bind does not look whether the pod it reads is bound already, or has completed
  (`manager/manager.go:151`). kube-scheduler may send a second request when it gave up
  on one that succeeded. A bound pod that terminates or has ended is released
  (`manager/controller.go:181-185`) and out of `podMaps` while GET and UPDATE on it still
  succeed, so a second request that has read it gets past `AssumePod`. Its UPDATE may
  move the pod's annotation to another board; when it picks the same board, the UPDATE
  changes nothing, BIND fails, and the UPDATE after it removes the annotation; the
  charge it made stays. (`Requests = {"bound"}` with `ImplementsPlacement`.) A later
  release of the pod is for the board in the annotation, or the one `ForgetPod` was
  given, not for the one the pod is stored with: another pod's orins become free, and
  are given away again although no call fails. (The same with `KeepsCacheContract`; with
  three pods, `Attempts = 1`, `Faults = {}`, `MaxNodeUpdates = 0`, with `Exclusive`.) While
  the pod lives this cannot happen: that is `BoundHasBoard` and `BoundStays`. Two
  requests for one pod that overlap break the contract, too (two handlers,
  `Requests = {"pod", "node"}`, with `KeepsCacheContract`). This is why the theorems of
  BindPlacementProofs assume `Orderly`.
* A failed UPDATE leaves the pod in `podMaps` (`manager/cache.go:302`, against the
  comment at `manager/cache.go:148`): the remaining rounds of `retry.Do` and every
  later Bind fail in `AssumePod`.
* Predicate's slice keeps the length of its input (`manager/manager.go:70, 110`),
  so empty names follow the nodes that fit; `manager_test.go:62` joins its two
  conditions with `&&` and does not notice.
* A handler of PreStartContainer that the kubelet has given up may still write
  (it does not look at its context): into a directory that belongs to another pod
  by then, or, overtaken by the retry of its call, into that of a container that
  runs already; if the process ends in this write, the container is left with a
  torn `config.json` (`WriteFile` empties the file first). (`Prompt = FALSE` with
  `SeesOwnBoard`.)
* With more than one device of a class per request, the directory mounted and the
  one written can differ, as each takes the first of a list whose order the
  kubelet does not fix. (`Count = 2`.)
* A pod counts as completed from its deletion timestamp on
  (`manager/controller.go:484`): its orins go to the next pod while its container
  may run. (`OrinsNotShared` without the restriction to pods that are not ended.)
* A pod bound without the extender never starts: PreStartContainer finds no
  annotation, and fails for ever. Orin 0 in a configuration is offered to the
  kubelet, but never reported to the scheduler. The nil check of `orin.go:155`
  never fires, as the look-up returns an empty map.
* `assignPod` goes on after a failed GET of the node, and `AddPod` then ignores
  the pod without an error, so it is not tried again. (`"node"` and `"get"` with
  `BoundBecomesKnown`.)


## 7. Limits

### Not modelled

* HTTP routes (`pkg/scheduler/routes`): decode a request, call the manager, encode
  the reply. No state; that requests are concurrent is in `BindProtocol` and
  `Filter`.
* The pod resources client and its generated API: gRPC plumbing copied from
  Kubernetes. What the kubelet answers is in `NodeAgent`.
* The main of the scheduler: flags, clients, start-up. The start of the
  informers is in `Controller` (`ListPods`).
* `SpreadAllocator`, which panics and is in no map; `GetBoardAttrs`, the locator's
  `List` and the sitter's GETs, which nobody calls.

Abstractions that leave something out:

* A read of a ledger is one step. In the code `deletePod` changes
  `ni.Allocatable` in place while Predicate, Priority and Bind range over it
  without the lock; the Go runtime may end the process for that.
* A pod with a policy other than binpack makes Predicate, Priority and Bind call
  a nil allocator; the panic is not modelled.
* `Controller` has the add handler of one node. Updates and deletions of nodes
  are in `BindProtocol`, with the calls their handlers make.
* A container that reads `config.json` *while* it is written again (a restart of
  another class's call) is not modelled; `SeesOwnBoard` is about what is in the
  file in every state in which the container runs.
* On linux/arm the conversion of a float to an integer goes through software
  routines; `Beyond` has the values of amd64 and arm64 only.
* A worker's `processNextWorkItem` returns false after a success, so that a
  worker handles one pod per second. The models have no time.
* A pod's requests do not change, and a name is not used by two pods: keys of
  the queue and UIDs are one thing in `Controller`.


## 8. Plan

Done in this order: `Topo`, `NodeInfo`, `ScheduleCache`, its proofs; `Allocator`
and the algorithms; `BindProtocol`; `Filter`; `Controller`; `DevicePluginServer`;
`Provider`, `DecimalMap`, `NodeReport`; `Placement` and the refinement; `NodeAgent`;
the proofs about queue, device plugin and placement; those about Bind, the
controller's ledger, the filter and the node agent; Bind's contract with the cache
and its refinement of `Placement`.

Next, models: update and delete handlers of the node in `Controller`; two
containers per pod in `NodeAgent`.

Next, proofs: the bounds of a decimal map without induction, that is
`ReportInventsNothing` from lemmas about the digits of one number, if they can be
stated without a sum.
