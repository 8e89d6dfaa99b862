----------------------------- MODULE Controller -----------------------------
(***************************************************************************)
(* The controller (src/pkg/scheduler/manager/controller.go): how what the  *)
(* API server says of pods and of one node reaches the cache, from the     *)
(* start of a scheduler process on, whatever an earlier process left.      *)
(*                                                                         *)
(*   API server --watch--> lister --notifications--> handlers --queue-->   *)
(*   workers --> ScheduleCache                                             *)
(*                                                                         *)
(* The informer (external) updates the lister first and notifies the       *)
(* handlers later, in order; the queue (external) is client-go's.  Bind    *)
(* appears as its choice of a board, its charge, and the calls it makes    *)
(* when the API server answers; BindProtocol models the rest of it.        *)
(***************************************************************************)
EXTENDS ScheduleCache, Naturals, Sequences, SequencesExt

CONSTANTS Worker,     \* goroutines of Run
          Home,       \* the node
          Capacity,   \* what it reports
          Overlaps,   \* what may overlap or fail, see below
          Relists     \* TRUE: the watch may break and skip versions of a pod

ASSUME HomeAssumption == Home \in Node /\ Capacity \in Totals
ASSUME PodsAssumption == IsFiniteSet(Pod)
ASSUME OverlapAssumption == Overlaps \subseteq {"node", "sync", "restart", "get"}
(***************************************************************************)
(* node:    the node's add handler overlaps workers, Bind and pod handlers;*)
(* sync:    a handler is called for a pod while a worker syncs it;         *)
(* restart: a BIND of the previous process is executed after the LIST;     *)
(* get:     the GET of the node in assignPod may fail.                     *)
(***************************************************************************)

VARIABLES api,         \* the stage each pod is in at the API server
          board,       \* its bind annotation
          choice,      \* the board that Bind has allocated and not yet charged
          bind,        \* Bind: "no", "assumed", or "done" with the pod
          watch,       \* versions of each pod the informer has not seen
          lister,      \* the stage each pod has in the lister, or "none"
          events,      \* notifications not handled yet
          queue, dirty, processing,   \* podQueue
          worker,
          nodeHandler  \* addNodeToCache: "todo", "listed" or "done", and its pods

podQueue == <<queue, dirty, processing>>
apiVars == <<api, board, choice, bind>>
informerVars == <<watch, lister, events>>
vars == <<cacheVars, apiVars, informerVars, podQueue, worker, nodeHandler>>

Stages == {"pending", "annotated", "bound", "completed", "gone"}

\* The object of a pod in a stage: its node and its annotation.
NodeOf(stage) == IF stage \in {"bound", "completed"} THEN Home ELSE NoNode
BoardOf(p, stage) ==
  IF stage \in {"annotated", "bound", "completed"} THEN board[p] ELSE NoBoard

NoPods == [p \in {} |-> NoBoard]
Free == [pc |-> "free", pods |-> NoPods]

\* What an earlier process leaves: pods on boards of the node, no orin twice.
Leftover(st, b) ==
  /\ \A p \in Pod : (st[p] = "pending") = (b[p] = NoBoard)
  /\ \A p \in Pod : st[p] # "pending" => Covers(Capacity, Claim(b[p], p))
  /\ \A p, q \in Pod :
       p # q /\ st[p] \in {"annotated", "bound"} /\ st[q] \in {"annotated", "bound"} /\ b[p] = b[q]
         => Req[p] \cap Req[q] = {}

Init ==
  /\ CacheInit
  /\ api \in [Pod -> Stages \ {"gone"}]
  /\ board \in [Pod -> Board \cup {NoBoard}]
  /\ Leftover(api, board)
  /\ choice = [p \in Pod |-> NoBoard]
  /\ bind = [p \in Pod |-> "no"]
  /\ watch = [p \in Pod |-> <<>>]
  /\ lister = [p \in Pod |-> "unlisted"]
  /\ events = <<>>
  /\ queue = <<>> /\ dirty = {} /\ processing = {}
  /\ worker = [w \in Worker |-> [pod |-> NoBoard, run |-> Free]]
  /\ nodeHandler = [Free EXCEPT !.pc = "todo"]

Listed == \A p \in Pod : lister[p] # "unlisted"
NodeReady == "node" \in Overlaps \/ nodeHandler.pc = "done"

-----------------------------------------------------------------------------
(***************************************************************************)
(* Pods at the API server, and Bind.                                       *)
(***************************************************************************)
Moves(p, stage) ==
  /\ api' = [api EXCEPT ![p] = stage]
  /\ watch' = IF Listed THEN [watch EXCEPT ![p] = Append(@, stage)] ELSE watch

\* The board is chosen from what is free at one moment, and charged at a later one.
BindChoose(p, b) ==
  /\ Listed /\ NodeReady /\ api[p] = "pending" /\ bind[p] = "no" /\ choice[p] = NoBoard
  /\ Cached(Home) /\ b \in DOMAIN nodeCache[Home].Allocatable
  /\ Req[p] \subseteq nodeCache[Home].Allocatable[b]
  /\ choice' = [choice EXCEPT ![p] = b]
  /\ UNCHANGED <<cacheVars, api, board, bind, informerVars, podQueue, worker, nodeHandler>>

\* A charge that fails is left to the cache; Bind tries again or gives up.
BindAssume(p) ==
  /\ choice[p] # NoBoard
  /\ AssumePod(p, Home, choice[p])
  /\ IF AssumePodErr(p, Home, choice[p])
     THEN UNCHANGED <<board, bind>>
     ELSE /\ board' = [board EXCEPT ![p] = choice[p]]
          /\ bind' = [bind EXCEPT ![p] = "assumed"]
  /\ choice' = [choice EXCEPT ![p] = NoBoard]
  /\ UNCHANGED <<api, informerVars, podQueue, worker, nodeHandler>>

BindUpdate(p) ==
  /\ bind[p] = "assumed" /\ api[p] = "pending"
  /\ Moves(p, "annotated")
  /\ UNCHANGED <<cacheVars, board, choice, bind, lister, events, podQueue, worker, nodeHandler>>

BindBind(p) ==
  /\ api[p] = "annotated"
  /\ bind[p] = "assumed" \/ "restart" \in Overlaps
  /\ Moves(p, "bound")
  /\ bind' = [bind EXCEPT ![p] = "done"]
  /\ UNCHANGED <<cacheVars, board, choice, lister, events, podQueue, worker, nodeHandler>>

\* The pod was deleted before it was bound; the failed call was the UPDATE, and
\* the pod forgotten the one without the annotation, or it was the BIND.
BindFails(p) ==
  /\ bind[p] = "assumed" /\ api[p] = "gone"
  /\ \E a \in {NoBoard, board[p]} : ForgetPod(p, Home, a)
  /\ bind' = [bind EXCEPT ![p] = "done"]
  /\ UNCHANGED <<api, board, choice, informerVars, podQueue, worker, nodeHandler>>

\* A pod ends or is deleted; one that is not bound is gone at once.
PodEnds(p) ==
  /\ \/ api[p] = "bound" /\ Moves(p, "completed")
     \/ api[p] \in {"pending", "annotated", "completed"} /\ Moves(p, "gone")
  /\ UNCHANGED <<cacheVars, board, choice, bind, lister, events, podQueue, worker, nodeHandler>>

-----------------------------------------------------------------------------
(***************************************************************************)
(* The informer.                                                           *)
(***************************************************************************)
Notification(p, old, new) == [pod |-> p, old |-> old, new |-> new, node |-> NodeOf(old),
                              board |-> BoardOf(p, old)]

ListPods ==
  /\ ~Listed
  /\ lister' = api
  /\ \E order \in SetToSeqs({p \in Pod : api[p] # "gone"}) :
       events' = [i \in DOMAIN order |-> Notification(order[i], "none", api[order[i]])]
  /\ UNCHANGED <<cacheVars, apiVars, watch, podQueue, worker, nodeHandler>>

Watch(p) ==
  /\ watch[p] # <<>>
  /\ \E new \in {Head(watch[p])} \cup (IF Relists THEN {Last(watch[p])} ELSE {}) :
       /\ lister' = [lister EXCEPT ![p] = new]
       /\ events' = Append(events, Notification(p, lister[p], new))
       /\ watch' = [watch EXCEPT ![p] = IF new = Head(@) THEN Tail(@) ELSE <<>>]
  /\ UNCHANGED <<cacheVars, apiVars, podQueue, worker, nodeHandler>>

(***************************************************************************)
(* podQueue: a key that is being processed is queued again when it is done.*)
(***************************************************************************)
\* Mutant: a key that is being processed goes into the queue.
EnqueueAlways(p) ==
  /\ dirty' = dirty \cup {p}
  /\ queue' = IF p \in dirty THEN queue ELSE Append(queue, p)
  /\ UNCHANGED processing

Enqueue(p) ==
  /\ dirty' = dirty \cup {p}
  /\ queue' = IF p \in dirty \cup processing THEN queue ELSE Append(queue, p)
  /\ UNCHANGED processing

\* Mutant: a failed key is put into the queue past the set of dirty ones.
DoneUnmarked(p, again) ==
  /\ processing' = processing \ {p}
  /\ dirty' = dirty
  /\ queue' = IF again \/ p \in dirty THEN Append(queue, p) ELSE queue

\* Done, after AddRateLimited when the sync has failed.
Done(p, again) ==
  /\ processing' = processing \ {p}
  /\ dirty' = dirty \cup (IF again THEN {p} ELSE {})
  /\ queue' = IF p \in dirty' THEN Append(queue, p) ELSE queue

-----------------------------------------------------------------------------
(***************************************************************************)
(* The handlers of the pod informer.                                       *)
(***************************************************************************)
\* Mutant: new pods are treated like updated ones.
addKnownPodToCache(e) ==
  /\ e.old = "none"
  /\ IF e.pod \in podMaps THEN Enqueue(e.pod) ELSE UNCHANGED podQueue
  /\ UNCHANGED cacheVars

addPodToCache(e) == e.old = "none" /\ Enqueue(e.pod) /\ UNCHANGED cacheVars

\* Mutant: only the pods that Bind has assumed are known.
updateAssumedInCache(e) ==
  /\ e.old # "none" /\ e.new # "gone"
  /\ IF e.pod \in assumePods /\ e.new = "completed" THEN Enqueue(e.pod) ELSE UNCHANGED podQueue
  /\ UNCHANGED cacheVars

updatePodInCache(e) ==
  /\ e.old # "none" /\ e.new # "gone"
  /\ IF e.pod \in podMaps /\ e.new = "completed" THEN Enqueue(e.pod) ELSE UNCHANGED podQueue
  /\ UNCHANGED cacheVars

deletePodFromCache(e) ==
  /\ e.old # "none" /\ e.new = "gone"
  /\ DeletePod(e.pod, e.node, e.board)
  /\ UNCHANGED podQueue

Syncing(p) == \E w \in Worker : worker[w].pod = p

HandlePodEvent ==
  /\ events # <<>>
  /\ LET e == Head(events) IN
     /\ "sync" \in Overlaps \/ ~Syncing(e.pod)
     /\ "node" \in Overlaps \/ nodeHandler.pc # "listed"
     /\ addPodToCache(e) \/ updatePodInCache(e) \/ deletePodFromCache(e)
  /\ events' = Tail(events)
  /\ UNCHANGED <<apiVars, watch, lister, worker, nodeHandler>>

getActivePodInNode ==
  [p \in {q \in Pod : lister[q] = "bound"} |-> board[p]]

\* addNodeToCache lists the pods first and takes the cache's lock afterwards.
ListForNode ==
  /\ nodeHandler.pc = "todo"
  /\ nodeHandler' = [pc |-> "listed", pods |-> getActivePodInNode]
  /\ UNCHANGED <<cacheVars, apiVars, informerVars, podQueue, worker>>

addNodeToCache ==
  /\ nodeHandler.pc = "listed"
  /\ AddNode(Home, Capacity, nodeHandler.pods)
  /\ nodeHandler' = [Free EXCEPT !.pc = "done"]
  /\ UNCHANGED <<apiVars, informerVars, podQueue, worker>>

-----------------------------------------------------------------------------
(***************************************************************************)
(* The workers: processNextWorkItem, syncPod, assignPod.                   *)
(***************************************************************************)
At(w, pc) == worker[w].run.pc = pc
Run(w, pc) == worker' = [worker EXCEPT ![w].run = [Free EXCEPT !.pc = pc]]
Finish(w, again) ==
  /\ worker' = [worker EXCEPT ![w] = [pod |-> NoBoard, run |-> Free]]
  /\ Done(worker[w].pod, again)

Get(w) ==
  /\ At(w, "free") /\ queue # <<>> /\ Listed /\ NodeReady
  /\ worker' = [worker EXCEPT ![w] = [pod |-> Head(queue), run |-> [Free EXCEPT !.pc = "sync"]]]
  /\ queue' = Tail(queue)
  /\ processing' = processing \cup {Head(queue)}
  /\ dirty' = dirty \ {Head(queue)}
  /\ UNCHANGED <<cacheVars, apiVars, informerVars, nodeHandler>>

\* Mutant: a pod that is not bound is released.
syncPodReleasesUnbound(w) ==
  LET stage == lister[worker[w].pod] IN
  /\ At(w, "sync")
  /\ \/ stage \in {"completed", "annotated"} /\ Run(w, "release") /\ UNCHANGED podQueue
     \/ stage = "bound" /\ Run(w, "assign") /\ UNCHANGED podQueue
     \/ stage \in {"gone", "pending"} /\ Finish(w, FALSE)
  /\ UNCHANGED <<cacheVars, apiVars, informerVars, nodeHandler>>

\* The pod is read from the lister; what is done with it comes later.
syncPod(w) ==
  LET stage == lister[worker[w].pod] IN
  /\ At(w, "sync")
  /\ \/ stage = "completed" /\ Run(w, "release") /\ UNCHANGED podQueue
     \/ stage = "bound" /\ Run(w, "assign") /\ UNCHANGED podQueue
     \/ stage \in {"gone", "pending", "annotated"} /\ Finish(w, FALSE)
  /\ UNCHANGED <<cacheVars, apiVars, informerVars, nodeHandler>>

\* The error of releasePod is only logged.
releasePod(w) ==
  /\ At(w, "release")
  /\ DeletePod(worker[w].pod, Home, board[worker[w].pod])
  /\ Finish(w, FALSE)
  /\ UNCHANGED <<apiVars, informerVars, nodeHandler>>

assignPod(w) ==
  /\ At(w, "assign")
  /\ Run(w, IF Cached(Home) THEN "add" ELSE "list")
  /\ UNCHANGED <<cacheVars, apiVars, informerVars, podQueue, nodeHandler>>

AssignList(w) ==
  /\ At(w, "list")
  /\ \/ worker' = [worker EXCEPT ![w].run = [pc |-> "addNode", pods |-> getActivePodInNode]]
     \/ "get" \in Overlaps /\ Run(w, "add")
  /\ UNCHANGED <<cacheVars, apiVars, informerVars, podQueue, nodeHandler>>

AssignNode(w) ==
  /\ At(w, "addNode")
  /\ AddNode(Home, Capacity, worker[w].run.pods)
  /\ Run(w, "add")
  /\ UNCHANGED <<apiVars, informerVars, podQueue, nodeHandler>>

AssignAdd(w) ==
  LET p == worker[w].pod IN
  /\ At(w, "add")
  /\ AddPod(p, Home, board[p])
  /\ Finish(w, AddPodErr(p, Home, board[p]))
  /\ UNCHANGED <<apiVars, informerVars, nodeHandler>>

WorkerStep(w) ==
  \/ Get(w) \/ syncPod(w) \/ releasePod(w) \/ assignPod(w)
  \/ AssignList(w) \/ AssignNode(w) \/ AssignAdd(w)

InformerStep == ListPods \/ (\E p \in Pod : Watch(p))
NodeStep == ListForNode \/ addNodeToCache

ControllerNext ==
  \/ \E p \in Pod :
       \/ BindUpdate(p) \/ BindBind(p) \/ BindFails(p) \/ PodEnds(p)
       \/ BindAssume(p) \/ \E b \in Board : BindChoose(p, b)
  \/ InformerStep \/ HandlePodEvent \/ NodeStep
  \/ \E w \in Worker : WorkerStep(w)

ControllerSpec ==
  /\ Init /\ [][ControllerNext]_vars
  /\ WF_vars(InformerStep) /\ WF_vars(HandlePodEvent) /\ WF_vars(NodeStep)
  /\ \A w \in Worker : WF_vars(WorkerStep(w))

-----------------------------------------------------------------------------
OnLedger(p) == Cached(Home) /\ p \in DOMAIN nodeCache[Home].Pods

ControllerTypeOK ==
  /\ TypeOK
  /\ api \in [Pod -> Stages]
  /\ board \in [Pod -> Board \cup {NoBoard}]
  /\ choice \in [Pod -> Board \cup {NoBoard}]
  /\ bind \in [Pod -> {"no", "assumed", "done"}]
  /\ lister \in [Pod -> Stages \cup {"unlisted"}]
  /\ dirty \subseteq Pod /\ processing \subseteq Pod /\ ToSet(queue) \subseteq dirty

(***************************************************************************)
(* The queue is there to make sure that the same pod is never processed in *)
(* two workers at once (controller.go:43-46, and syncPod relies on it), a  *)
(* pod that is queued again while it is processed and one whose sync       *)
(* failed included.                                                        *)
(***************************************************************************)
OneWorkerPerPod ==
  \A v, w \in Worker :
    v # w /\ ~At(v, "free") /\ ~At(w, "free") => worker[v].pod # worker[w].pod

\* AddNode replaces the ledger by one of the pods that were listed before.
Rebuilt ==
  \/ nodeHandler.pc = "listed" /\ nodeHandler'.pc = "done"
  \/ \E w \in Worker : At(w, "addNode") /\ worker'[w] # worker[w]

(***************************************************************************)
(* Handlers and workers act on versions of a pod that are no longer        *)
(* current.  None of them takes a running pod off the ledger of its node   *)
(* (controller.go:167-198, 295-321), and so orins in use are not offered   *)
(* because of a stale read.  AddNode is the exception: it drops the pods   *)
(* that got onto the ledger after its caller had listed (README.md).       *)
(***************************************************************************)
RunningStaysCharged ==
  [][\A p \in Pod :
       OnLedger(p) /\ api[p] = "bound" /\ api'[p] = "bound" /\ ~Rebuilt => OnLedger(p)']_vars

(***************************************************************************)
(* After a start of the scheduler every bound pod gets known to the cache  *)
(* and stays known (controller.go:421-449): it was bound by an earlier     *)
(* process and is found by the LIST, or Bind has assumed it.  Without this *)
(* its completion is never noticed (controller.go:268).                    *)
(***************************************************************************)
BoundBecomesKnown ==
  <>[](\A p \in Pod : api[p] = "bound" => p \in podMaps)

(***************************************************************************)
(* The orins of a pod that has completed come back and stay free           *)
(* (controller.go:268-283, 295-321), when no handler is called for the pod *)
(* in the middle of its sync and the watch shows every version of it.      *)
(***************************************************************************)
CompletedIsReleased ==
  \A p \in Pod : api[p] = "completed" ~> [](~OnLedger(p))

(***************************************************************************)
(* The calls that handlers, workers and Bind make on the cache are calls   *)
(* of ScheduleCache, with arguments that keep Consistent: this module      *)
(* implements its Spec (ControllerLedgerProofs, for any number of boards). *)
(***************************************************************************)
KeepsCacheContract == Spec
=============================================================================
