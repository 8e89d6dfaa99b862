---------------------------- MODULE BindProtocol ----------------------------
(***************************************************************************)
(* manager.Bind (src/pkg/scheduler/manager/manager.go:143-204): concurrent *)
(* requests of kube-scheduler to bind pods, each handled in a goroutine of *)
(* its own against the cache of ScheduleCache and the API server.          *)
(*                                                                         *)
(* A handler takes one step per call it makes: GET the pod, choose a       *)
(* board from the ledger (without the cache's lock), AssumePod, UPDATE the *)
(* pod with the annotation, and after at most Attempts rounds of these the *)
(* BIND call; ForgetPod and the removal of the annotation on the way back. *)
(* The API server (external) checks resource versions on UPDATE and that   *)
(* the pod is not bound yet on BIND; a call may fail, and its reply may be *)
(* lost after it took effect.  The informers appear by the calls their     *)
(* handlers make, in any order and with pods from a lister that lags;      *)
(* module Controller models the handlers themselves.                       *)
(***************************************************************************)
EXTENDS ScheduleCache, Allocator, Naturals

CONSTANTS Binder,          \* goroutines that can handle a Bind request
          NoPod,
          Current,         \* the *NodeInfo a handler got is the one in the cache
          Attempts,        \* rounds of retry.Do, 3 in the code
          MaxCalls,        \* bound: Bind requests per pod
          MaxNodeUpdates,  \* bound: changes of a node's capacity
          Faults,          \* API calls that may fail or lose their reply
          Requests,        \* requests that may come besides the orderly ones, see below
          Leftover,        \* annotations an earlier process may have left on a pod
          Settled          \* TRUE: capacities change only between Bind requests
                           \* and with a lister that has caught up

ASSUME BinderAssumption ==
  NoPod \notin Pod /\ BoardIDNotFount = NoBoard /\ Current \notin BoardDetails
ASSUME AttemptsAssumption == Attempts \in Nat \ {0}
ASSUME BoundsAssumption == MaxCalls \in Nat /\ MaxNodeUpdates \in Nat
ASSUME FaultAssumption ==
  Faults \subseteq {"get", "update", "updateReply", "bind", "bindReply"}
ASSUME RequestsAssumption == Requests \subseteq {"bound", "pod", "node"}
(***************************************************************************)
(* bound: a request for a pod that is bound already, as when kube-scheduler*)
(*        has given up on a request that succeeded;                        *)
(* pod:   one for a pod that another request is at work on;                *)
(* node:  one for a node that another request is at work on.               *)
(***************************************************************************)
ASSUME LeftoverAssumption == Leftover \subseteq Annotation
ASSUME PlaceAssumption == NoNode \notin Node \X Board

VARIABLES api,        \* the pods of the API server
          shown,      \* of each bound pod, the versions the lister may show
          binder,     \* the handlers; ni is Current, or the Allocatable of the
                      \* *NodeInfo it got when that was replaced in the cache
          calls,      \* Bind requests made per pod, at most MaxCalls
          capacity,   \* the capacity each node reports
          updates     \* capacity changes so far, at most MaxNodeUpdates

podVars == <<api, shown>>
envVars == <<calls, capacity, updates>>
vars == <<cacheVars, podVars, binder, envVars>>

Idle == [pc |-> "idle", pod |-> NoPod, node |-> NoNode, ni |-> Current, attempt |-> 0,
         seen |-> [board |-> NoBoard, rv |-> 0], board |-> NoBoard]

Init ==
  /\ CacheInit
  /\ api \in [Pod -> [st : {"live"}, node : {NoNode}, board : Leftover, rv : {0}]]
  /\ shown = [p \in Pod |-> {}]
  /\ binder = [t \in Binder |-> Idle]
  /\ calls = [p \in Pod |-> 0]
  /\ capacity \in [Node -> Totals]
  /\ updates = 0

\* A pod is live, then completed (from its deletion timestamp on, or by its
\* phase), then gone, and then its deletion has been handled.
Live(p) == api[p].st = "live"
Exists(p) == api[p].st \in {"live", "completed"}
Bound(p) == api[p].node # NoNode

\* The handler of t goes on with its record changed to b.
Continue(t, b) == binder' = [binder EXCEPT ![t] = b]
At(t, pc) == binder[t].pc = pc
To(t, pc) == Continue(t, [binder[t] EXCEPT !.pc = pc])

\* Mutants: one round too many, and rounds that are not counted.
RetryOnceMore(t) ==
  Continue(t, IF binder[t].attempt <= Attempts
              THEN [binder[t] EXCEPT !.pc = "get", !.attempt = @ + 1]
              ELSE Idle)
RetryUncounted(t) == To(t, "get")

\* retry.Do runs bindPod again until it has been tried Attempts times.
Retry(t) ==
  Continue(t, IF binder[t].attempt < Attempts
              THEN [binder[t] EXCEPT !.pc = "get", !.attempt = @ + 1]
              ELSE Idle)

Fault(f) == f \in Faults

-----------------------------------------------------------------------------
Busy(t) == ~At(t, "idle")

\* The requests that may come.
Asked(p, n) ==
  /\ "bound" \in Requests \/ ~Bound(p)
  /\ "pod" \in Requests \/ \A u \in Binder : Busy(u) => binder[u].pod # p
  /\ "node" \in Requests \/ \A u \in Binder : Busy(u) => binder[u].node # n

Start(t, p, n) ==
  /\ At(t, "idle") /\ Asked(p, n) /\ calls[p] < MaxCalls
  /\ calls' = [calls EXCEPT ![p] = @ + 1]
  /\ IF Cached(n)
     THEN Continue(t, [Idle EXCEPT !.pc = "get", !.pod = p, !.node = n, !.attempt = 1])
     ELSE UNCHANGED binder
  /\ UNCHANGED <<cacheVars, podVars, capacity, updates>>

GetPod(t) ==
  LET b == binder[t] IN
  /\ At(t, "get")
  /\ \/ /\ Exists(b.pod)
        /\ Continue(t, [b EXCEPT !.pc = "allocate",
                                 !.seen = [board |-> api[b.pod].board, rv |-> api[b.pod].rv]])
     \/ /\ ~Exists(b.pod) \/ Fault("get")
        /\ Retry(t)
  /\ UNCHANGED <<cacheVars, podVars, envVars>>

Allocatable(t) ==
  IF binder[t].ni = Current THEN nodeCache[binder[t].node].Allocatable ELSE binder[t].ni

AllocateBoard(t) ==
  /\ At(t, "allocate")
  /\ \E board \in Allocate(Allocatable(t), Req[binder[t].pod]) :
       IF board = BoardIDNotFount
       THEN Retry(t)
       ELSE Continue(t, [binder[t] EXCEPT !.pc = "assume", !.board = board])
  /\ UNCHANGED <<cacheVars, podVars, envVars>>

Assume(t) ==
  LET b == binder[t] IN
  /\ At(t, "assume")
  /\ AssumePod(b.pod, b.node, b.board)
  /\ IF AssumePodErr(b.pod, b.node, b.board) THEN Retry(t) ELSE To(t, "update")
  /\ UNCHANGED <<podVars, envVars>>

\* The API server has a new version of p.
VersionOf(pod) == [st |-> pod.st, board |-> pod.board]
Write(p, pod) ==
  /\ api' = [api EXCEPT ![p] = pod]
  /\ shown' = IF pod.node = NoNode THEN shown
              ELSE [shown EXCEPT ![p] = @ \cup {VersionOf(pod)}]

\* Mutant: the resource version is not checked, as if the pod was read again.
UpdatableUnchecked(p, rv) == Exists(p)

\* An UPDATE with the resource version rv.  One that changes nothing is
\* accepted and does not make a new version.
Updatable(p, rv) == Exists(p) /\ api[p].rv = rv
UpdatePod(p, board) ==
  Write(p, [api[p] EXCEPT !.board = board, !.rv = IF api[p].board = board THEN @ ELSE @ + 1])

\* Mutant: the annotation is of a board that is chosen anew.
UpdateRechooses(t) ==
  LET b == binder[t] IN
  /\ At(t, "update")
  /\ \E board \in Allocate(Allocatable(t), Req[b.pod]) \ {BoardIDNotFount} : UpdatePod(b.pod, board)
  /\ To(t, "bind")
  /\ UNCHANGED <<cacheVars, envVars>>

Update(t) ==
  LET b == binder[t] IN
  /\ At(t, "update")
  /\ \/ /\ Updatable(b.pod, b.seen.rv)
        /\ UpdatePod(b.pod, b.board)
        /\ To(t, "bind") \/ (Fault("updateReply") /\ To(t, "forgetUpdate"))
     \/ /\ ~Updatable(b.pod, b.seen.rv) \/ Fault("update")
        /\ To(t, "forgetUpdate")
        /\ UNCHANGED podVars
  /\ UNCHANGED <<cacheVars, envVars>>

\* ForgetPod is given the pod as it was read, not the one with the annotation.
ForgetUpdate(t) ==
  LET b == binder[t] IN
  /\ At(t, "forgetUpdate")
  /\ ForgetPod(b.pod, b.node, b.seen.board)
  /\ Retry(t)
  /\ UNCHANGED <<podVars, envVars>>

BindPod(t) ==
  LET b == binder[t]
      free == Live(b.pod) /\ ~Bound(b.pod)
  IN
  /\ At(t, "bind")
  /\ \/ /\ free
        /\ Write(b.pod, [api[b.pod] EXCEPT !.node = b.node, !.rv = @ + 1])
        /\ Continue(t, Idle) \/ (Fault("bindReply") /\ To(t, "forgetBind"))
     \/ /\ ~free \/ Fault("bind")
        /\ To(t, "forgetBind")
        /\ UNCHANGED podVars
  /\ UNCHANGED <<cacheVars, envVars>>

ForgetBind(t) ==
  LET b == binder[t] IN
  /\ At(t, "forgetBind")
  /\ ForgetPod(b.pod, b.node, b.board)
  /\ To(t, "recover")
  /\ UNCHANGED <<podVars, envVars>>

\* newPod still has the resource version read by GET.
Recover(t) ==
  LET b == binder[t] IN
  /\ At(t, "recover")
  /\ \/ Updatable(b.pod, b.seen.rv) /\ UpdatePod(b.pod, NoBoard)
     \/ (~Updatable(b.pod, b.seen.rv) \/ Fault("update")) /\ UNCHANGED podVars
  /\ Continue(t, Idle)
  /\ UNCHANGED <<cacheVars, envVars>>

BinderStep(t) ==
  \/ GetPod(t) \/ AllocateBoard(t) \/ Assume(t) \/ Update(t) \/ ForgetUpdate(t)
  \/ BindPod(t) \/ ForgetBind(t) \/ Recover(t)

-----------------------------------------------------------------------------
\* The handlers that hold the node info of n keep the one that is replaced.
Detach(n) ==
  binder' = [t \in Binder |->
    IF binder[t].node = n /\ binder[t].ni = Current
    THEN [binder[t] EXCEPT !.ni = nodeCache[n].Allocatable] ELSE binder[t]]

\* The versions of p in which it is bound and not completed, and the pods that
\* the lister may show on n, with a board that it may show.
Active(p) == {v \in shown[p] : v.st = "live"}
BoundTo(n) == {p \in Pod : api[p].node = n /\ Active(p) # {}}

Listed(n) ==
  IF Settled THEN {{p \in BoundTo(n) : Live(p)}} ELSE SUBSET BoundTo(n)
BoardsOf(S) == [p \in S |-> (CHOOSE v \in Active(p) : TRUE).board]

Quiet == ~Settled \/ \A t \in Binder : At(t, "idle")

NodeAdded(n) ==
  /\ ~Cached(n)
  /\ \E S \in Listed(n) : AddNode(n, capacity[n], BoardsOf(S))
  /\ UNCHANGED <<podVars, binder, envVars>>

\* The device plugin reports other boards or orins (device offline, or back).
NodeUpdated(n, total) ==
  /\ Cached(n) /\ Quiet
  /\ updates < MaxNodeUpdates /\ updates' = updates + 1
  /\ capacity' = [capacity EXCEPT ![n] = total]
  /\ \E S \in Listed(n) : UpdateNode(n, capacity[n], total, BoardsOf(S))
  /\ IF Equal(capacity[n], total) THEN UNCHANGED binder ELSE Detach(n)
  /\ UNCHANGED <<podVars, calls>>

NodeDeleted(n) ==
  /\ Cached(n) /\ Quiet
  /\ updates < MaxNodeUpdates /\ updates' = updates + 1
  /\ DeleteNode(n)
  /\ Detach(n)
  /\ UNCHANGED <<podVars, calls, capacity>>

\* A worker syncs the pod, which the lister shows bound and not completed.
PodSynced(p) ==
  /\ \E v \in Active(p) : AddPod(p, api[p].node, v.board)
  /\ UNCHANGED <<podVars, binder, envVars>>

\* A worker syncs the pod, which the lister shows completed.  Pods of every stage
\* are queued by add events and a key may wait in the queue, so that the pod need
\* not be known.  From then on the lister shows no older version.
PodReleased(p) ==
  /\ \E v \in shown[p] \ Active(p) : DeletePod(p, api[p].node, v.board)
  /\ shown' = [shown EXCEPT ![p] = @ \ Active(p)]
  /\ UNCHANGED <<api, binder, envVars>>

\* A bound pod succeeds, fails or gets a deletion timestamp.  It can still be
\* read and updated.
PodCompletes(p) ==
  /\ Live(p) /\ Bound(p)
  /\ Write(p, [api[p] EXCEPT !.st = "completed", !.rv = @ + 1])
  /\ UNCHANGED <<cacheVars, binder, envVars>>

\* A pod that is not bound is deleted at once.  (A bound pod that is deleted by
\* force completes and is gone with no step in between.)
PodDeleted(p) ==
  /\ Exists(p) /\ (Bound(p) => ~Live(p))
  /\ api' = [api EXCEPT ![p].st = "gone"]
  /\ UNCHANGED <<cacheVars, shown, binder, envVars>>

\* The informer's delete event, once per pod and after its workers are done.
PodDeletionHandled(p) ==
  /\ api[p].st = "gone"
  /\ DeletePod(p, api[p].node, api[p].board)
  /\ api' = [api EXCEPT ![p].st = "handled"]
  /\ shown' = [shown EXCEPT ![p] = {}]
  /\ UNCHANGED <<binder, envVars>>

BindNext ==
  \/ \E t \in Binder, p \in Pod, n \in Node : Start(t, p, n)
  \/ \E t \in Binder : BinderStep(t)
  \/ \E n \in Node :
       \/ NodeAdded(n) \/ NodeDeleted(n)
       \/ \E total \in Totals : NodeUpdated(n, total)
  \/ \E p \in Pod :
       \/ PodSynced(p) \/ PodReleased(p)
       \/ PodCompletes(p) \/ PodDeleted(p) \/ PodDeletionHandled(p)

BindSpec == Init /\ [][BindNext]_vars /\ \A t \in Binder : WF_vars(BinderStep(t))

-----------------------------------------------------------------------------
\* Past AssumePod and not yet done with the pod.
Committed(t) == binder[t].pc \in {"update", "bind", "forgetBind", "recover"}

ApiPods == [st : {"live", "completed", "gone", "handled"}, node : Node \cup {NoNode},
            board : Annotation, rv : Nat]
Versions == [st : {"live", "completed"}, board : Annotation]

BindTypeOK ==
  /\ TypeOK
  /\ api \in [Pod -> ApiPods] /\ shown \in [Pod -> SUBSET Versions]
  /\ \A t \in Binder :
       /\ binder[t].pc \in {"idle", "get", "allocate", "assume", "update",
                            "forgetUpdate", "bind", "forgetBind", "recover"}
       /\ binder[t].attempt \in 0..Attempts
       /\ Busy(t) => binder[t].pod \in Pod /\ binder[t].node \in Node
       /\ Committed(t) => binder[t].board \in Board
  /\ calls \in [Pod -> 0..MaxCalls]
  /\ capacity \in [Node -> Totals]
  /\ updates \in 0..MaxNodeUpdates

(***************************************************************************)
(* The node agent finds a pod's board in its annotation                    *)
(* (plugin/orin.go:119-167).  The annotation is written before BIND and    *)
(* taken back after a BIND that seems to have failed (manager.go:194-199). *)
(* Whatever calls fail or lose their reply and whoever asks for the pod    *)
(* again, a live bound pod has it, and neither its board nor its node      *)
(* changes while it lives: who gets past AssumePod has read the pod before *)
(* it was bound, and its resource version is out of date.  A completed pod *)
(* is another matter (README.md): it is out of podMaps while GET and       *)
(* UPDATE still succeed, and a second request may change its annotation or *)
(* remove it.                                                              *)
(***************************************************************************)
BoundHasBoard == \A p \in Pod : Live(p) /\ Bound(p) => api[p].board \in Board

BoundStays ==
  [][\A p \in Pod : Bound(p) /\ Live(p)' => /\ api'[p].node = api[p].node
                                            /\ api'[p].board = api[p].board]_vars

(***************************************************************************)
(* Two Bind requests for one pod (kube-scheduler gives up on the first and *)
(* schedules the pod again) never both write to it: AssumePod lets one of  *)
(* them through, and ForgetPod does not reopen it (cache.go:290).          *)
(***************************************************************************)
OneWriterPerPod ==
  \A t, u \in Binder :
    t # u /\ Committed(t) /\ Committed(u) /\ binder[t].pod = binder[u].pod
      => ~Live(binder[t].pod)

(***************************************************************************)
(* The release of a completed pod hangs on KnownPod (controller.go:268): a *)
(* live bound pod is known to the cache, although Bind may have forgotten  *)
(* it after a lost reply and its node may have been rebuilt without it.    *)
(***************************************************************************)
BoundIsKnown == \A p \in Pod : Live(p) /\ Bound(p) => p \in podMaps

(***************************************************************************)
(* No orin is given to two live pods: a Bind that finds no board with the  *)
(* orins free is refused (manager.go:163).  It holds where Bind requests   *)
(* come one at a time, no BIND reply is lost and capacities change between *)
(* requests.  It fails for two concurrent requests: a board is chosen      *)
(* without the cache's lock and addPod does not notice that a charge       *)
(* overlaps another one (cache.go:50-58).                                  *)
(***************************************************************************)
Exclusive ==
  \A p, q \in Pod :
    /\ p # q /\ Live(p) /\ Live(q)
    /\ Bound(p) /\ api[p].node = api[q].node /\ api[p].board = api[q].board
    => Req[p] \cap Req[q] = {}

(***************************************************************************)
(* Seen from its users, Bind (manager.go:143-204) is Placement: a pod is   *)
(* placed when BIND takes effect, in one step, on the board its annotation *)
(* names, and never on orins a live pod has there; whatever fails or is    *)
(* retried, no pod is moved.                                               *)
(***************************************************************************)
Promise == INSTANCE Placement WITH
  NoPlace <- NoNode,
  placed <- [p \in Pod |-> IF Bound(p) THEN <<api[p].node, api[p].board>> ELSE NoNode],
  ended <- {p \in Pod : ~Live(p)}

ImplementsPlacement == Promise!PlacementSpec

(***************************************************************************)
(* Every call that Bind makes on the cache is one of the calls of          *)
(* ScheduleCache, with arguments that keep Consistent: BindSpec implements *)
(* Spec, the cache's.                                                      *)
(***************************************************************************)
KeepsCacheContract == Spec

(***************************************************************************)
(* A Bind request is answered (manager.go:182): the retries are bounded    *)
(* and no step waits for another handler.                                  *)
(***************************************************************************)
BindReturns == \A t \in Binder : Busy(t) ~> At(t, "idle")
=============================================================================
