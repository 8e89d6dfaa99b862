---------------------------- MODULE ScheduleCache ----------------------------
(***************************************************************************)
(* scheduleCache (src/pkg/scheduler/manager/cache.go): the node ledgers    *)
(* and the pods the scheduler has seen.  One action per method of the      *)
(* Cache interface; each runs under the cache's lock and is one step.  The *)
(* callers (Bind, the informer handlers, the workers) are an environment   *)
(* that calls any method with any argument; what it may not do is in       *)
(* Consistent.  The actions themselves are not guarded, so that the        *)
(* modules of the callers can use them and be checked to keep Consistent.  *)
(***************************************************************************)
EXTENDS NodeInfo

CONSTANTS Node,     \* names of the nodes
          NoNode,   \* spec.nodeName of a pod that is not bound
          Totals    \* the capacities a node may report

ASSUME NodeAssumption == NoNode \notin Node
ASSUME TotalsAssumption == Totals \subseteq BoardDetails

VARIABLES nodeCache,     \* node infos by node name
          podMaps,       \* UIDs of the pods in the cache
          assumePods,    \* UIDs of the pods that Bind has assumed
          releasedPod    \* UIDs of the pods that were in the cache and left it

cacheVars == <<nodeCache, podMaps, assumePods, releasedPod>>

TypeOK ==
  /\ DOMAIN nodeCache \subseteq Node
  /\ nodeCache \in [DOMAIN nodeCache -> NodeInfos]
  /\ podMaps \subseteq Pod
  /\ assumePods \subseteq Pod
  /\ releasedPod \subseteq Pod

CacheInit ==
  /\ nodeCache = [n \in {} |-> {}]
  /\ podMaps = {}
  /\ assumePods = {}
  /\ releasedPod = {}

Cached(n) == n \in DOMAIN nodeCache

SetNode(n, ni) ==
  nodeCache' = [m \in DOMAIN nodeCache \cup {n} |-> IF m = n THEN ni ELSE nodeCache[m]]

-----------------------------------------------------------------------------
\* The early returns that AddPod and DeletePod share.
Ignored(n, a) == n = NoNode \/ a = NoBoard \/ ~Cached(n)

AddPodErr(p, n, a) ==
  ~Ignored(n, a) /\ p \notin podMaps /\ addPodErr(nodeCache[n], p, a)

AddPod(p, n, a) ==
  /\ UNCHANGED <<assumePods, releasedPod>>
  /\ IF Ignored(n, a) \/ p \in podMaps
     THEN UNCHANGED <<nodeCache, podMaps>>
     ELSE /\ SetNode(n, addPod(nodeCache[n], p, a))
          /\ podMaps' = IF AddPodErr(p, n, a) THEN podMaps ELSE podMaps \cup {p}

DeletePodErr(p, n, a) == ~Ignored(n, a) /\ deletePodErr(nodeCache[n], p, a)

DeletePod(p, n, a) ==
  /\ UNCHANGED assumePods
  /\ IF Ignored(n, a) \/ DeletePodErr(p, n, a)
     THEN UNCHANGED <<nodeCache, podMaps, releasedPod>>
     ELSE /\ SetNode(n, deletePod(nodeCache[n], p, a))
          /\ podMaps' = podMaps \ {p}
          /\ releasedPod' = releasedPod \cup ({p} \cap podMaps)

AssumePodErr(p, n, a) ==
  ~Cached(n) \/ p \in podMaps \/ addPodErr(nodeCache[n], p, a)

\* Mutant: the pod is recorded as assumed only.
AssumePodUnknown(p, n, a) ==
  /\ UNCHANGED <<podMaps, releasedPod>>
  /\ IF AssumePodErr(p, n, a)
     THEN UNCHANGED <<nodeCache, assumePods>>
     ELSE SetNode(n, addPod(nodeCache[n], p, a)) /\ assumePods' = assumePods \cup {p}

AssumePod(p, n, a) ==
  /\ UNCHANGED releasedPod
  /\ IF ~Cached(n) \/ p \in podMaps
     THEN UNCHANGED nodeCache
     ELSE SetNode(n, addPod(nodeCache[n], p, a))
  /\ IF AssumePodErr(p, n, a)
     THEN UNCHANGED <<podMaps, assumePods>>
     ELSE podMaps' = podMaps \cup {p} /\ assumePods' = assumePods \cup {p}

\* Mutant: the pod is also taken out of podMaps and assumePods.
ForgetPodClears(p, n, a) ==
  /\ UNCHANGED releasedPod
  /\ IF ~Cached(n) \/ p \notin podMaps
     THEN UNCHANGED <<nodeCache, podMaps, assumePods>>
     ELSE /\ SetNode(n, deletePod(nodeCache[n], p, a))
          /\ podMaps' = podMaps \ {p}
          /\ assumePods' = assumePods \ {p}

\* The pod stays in podMaps and in assumePods: only its charge is undone.
ForgetPod(p, n, a) ==
  /\ UNCHANGED <<podMaps, assumePods, releasedPod>>
  /\ IF ~Cached(n) \/ p \notin podMaps
     THEN UNCHANGED nodeCache
     ELSE SetNode(n, deletePod(nodeCache[n], p, a))

\* podMaps is not touched when a node info is replaced or deleted.
AddNode(n, total, pods) ==
  /\ \E ni \in NewNodeInfo(total, pods) : SetNode(n, ni)
  /\ UNCHANGED <<podMaps, assumePods, releasedPod>>

\* Mutant: the pods of the old node info are copied, too.
UpdatedNodeInfoOldPods(newNi, oldNi) ==
  [Pods |-> oldNi.Pods,
   Allocatable |-> IF Covers(newNi.Total, oldNi.Requested)
                   THEN DifferenceFromSuperset(newNi.Total, oldNi.Requested)
                   ELSE NewBoardDetails,
   Requested |-> oldNi.Requested,
   Total |-> newNi.Total]

\* Both node infos are built from the pods of the lister; the one in the cache
\* is replaced without being looked at.
UpdatedNodeInfo(newNi, oldNi) ==
  [Pods |-> newNi.Pods,
   Allocatable |-> IF Covers(newNi.Total, oldNi.Requested)
                   THEN DifferenceFromSuperset(newNi.Total, oldNi.Requested)
                   ELSE NewBoardDetails,
   Requested |-> oldNi.Requested,
   Total |-> newNi.Total]

UpdateNode(n, oldTotal, newTotal, pods) ==
  /\ UNCHANGED <<podMaps, assumePods, releasedPod>>
  /\ IF Equal(oldTotal, newTotal)
     THEN UNCHANGED nodeCache
     ELSE \E newNi \in NewNodeInfo(newTotal, pods), oldNi \in NewNodeInfo(oldTotal, pods) :
            SetNode(n, UpdatedNodeInfo(newNi, oldNi))

\* A node that is not in the cache is an error and changes nothing.
DeleteNode(n) ==
  /\ nodeCache' = [m \in DOMAIN nodeCache \ {n} |-> nodeCache[m]]
  /\ UNCHANGED <<podMaps, assumePods, releasedPod>>

-----------------------------------------------------------------------------
(***************************************************************************)
(* What the callers keep to: the annotation of a pod that a node info has  *)
(* stored does not change while it is stored.  Controller implements Spec, *)
(* and so keeps to it (ControllerLedgerProofs); BindProtocol does when no  *)
(* pod is requested again once it is bound, has two requests at a time, or *)
(* has an annotation of an earlier process (BindPlacementProofs).          *)
(***************************************************************************)
Consistent(p, n, a) ==
  a \in Board /\ Cached(n) /\ p \in DOMAIN nodeCache[n].Pods
    => a = nodeCache[n].Pods[p]

PodNext ==
  \E p \in Pod, n \in Node \cup {NoNode}, a \in Annotation :
    /\ Consistent(p, n, a)
    /\ \/ AddPod(p, n, a)
       \/ DeletePod(p, n, a)
       \/ AssumePod(p, n, a)
       \/ ForgetPod(p, n, a)

\* getActivePodInNode lists only pods that carry the annotation.
ListedPods == PodsWith(Board \cup {BadBoard})

NodeNext ==
  \E n \in Node :
    \/ \E total \in Totals, pods \in ListedPods : AddNode(n, total, pods)
    \/ \E oldTotal, newTotal \in Totals, pods \in ListedPods :
         UpdateNode(n, oldTotal, newTotal, pods)
    \/ DeleteNode(n)

Next == PodNext \/ NodeNext

Spec == CacheInit /\ [][Next]_cacheVars

-----------------------------------------------------------------------------
(***************************************************************************)
(* deletePod (cache.go:109) leaves open whether request plus allocatable   *)
(* is equal to total.  It is, on every ledger whose charges the node can   *)
(* cover, after any sequence of calls: nothing is handed out twice by the  *)
(* ledger itself and nothing is lost from it.                              *)
(***************************************************************************)
Accounting ==
  \A n \in DOMAIN nodeCache :
    LET ni == nodeCache[n] IN
    Healthy(ni) => ni.Allocatable = DifferenceFromSuperset(ni.Total, ni.Requested)

(***************************************************************************)
(* The allocator is never offered an orin the node does not report, even   *)
(* on a ledger left behind by a failed addPod or by an UpdateNode that     *)
(* shrank the node under its pods (cache.go:60, cache.go:261), and after   *)
(* any number of pods are deleted from such a ledger.                      *)
(***************************************************************************)
OffersOnlyReported ==
  \A n \in DOMAIN nodeCache :
    Covers(nodeCache[n].Total, nodeCache[n].Allocatable)

Reopened(n) ==
  /\ ~Healthy(nodeCache[n])
  /\ \/ n \notin DOMAIN nodeCache'
     \/ Healthy(nodeCache'[n])
     \/ ~(DOMAIN nodeCache'[n].Pods \subseteq DOMAIN nodeCache[n].Pods)

(***************************************************************************)
(* addPod charges before it checks and does not undo the charge            *)
(* (cache.go:55-63).  A ledger that failed the check once stays closed:    *)
(* no call about a pod repairs it and none stores a pod in it any more,    *)
(* until AddNode, UpdateNode or DeleteNode replaces or drops it.           *)
(***************************************************************************)
ClosedLedgerStaysClosed ==
  [][(\E n \in DOMAIN nodeCache : Reopened(n)) => ~PodNext]_cacheVars
=============================================================================
