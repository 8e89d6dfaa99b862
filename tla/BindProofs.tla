------------------------------ MODULE BindProofs ------------------------------
(***************************************************************************)
(* Proofs about Bind, for every number of handlers, pods, nodes, boards    *)
(* and rounds, whatever calls fail or lose their reply, whatever requests  *)
(* come and whatever an earlier process left on the pods.                  *)
(*                                                                         *)
(* Two things keep a second writer away from a live pod: podMaps, from     *)
(* which ForgetPod does not take it, and the resource version of the GET,  *)
(* with which the annotation is written and removed.  A completed pod      *)
(* loses the first when it is released.                                    *)
(***************************************************************************)
EXTENDS BindProtocol, ScheduleCacheProofs

(***************************************************************************)
(* The inductive invariant.                                                *)
(***************************************************************************)
Places == {"idle", "get", "allocate", "assume", "update", "forgetUpdate",
           "bind", "forgetBind", "recover"}

Handlers ==
  [pc : Places, pod : Pod \cup {NoPod}, node : Node \cup {NoNode},
   ni : BoardDetails \cup {Current}, attempt : 0..Attempts,
   seen : [board : Annotation, rv : Nat], board : Board \cup {NoBoard}]

TypeInv ==
  /\ TypeOK
  /\ api \in [Pod -> ApiPods] /\ shown \in [Pod -> SUBSET Versions]
  /\ binder \in [Binder -> Handlers]
  /\ calls \in [Pod -> 0..MaxCalls]
  /\ capacity \in [Node -> Totals]
  /\ updates \in 0..MaxNodeUpdates

\* Past AssumePod: the pod is in podMaps because of this handler.
Assumed(b) == b.pc \in {"update", "forgetUpdate", "bind", "forgetBind", "recover"}

\* What a handler knows of its pod and its node.
HandlerOK(b) ==
  /\ b.pc # "idle" => b.pod \in Pod /\ b.node \in Node /\ (b.ni = Current => Cached(b.node))
  /\ b.pc \notin {"idle", "get", "allocate"} => b.board \in Board
  /\ b.pc \notin {"idle", "get"} => b.seen.rv <= api[b.pod].rv
  /\ b.pc \in {"update", "forgetUpdate", "bind"} /\ Live(b.pod) => ~Bound(b.pod)
  /\ b.pc = "bind" /\ Live(b.pod) => api[b.pod].board = b.board
  /\ b.pc \in {"forgetBind", "recover"} /\ Live(b.pod) /\ Bound(b.pod)
       => b.seen.rv < api[b.pod].rv

\* Only a bound pod completes; the lister may show the current version of a live
\* bound pod, and no completed one of it.
ShownInv ==
  \A p \in Pod :
    /\ api[p].st = "completed" => Bound(p)
    /\ ~Bound(p) => shown[p] = {}
    /\ Live(p) /\ Bound(p) => VersionOf(api[p]) \in shown[p]
    /\ Live(p) => shown[p] = Active(p)

\* The cache knows a pod that may become bound, and one that is bound until the
\* lister shows it completed.
KnownInv ==
  \A p \in Pod :
    \/ Active(p) # {}
    \/ Live(p) /\ \E t \in Binder : Assumed(binder[t]) /\ binder[t].pod = p
    => p \in podMaps

OneAssumed ==
  \A t, u \in Binder :
    t # u /\ Assumed(binder[t]) /\ Assumed(binder[u]) /\ binder[t].pod = binder[u].pod
      => ~Live(binder[t].pod)

BInv ==
  /\ TypeInv /\ ShownInv /\ KnownInv /\ OneAssumed /\ BoundHasBoard
  /\ \A t \in Binder : HandlerOK(binder[t])

-----------------------------------------------------------------------------
(***************************************************************************)
(* The cache keeps its types whatever it is called with, and lets a pod    *)
(* out of podMaps only by DeletePod.                                       *)
(***************************************************************************)

\* deletePod of a board the pod was not stored with, too.
LEMMA DeletePodType ==
  ASSUME NEW ni \in NodeInfos, NEW p \in Pod, NEW a
  PROVE  deletePod(ni, p, a) \in NodeInfos
<1>1. CASE ~(a \in Board /\ ~deletePodErr(ni, p, a))
  BY <1>1 DEF deletePod
<1>2. CASE a \in Board /\ ~deletePodErr(ni, p, a)
  <2> DEFINE nj == Released(ni, p, a)
  <2>1. /\ DOMAIN ni.Pods \subseteq Pod /\ ni.Pods \in [DOMAIN ni.Pods -> Board]
        /\ ni.Allocatable \in BoardDetails /\ ni.Requested \in BoardDetails
        /\ ni.Total \in BoardDetails /\ Req[p] \in SUBSET Orin
    BY NodeInfoType, ReqType
  <2>2. DifferenceFromSuperset(ni.Requested, Claim(a, p)) \in BoardDetails
    BY <2>1, DifferenceType
  <2>3. Add(ni.Allocatable, a, Req[p]) \in BoardDetails
    BY <1>2, <2>1, AddType
  <2>4. Restricted(ni.Pods, DOMAIN ni.Pods \ {p}) \in PodsWith(Board)
    <3> DEFINE f == Restricted(ni.Pods, DOMAIN ni.Pods \ {p})
    <3>1. DOMAIN f \subseteq Pod /\ f \in [DOMAIN f -> Board]
      BY <2>1 DEF Restricted
    <3> HIDE DEF f
    <3> QED
      BY <3>1, PodsType DEF f
  <2>5. nj \in NodeInfos
    BY <2>1, <2>2, <2>3, <2>4 DEF Released, NodeInfos
  <2> QED
    BY <1>2, <2>5 DEF deletePod
<1> QED
  BY <1>1, <1>2

\* addPod, too.
LEMMA AddPodType ==
  ASSUME NEW ni \in NodeInfos, NEW p \in Pod, NEW a
  PROVE  addPod(ni, p, a) \in NodeInfos
<1>1. CASE a \notin Board \/ EvictErr(ni, p, a)
  BY <1>1 DEF addPod, addPodErr
<1>2. CASE a \in Board /\ ~EvictErr(ni, p, a)
  <2> DEFINE base == Evicted(ni, p, a)
             nc == Charged(base, p, a)
             ns == Stored(nc, p, a)
  <2>1. base \in NodeInfos
    BY DeletePodType DEF Evicted
  <2> HIDE DEF base
  <2>2. /\ DOMAIN base.Pods \subseteq Pod /\ base.Pods \in [DOMAIN base.Pods -> Board]
        /\ base.Pods \in PodsWith(Board)
        /\ base.Allocatable \in BoardDetails /\ base.Requested \in BoardDetails
        /\ base.Total \in BoardDetails /\ Req[p] \in SUBSET Orin
    BY <2>1, NodeInfoType, ReqType DEF NodeInfos
  <2>3. Add(base.Requested, a, Req[p]) \in BoardDetails
    BY <1>2, <2>2, AddType
  <2>4. nc \in NodeInfos
    BY <2>2, <2>3 DEF Charged, NodeInfos
  <2> HIDE DEF nc
  <2>5. /\ DOMAIN nc.Pods \subseteq Pod /\ nc.Pods \in [DOMAIN nc.Pods -> Board]
        /\ nc.Requested \in BoardDetails /\ nc.Total \in BoardDetails
    BY <2>4, NodeInfoType
  <2>6. DifferenceFromSuperset(nc.Total, nc.Requested) \in BoardDetails
    BY <2>5, DifferenceType
  <2>7. [q \in DOMAIN nc.Pods \cup {p} |-> IF q = p THEN a ELSE nc.Pods[q]] \in PodsWith(Board)
    <3> DEFINE f == [q \in DOMAIN nc.Pods \cup {p} |-> IF q = p THEN a ELSE nc.Pods[q]]
    <3>1. DOMAIN f \subseteq Pod /\ f \in [DOMAIN f -> Board]
      BY <1>2, <2>5
    <3> HIDE DEF f
    <3> QED
      BY <3>1, PodsType DEF f
  <2>8. ns \in NodeInfos
    BY <2>5, <2>6, <2>7 DEF Stored, NodeInfos
  <2>9. addPod(ni, p, a) = nc \/ addPod(ni, p, a) = ns
    BY <1>2 DEF addPod, Charge, base, nc
  <2> QED
    BY <2>4, <2>8, <2>9
<1> QED
  BY <1>1, <1>2

\* A replaced node info.
LEMMA SetNodeType ==
  ASSUME TypeOK, NEW n \in Node, NEW ni \in NodeInfos, SetNode(n, ni)
  PROVE  /\ DOMAIN nodeCache' = DOMAIN nodeCache \cup {n} /\ DOMAIN nodeCache' \subseteq Node
         /\ nodeCache' \in [DOMAIN nodeCache' -> NodeInfos]
  BY DEF TypeOK, SetNode

\* The calls about a pod.
LEMMA PodCallType ==
  ASSUME TypeOK, NEW p \in Pod, NEW n, NEW a,
         AddPod(p, n, a) \/ DeletePod(p, n, a) \/ AssumePod(p, n, a) \/ ForgetPod(p, n, a)
  PROVE  /\ TypeOK'
         /\ DOMAIN nodeCache' = DOMAIN nodeCache
         /\ podMaps \ {p} \subseteq podMaps'
         /\ ~DeletePod(p, n, a) => podMaps \subseteq podMaps'
<1>1. podMaps' \subseteq Pod /\ assumePods' \subseteq Pod /\ releasedPod' \subseteq Pod
  BY DEF TypeOK, AddPod, DeletePod, AssumePod, ForgetPod
<1>2. podMaps \ {p} \subseteq podMaps' /\ (~DeletePod(p, n, a) => podMaps \subseteq podMaps')
  BY DEF AddPod, DeletePod, AssumePod, ForgetPod
<1>3. CASE UNCHANGED nodeCache
  BY <1>1, <1>2, <1>3 DEF TypeOK
<1>4. ASSUME Cached(n), NEW ni \in NodeInfos, SetNode(n, ni)
      PROVE  TypeOK' /\ DOMAIN nodeCache' = DOMAIN nodeCache
  <2>1. n \in Node /\ DOMAIN nodeCache \cup {n} = DOMAIN nodeCache
    BY <1>4 DEF Cached, TypeOK
  <2> QED
    BY <1>1, <1>4, <2>1, SetNodeType DEF TypeOK
<1>5. CASE /\ Cached(n)
           /\ \/ SetNode(n, addPod(nodeCache[n], p, a))
              \/ SetNode(n, deletePod(nodeCache[n], p, a))
  <2>1. nodeCache[n] \in NodeInfos
    BY <1>5 DEF Cached, TypeOK
  <2> QED
    BY <1>2, <1>4, <1>5, <2>1, AddPodType, DeletePodType
<1>6. \/ UNCHANGED nodeCache
      \/ /\ Cached(n)
         /\ \/ SetNode(n, addPod(nodeCache[n], p, a))
            \/ SetNode(n, deletePod(nodeCache[n], p, a))
  BY DEF AddPod, DeletePod, AssumePod, ForgetPod, Ignored
<1> QED
  BY <1>3, <1>5, <1>6

\* The calls about a node.
LEMMA NodeCallType ==
  ASSUME TypeOK, NEW n \in Node, NEW total \in Totals, NEW newTotal \in Totals,
         NEW pods \in PodsWith(Annotation),
         \/ AddNode(n, total, pods)
         \/ Cached(n) /\ UpdateNode(n, total, newTotal, pods)
         \/ DeleteNode(n)
  PROVE  /\ TypeOK' /\ podMaps' = podMaps
         /\ DOMAIN nodeCache \ {n} \subseteq DOMAIN nodeCache'
         /\ ~DeleteNode(n) => DOMAIN nodeCache \subseteq DOMAIN nodeCache'
<1>1. UNCHANGED <<podMaps, assumePods, releasedPod>>
  BY DEF AddNode, UpdateNode, DeleteNode
<1>2. CASE UNCHANGED nodeCache
  BY <1>1, <1>2 DEF TypeOK
<1>3. ASSUME NEW ni \in NodeInfos, SetNode(n, ni)
      PROVE  TypeOK' /\ DOMAIN nodeCache \subseteq DOMAIN nodeCache'
  BY <1>1, <1>3, SetNodeType DEF TypeOK
<1>4. total \in BoardDetails /\ newTotal \in BoardDetails
  BY TotalsAssumption
<1>5. CASE AddNode(n, total, pods)
  <2>1. PICK ni \in NewNodeInfo(total, pods) : SetNode(n, ni)
    BY <1>5 DEF AddNode
  <2>2. ni \in NodeInfos
    BY <1>4, NewNodeInfoOK DEF LedgerOK
  <2> QED
    BY <1>1, <1>3, <2>1, <2>2
<1>6. CASE UpdateNode(n, total, newTotal, pods) /\ ~UNCHANGED nodeCache
  <2>1. PICK newNi \in NewNodeInfo(newTotal, pods), oldNi \in NewNodeInfo(total, pods) :
          SetNode(n, UpdatedNodeInfo(newNi, oldNi))
    BY <1>6 DEF UpdateNode
  <2>2. UpdatedNodeInfo(newNi, oldNi) \in NodeInfos
    <3>1. LedgerOK(newNi) /\ LedgerOK(oldNi)
      BY <1>4, NewNodeInfoOK
    <3> QED
      BY <3>1, UpdatedNodeInfoOK DEF LedgerOK
  <2> QED
    BY <1>1, <1>3, <2>1, <2>2
<1>7. CASE DeleteNode(n)
  BY <1>1, <1>7 DEF DeleteNode, TypeOK
<1> QED
  BY <1>2, <1>5, <1>6, <1>7

-----------------------------------------------------------------------------
(***************************************************************************)
(* One handler moves.                                                      *)
(***************************************************************************)

\* A handler that has nothing to do, and one that tries again.
LEMMA IdleOK ==
  /\ Idle \in Handlers /\ HandlerOK(Idle) /\ HandlerOK(Idle)'
  /\ Idle.pc = "idle" /\ Idle.ni = Current /\ Idle.node = NoNode
<1>1. NoBoard \in Annotation /\ 0 \in 0..Attempts /\ 0 \in Nat
  BY AttemptsAssumption DEF Annotation
<1>2. Idle \in Handlers /\ Idle.pc = "idle" /\ Idle.ni = Current /\ Idle.node = NoNode
  BY <1>1 DEF Idle, Handlers, Places
<1>3. HandlerOK(Idle)
  BY <1>2 DEF HandlerOK
<1>4. HandlerOK(Idle)'
  BY <1>2 DEF HandlerOK
<1> QED
  BY <1>2, <1>3, <1>4

\* A handler that nobody disturbs: the pod it writes to is written to by no other.
LEMMA Undisturbed ==
  ASSUME NEW b \in Handlers, HandlerOK(b),
         api \in [Pod -> ApiPods], api' \in [Pod -> ApiPods],
         \A p \in Pod : api[p].rv <= api'[p].rv /\ (Live(p)' => Live(p)),
         \A p \in Pod : Assumed(b) /\ b.pod = p /\ Live(p)'
                          => api'[p].node = api[p].node /\ api'[p].board = api[p].board,
         b.pc # "idle" /\ b.ni = Current => b.node \in DOMAIN nodeCache'
  PROVE  HandlerOK(b)'
<1>1. \A p \in Pod : api[p].rv \in Nat /\ api'[p].rv \in Nat
  BY DEF ApiPods
<1>2. b.seen.rv \in Nat
  BY DEF Handlers
<1>3. CASE b.pc = "idle"
  BY <1>3 DEF HandlerOK
<1>4. CASE b.pc # "idle"
  <2> DEFINE p == b.pod
  <2>1. p \in Pod /\ b.node \in Node
    BY <1>4 DEF HandlerOK
  <2>2. api[p].rv <= api'[p].rv /\ api[p].rv \in Nat /\ api'[p].rv \in Nat
    BY <1>1, <2>1
  <2>3. b.pc \notin {"idle", "get"} => b.seen.rv <= api'[p].rv
    BY <1>2, <2>2 DEF HandlerOK
  <2>4. ASSUME b.pc \in {"update", "forgetUpdate", "bind", "forgetBind", "recover"}, Live(p)'
        PROVE  Live(p) /\ api'[p].node = api[p].node /\ api'[p].board = api[p].board
    BY <2>1, <2>4 DEF Assumed
  <2>5. b.pc \in {"update", "forgetUpdate", "bind"} /\ Live(p)' => ~Bound(p)'
    BY <2>4 DEF HandlerOK, Bound
  <2>6. b.pc = "bind" /\ Live(p)' => api'[p].board = b.board
    BY <2>4 DEF HandlerOK
  <2>7. b.pc \in {"forgetBind", "recover"} /\ Live(p)' /\ Bound(p)' => b.seen.rv < api'[p].rv
    <3> SUFFICES ASSUME b.pc \in {"forgetBind", "recover"}, Live(p)', Bound(p)'
                 PROVE  b.seen.rv < api'[p].rv
      OBVIOUS
    <3>1. Live(p) /\ Bound(p)
      BY <2>4 DEF Bound
    <3>2. b.seen.rv < api[p].rv
      BY <3>1 DEF HandlerOK
    <3> QED
      BY <1>2, <2>2, <3>2
  <2> QED
    BY <1>4, <2>1, <2>3, <2>5, <2>6, <2>7 DEF HandlerOK, Cached, podVars
<1> QED
  BY <1>3, <1>4

\* A handler goes on from b to c: the cache gains, and of the pods only the one
\* that it has assumed may change.
LEMMA HandlerMoves ==
  ASSUME BInv, NEW t \in Binder, NEW c \in Handlers, Continue(t, c),
         TypeOK', DOMAIN nodeCache \subseteq DOMAIN nodeCache', podMaps \subseteq podMaps',
         api' \in [Pod -> ApiPods], shown' \in [Pod -> SUBSET Versions], ShownInv',
         \A p \in Pod : api'[p].st = api[p].st /\ api[p].rv <= api'[p].rv,
         \A p \in Pod : api'[p] = api[p] \/ (Assumed(binder[t]) /\ binder[t].pod = p),
         \A p \in Pod : Active(p)' # {} => \/ Active(p) # {}
                                           \/ Live(p) /\ Assumed(binder[t]) /\ binder[t].pod = p,
         Assumed(c) => Assumed(binder[t]) /\ c.pod = binder[t].pod,
         HandlerOK(c)', BoundHasBoard',
         calls' \in [Pod -> 0..MaxCalls], UNCHANGED <<capacity, updates>>
  PROVE  BInv'
<1>1. /\ TypeInv /\ KnownInv /\ OneAssumed
      /\ api \in [Pod -> ApiPods] /\ binder \in [Binder -> Handlers]
      /\ \A u \in Binder : HandlerOK(binder[u])
  BY DEF BInv, TypeInv
<1>2. /\ binder' \in [Binder -> Handlers] /\ binder'[t] = c
      /\ \A u \in Binder \ {t} : binder'[u] = binder[u]
  BY <1>1 DEF Continue
<1>3. TypeInv'
  BY <1>1, <1>2 DEF TypeInv
<1>4. \A u \in Binder : Assumed(binder[u])' => Assumed(binder[u]) /\ binder'[u].pod = binder[u].pod
  BY <1>2 DEF Assumed
<1>5. \A p \in Pod : Live(p)' <=> Live(p)
  BY DEF Live
<1>6. KnownInv'
  <2> SUFFICES ASSUME NEW p \in Pod,
                      \/ Active(p)' # {}
                      \/ Live(p)' /\ \E u \in Binder : Assumed(binder[u])' /\ binder'[u].pod = p
               PROVE  p \in podMaps
    BY DEF KnownInv
  <2>1. CASE Active(p)' # {}
    BY <1>1, <2>1 DEF KnownInv
  <2>2. CASE Live(p)' /\ \E u \in Binder : Assumed(binder[u])' /\ binder'[u].pod = p
    BY <1>1, <1>4, <1>5, <2>2 DEF KnownInv
  <2> QED
    BY <2>1, <2>2
<1>7. OneAssumed'
  <2> SUFFICES ASSUME NEW u \in Binder, NEW v \in Binder, u # v,
                      Assumed(binder[u])', Assumed(binder[v])', binder'[u].pod = binder'[v].pod
               PROVE  ~Live(binder[u].pod)'
    BY DEF OneAssumed
  <2>1. /\ Assumed(binder[u]) /\ Assumed(binder[v])
        /\ binder[u].pod = binder[v].pod /\ binder'[u].pod = binder[u].pod
    BY <1>4
  <2>2. ~Live(binder[u].pod) /\ binder[u].pod \in Pod
    BY <1>1, <2>1 DEF OneAssumed, HandlerOK, Assumed
  <2> QED
    BY <2>1, <2>2 DEF Live
<1>8. ASSUME NEW u \in Binder
      PROVE  HandlerOK(binder[u])'
  <2>1. CASE u = t
    BY <1>2, <2>1
  <2>2. CASE u # t
    <3> DEFINE b == binder[u]
    <3>1. b \in Handlers /\ HandlerOK(b) /\ binder'[u] = b
      BY <1>1, <1>2, <2>2
    <3>2. \A p \in Pod : Assumed(b) /\ b.pod = p /\ Live(p)' => api'[p] = api[p]
      BY <1>1, <1>5, <2>2 DEF OneAssumed
    <3>3. b.pc # "idle" /\ b.ni = Current => b.node \in DOMAIN nodeCache'
      BY <3>1 DEF HandlerOK, Cached, podVars
    <3> HIDE DEF b
    <3>4. \A p \in Pod : api[p].rv <= api'[p].rv /\ (Live(p)' => Live(p))
      BY <1>5
    <3>5. ASSUME NEW d, d = b PROVE HandlerOK(d)'
      BY <1>1, <3>1, <3>2, <3>3, <3>4, <3>5, Undisturbed
    <3> QED
      BY <3>1, <3>5 DEF HandlerOK
  <2> QED
    BY <2>1, <2>2
<1> QED
  BY <1>3, <1>6, <1>7, <1>8 DEF BInv

-----------------------------------------------------------------------------
(***************************************************************************)
(* The calls of a handler.                                                 *)
(***************************************************************************)

\* The record of a handler that is at work.
LEMMA AtWork ==
  ASSUME BInv, NEW t \in Binder, ~At(t, "idle")
  PROVE  /\ binder[t] \in Handlers /\ HandlerOK(binder[t])
         /\ binder[t].pod \in Pod /\ binder[t].node \in Node
         /\ api[binder[t].pod] \in ApiPods
         /\ binder[t].ni = Current => Cached(binder[t].node)
  BY DEF BInv, TypeInv, At, HandlerOK

\* A handler goes on to another place, or to another round.
LEMMA NextPlace ==
  ASSUME NEW b \in Handlers
  PROVE  /\ \A pc \in Places : /\ [b EXCEPT !.pc = pc] \in Handlers
                               /\ [b EXCEPT !.pc = pc].pc = pc
                               /\ [b EXCEPT !.pc = pc].pod = b.pod
                               /\ [b EXCEPT !.pc = pc].node = b.node
                               /\ [b EXCEPT !.pc = pc].ni = b.ni
                               /\ [b EXCEPT !.pc = pc].seen = b.seen
                               /\ [b EXCEPT !.pc = pc].board = b.board
         /\ b.attempt < Attempts =>
              LET c == [b EXCEPT !.pc = "get", !.attempt = @ + 1] IN
              /\ c \in Handlers /\ c.pc = "get"
              /\ c.pod = b.pod /\ c.node = b.node /\ c.ni = b.ni
<1>1. b.attempt \in 0..Attempts /\ Attempts \in Nat
  BY AttemptsAssumption DEF Handlers
<1>2. b.attempt < Attempts => b.attempt + 1 \in 0..Attempts
  BY <1>1
<1> QED
  BY <1>2 DEF Handlers, Places

\* Steps that write nothing to the API server and after which the handler has
\* not assumed a pod that it had not assumed before.
LEMMA MovesOn ==
  ASSUME BInv, NEW t \in Binder, NEW c \in Handlers, Continue(t, c),
         TypeOK', DOMAIN nodeCache \subseteq DOMAIN nodeCache', podMaps \subseteq podMaps',
         UNCHANGED podVars, Assumed(c) => Assumed(binder[t]) /\ c.pod = binder[t].pod,
         HandlerOK(c)', calls' \in [Pod -> 0..MaxCalls], UNCHANGED <<capacity, updates>>
  PROVE  BInv'
<1>1. /\ api \in [Pod -> ApiPods] /\ shown \in [Pod -> SUBSET Versions]
      /\ BoundHasBoard /\ ShownInv /\ api' = api /\ shown' = shown
  BY DEF BInv, TypeInv, podVars
<1>2. BoundHasBoard' /\ \A p \in Pod : api'[p].st = api[p].st /\ api[p].rv <= api'[p].rv
  BY <1>1 DEF BoundHasBoard, Live, Bound, ApiPods
<1>3. ShownInv' /\ \A p \in Pod : Active(p)' = Active(p)
  BY <1>1 DEF ShownInv, Active, Live, Bound
<1> QED
  BY <1>1, <1>2, <1>3, HandlerMoves

\* retry.Do, after a call that failed.
LEMMA RetryKeeps ==
  ASSUME BInv, NEW t \in Binder, ~At(t, "idle"), Retry(t),
         TypeOK', DOMAIN nodeCache \subseteq DOMAIN nodeCache', podMaps \subseteq podMaps',
         UNCHANGED <<podVars, envVars>>
  PROVE  BInv'
<1> DEFINE b == binder[t]
           again == [b EXCEPT !.pc = "get", !.attempt = @ + 1]
<1>1. /\ b \in Handlers /\ b.pod \in Pod /\ b.node \in Node
      /\ b.ni = Current => Cached(b.node)
  BY AtWork
<1>2. calls' \in [Pod -> 0..MaxCalls] /\ UNCHANGED <<capacity, updates>>
  BY DEF BInv, TypeInv, envVars
<1>3. CASE b.attempt < Attempts
  <2> DEFINE c == again
  <2>1. Continue(t, c)
    BY <1>3 DEF Retry
  <2>2. /\ c \in Handlers /\ c.pc = "get"
        /\ c.pod = b.pod /\ c.node = b.node /\ c.ni = b.ni
    BY <1>1, <1>3, NextPlace
  <2> HIDE DEF b, again, c
  <2>3. ASSUME NEW d, d = c PROVE HandlerOK(d)' /\ (Assumed(d) => FALSE)
    BY <1>1, <2>2, <2>3 DEF HandlerOK, Assumed, Cached, podVars
  <2> QED
    BY <1>2, <2>1, <2>2, <2>3, MovesOn
<1>4. CASE ~(b.attempt < Attempts)
  <2>1. Continue(t, Idle)
    BY <1>4 DEF Retry
  <2> QED
    BY <1>2, <2>1, IdleOK, MovesOn DEF Assumed
<1> QED
  BY <1>3, <1>4

\* The GET, and the choice of a board.
LEMMA GetPodKeeps ==
  ASSUME BInv, NEW t \in Binder, GetPod(t)
  PROVE  BInv'
<1> DEFINE b == binder[t]
           c == [b EXCEPT !.pc = "allocate",
                          !.seen = [board |-> api[b.pod].board, rv |-> api[b.pod].rv]]
<1>1. ~At(t, "idle") /\ UNCHANGED <<cacheVars, podVars, envVars>>
  BY DEF GetPod, At
<1>2. /\ b \in Handlers /\ b.pod \in Pod /\ b.node \in Node /\ api[b.pod] \in ApiPods
      /\ b.ni = Current => Cached(b.node)
  BY <1>1, AtWork
<1>3. /\ TypeOK' /\ DOMAIN nodeCache \subseteq DOMAIN nodeCache' /\ podMaps \subseteq podMaps'
      /\ calls' \in [Pod -> 0..MaxCalls] /\ UNCHANGED <<capacity, updates>>
  BY <1>1 DEF BInv, TypeInv, cacheVars, envVars, TypeOK
<1>4. CASE Retry(t)
  BY <1>1, <1>3, <1>4, RetryKeeps
<1>5. CASE Continue(t, c)
  <2>1. [board |-> api[b.pod].board, rv |-> api[b.pod].rv] \in [board : Annotation, rv : Nat]
    BY <1>2 DEF ApiPods
  <2>2. /\ c \in Handlers /\ c.pc = "allocate" /\ c.seen.rv = api[b.pod].rv
        /\ c.pod = b.pod /\ c.node = b.node /\ c.ni = b.ni
    BY <1>2, <2>1 DEF Handlers, Places
  <2> HIDE DEF c
  <2>3. api'[b.pod].rv = c.seen.rv /\ c.seen.rv \in Nat
    BY <1>1, <1>2, <2>2 DEF ApiPods, podVars
  <2> HIDE DEF b
  <2>4. ASSUME NEW d, d = c PROVE HandlerOK(d)' /\ ~Assumed(d)
    BY <1>1, <1>2, <2>2, <2>3, <2>4 DEF HandlerOK, Assumed, Cached, cacheVars, podVars
  <2> QED
    BY <1>1, <1>3, <1>5, <2>2, <2>4, MovesOn
<1> QED
  BY <1>4, <1>5 DEF GetPod

\* The handler chooses a board of the ledger it holds, or runs again.
LEMMA AllocateKeeps ==
  ASSUME BInv, NEW t \in Binder, AllocateBoard(t)
  PROVE  BInv'
<1> DEFINE b == binder[t]
<1>1. At(t, "allocate") /\ ~At(t, "idle") /\ UNCHANGED <<cacheVars, podVars, envVars>>
  BY DEF AllocateBoard, At
<1>2. /\ b \in Handlers /\ HandlerOK(b) /\ b.pod \in Pod /\ b.node \in Node
      /\ api[b.pod] \in ApiPods
      /\ b.ni = Current => Cached(b.node)
  BY <1>1, AtWork
<1>3. /\ TypeOK' /\ DOMAIN nodeCache \subseteq DOMAIN nodeCache' /\ podMaps \subseteq podMaps'
      /\ calls' \in [Pod -> 0..MaxCalls] /\ UNCHANGED <<capacity, updates>>
  BY <1>1 DEF BInv, TypeInv, cacheVars, envVars, TypeOK
<1>4. Allocatable(t) \in BoardDetails
  <2>1. CASE b.ni = Current
    <3>1. nodeCache[b.node] \in NodeInfos
      BY <1>2, <2>1 DEF BInv, TypeInv, TypeOK, Cached
    <3> QED
      BY <2>1, <3>1 DEF Allocatable, NodeInfos
  <2>2. CASE b.ni # Current
    BY <1>2, <2>2 DEF Allocatable, Handlers
  <2> QED
    BY <2>1, <2>2
<1>5. PICK board \in Allocate(Allocatable(t), Req[b.pod]) :
        IF board = BoardIDNotFount THEN Retry(t)
        ELSE Continue(t, [b EXCEPT !.pc = "assume", !.board = board])
  BY DEF AllocateBoard
<1>6. CASE board = BoardIDNotFount
  BY <1>1, <1>3, <1>5, <1>6, RetryKeeps
<1>7. CASE board # BoardIDNotFount
  <2> DEFINE c == [b EXCEPT !.pc = "assume", !.board = board]
  <2>1. board \in Board
    <3>1. board \in DOMAIN Allocatable(t)
      BY <1>7 DEF Allocate, Fitting
    <3> QED
      BY <1>4, <3>1, BoardDetailsType
  <2>2. /\ c \in Handlers /\ c.pc = "assume" /\ c.board = board
        /\ c.seen = b.seen /\ c.pod = b.pod /\ c.node = b.node /\ c.ni = b.ni
    BY <1>2, <2>1 DEF Handlers, Places
  <2>3. b.seen.rv <= api[b.pod].rv
    BY <1>1, <1>2 DEF At, HandlerOK
  <2>4. Continue(t, c)
    BY <1>5, <1>7
  <2> HIDE DEF b, c
  <2>5. ASSUME NEW d, d = c PROVE HandlerOK(d)' /\ ~Assumed(d)
    BY <1>1, <1>2, <2>1, <2>2, <2>3, <2>5 DEF HandlerOK, Assumed, Cached, cacheVars, podVars
  <2> QED
    BY <1>1, <1>3, <2>2, <2>4, <2>5, MovesOn
<1> QED
  BY <1>6, <1>7

\* A request arrives.
LEMMA StartKeeps ==
  ASSUME BInv, NEW t \in Binder, NEW p \in Pod, NEW n \in Node, Start(t, p, n)
  PROVE  BInv'
<1> DEFINE c == [Idle EXCEPT !.pc = "get", !.pod = p, !.node = n, !.attempt = 1]
<1>1. /\ UNCHANGED <<cacheVars, podVars, capacity, updates>> /\ calls[p] < MaxCalls
      /\ calls' = [calls EXCEPT ![p] = @ + 1]
      /\ IF Cached(n) THEN Continue(t, c) ELSE UNCHANGED binder
  BY DEF Start
<1>2. calls' \in [Pod -> 0..MaxCalls]
  <2>1. calls \in [Pod -> 0..MaxCalls] /\ MaxCalls \in Nat
    BY BoundsAssumption DEF BInv, TypeInv
  <2>2. calls[p] + 1 \in 0..MaxCalls
    BY <1>1, <2>1
  <2> QED
    BY <1>1, <2>1, <2>2
<1>3. TypeOK' /\ DOMAIN nodeCache \subseteq DOMAIN nodeCache' /\ podMaps \subseteq podMaps'
  BY <1>1 DEF BInv, TypeInv, cacheVars, TypeOK
<1>4. CASE Cached(n)
  <2>1. 1 \in 0..Attempts
    BY AttemptsAssumption
  <2>2. Idle \in Handlers /\ Idle.ni = Current
    BY IdleOK
  <2>3. c \in Handlers /\ c.pc = "get" /\ c.pod = p /\ c.node = n
    BY <2>1, <2>2 DEF Handlers, Places
  <2>4. Continue(t, c)
    BY <1>1, <1>4
  <2> HIDE DEF c
  <2>5. ASSUME NEW d, d = c PROVE HandlerOK(d)' /\ ~Assumed(d)
    BY <1>1, <1>4, <2>3, <2>5 DEF HandlerOK, Assumed, Cached, cacheVars, podVars
  <2> QED
    BY <1>1, <1>2, <1>3, <2>3, <2>4, <2>5, MovesOn
<1>5. CASE ~Cached(n)
  <2>1. UNCHANGED <<cacheVars, podVars, binder, capacity, updates>>
    BY <1>1, <1>5
  <2>2. TypeInv' /\ ShownInv' /\ KnownInv' /\ OneAssumed' /\ BoundHasBoard'
    BY <1>2, <1>3, <2>1 DEF BInv, TypeInv, ShownInv, KnownInv, OneAssumed, BoundHasBoard, Active,
                            Bound, Live, Assumed, cacheVars, podVars
  <2>3. \A u \in Binder : HandlerOK(binder[u])'
    BY <2>1 DEF BInv, HandlerOK, Cached, Live, Bound, cacheVars, podVars
  <2> QED
    BY <2>2, <2>3 DEF BInv
<1> QED
  BY <1>4, <1>5

\* AssumePod: it is refused for a pod that the cache knows, and so for one that
\* is bound or that another handler has assumed.
LEMMA AssumeKeeps ==
  ASSUME BInv, NEW t \in Binder, Assume(t)
  PROVE  BInv'
<1> DEFINE b == binder[t]
           p == b.pod
           c == [b EXCEPT !.pc = "update"]
<1>1. /\ At(t, "assume") /\ ~At(t, "idle") /\ UNCHANGED <<podVars, envVars>>
      /\ AssumePod(p, b.node, b.board)
      /\ IF AssumePodErr(p, b.node, b.board) THEN Retry(t) ELSE Continue(t, c)
  BY DEF Assume, At, To
<1>2. /\ b \in Handlers /\ HandlerOK(b) /\ p \in Pod /\ b.node \in Node
      /\ b.ni = Current => Cached(b.node)
  BY <1>1, AtWork
<1>3. TypeOK' /\ DOMAIN nodeCache \subseteq DOMAIN nodeCache' /\ podMaps \subseteq podMaps'
  <2>1. TypeOK
    BY DEF BInv, TypeInv
  <2>2. ~DeletePod(p, b.node, b.board) \/ podMaps \subseteq podMaps'
    BY <1>1 DEF AssumePod
  <2> HIDE DEF b, p
  <2> QED
    BY <1>1, <1>2, <2>1, <2>2, PodCallType
<1>4. CASE AssumePodErr(p, b.node, b.board)
  BY <1>1, <1>3, <1>4, RetryKeeps
<1>5. CASE ~AssumePodErr(p, b.node, b.board)
  <2>1. p \notin podMaps /\ p \in podMaps'
    BY <1>1, <1>5 DEF AssumePod, AssumePodErr
  <2>2. /\ c \in Handlers /\ c.pc = "update" /\ c.board = b.board
        /\ c.seen = b.seen /\ c.pod = p /\ c.node = b.node /\ c.ni = b.ni
    BY <1>2, NextPlace DEF Places
  <2>3. /\ Live(p) => ~Bound(p)
        /\ \A u \in Binder : Assumed(binder[u]) /\ binder[u].pod = p => ~Live(p)
    <3>1. Active(p) = {}
      BY <1>2, <2>1 DEF BInv, KnownInv
    <3>2. Live(p) => ~Bound(p)
      BY <1>2, <3>1 DEF BInv, ShownInv
    <3>3. \A u \in Binder : Assumed(binder[u]) /\ binder[u].pod = p => ~Live(p)
      BY <1>2, <2>1 DEF BInv, KnownInv
    <3> QED
      BY <3>2, <3>3
  <2>4. b.seen.rv <= api[p].rv /\ b.board \in Board
    BY <1>1, <1>2 DEF At, HandlerOK
  <2>5. Continue(t, c)
    BY <1>1, <1>5
  <2> HIDE DEF b, p, c
  <2>6. ASSUME NEW d, d = c PROVE HandlerOK(d)'
    BY <1>1, <1>2, <1>3, <2>2, <2>3, <2>4, <2>6 DEF HandlerOK, Cached, Live, Bound, podVars
  <2>7. /\ binder' \in [Binder -> Handlers] /\ binder'[t] = c
        /\ \A u \in Binder \ {t} : binder'[u] = binder[u]
    BY <2>2, <2>5 DEF Continue, BInv, TypeInv
  <2>8. TypeInv' /\ ShownInv' /\ BoundHasBoard'
    BY <1>1, <1>3, <2>7
       DEF BInv, TypeInv, ShownInv, BoundHasBoard, Active, Live, Bound, envVars, podVars
  <2>9. KnownInv'
    <3> SUFFICES ASSUME NEW q \in Pod,
                        \/ Active(q) # {}
                        \/ /\ Live(q)
                           /\ \E u \in Binder : Assumed(binder[u])' /\ binder'[u].pod = q
                 PROVE  q \in podMaps'
      BY <1>1 DEF KnownInv, Active, Live, podVars
    <3>1. CASE q = p
      BY <2>1, <3>1
    <3>2. CASE q # p
      <4>1. \/ Active(q) # {}
            \/ Live(q) /\ \E u \in Binder : Assumed(binder[u]) /\ binder[u].pod = q
        BY <2>2, <2>7, <3>2 DEF Assumed
      <4> QED
        BY <1>3, <4>1 DEF BInv, KnownInv
    <3> QED
      BY <3>1, <3>2
  <2>10. OneAssumed'
    <3> SUFFICES ASSUME NEW u \in Binder, NEW v \in Binder, u # v,
                        Assumed(binder[u])', Assumed(binder[v])', binder'[u].pod = binder'[v].pod
                 PROVE  ~Live(binder[u].pod)'
      BY DEF OneAssumed
    <3>1. CASE u # t /\ v # t
      BY <1>1, <2>7, <3>1 DEF BInv, OneAssumed, Assumed, Live, podVars
    <3>2. CASE u = t \/ v = t
      <4>1. binder'[u].pod = p /\ ~Live(p)
        BY <2>2, <2>3, <2>7, <3>2 DEF Assumed
      <4> QED
        BY <1>1, <4>1 DEF Live, podVars
    <3> QED
      BY <3>1, <3>2
  <2>11. \A u \in Binder : HandlerOK(binder[u])'
    BY <1>1, <1>3, <2>6, <2>7 DEF BInv, HandlerOK, Cached, Live, Bound, podVars
  <2> QED
    BY <2>8, <2>9, <2>10, <2>11 DEF BInv
<1> QED
  BY <1>4, <1>5

\* ForgetPod takes the charge back and nothing else.
LEMMA ForgetKeeps ==
  ASSUME BInv, NEW t \in Binder, ForgetUpdate(t) \/ ForgetBind(t)
  PROVE  BInv'
<1> DEFINE b == binder[t]
           c == [b EXCEPT !.pc = "recover"]
<1>1. ~At(t, "idle") /\ UNCHANGED <<podVars, envVars>>
  BY DEF ForgetUpdate, ForgetBind, At
<1>2. b \in Handlers /\ HandlerOK(b) /\ b.pod \in Pod
  BY <1>1, AtWork
<1>3. TypeOK' /\ DOMAIN nodeCache \subseteq DOMAIN nodeCache' /\ podMaps \subseteq podMaps'
  <2>1. TypeOK
    BY DEF BInv, TypeInv
  <2>2. PICK a : ForgetPod(b.pod, b.node, a)
    BY DEF ForgetUpdate, ForgetBind
  <2>3. podMaps' = podMaps
    BY <2>2 DEF ForgetPod
  <2> HIDE DEF b
  <2> QED
    BY <1>2, <2>1, <2>2, <2>3, PodCallType
<1>4. CASE ForgetUpdate(t)
  BY <1>1, <1>3, <1>4, RetryKeeps DEF ForgetUpdate
<1>5. CASE ForgetBind(t)
  <2>1. b.pc = "forgetBind" /\ Continue(t, c)
    BY <1>5 DEF ForgetBind, At, To
  <2>2. /\ c \in Handlers /\ c.pc = "recover" /\ c.board = b.board
        /\ c.seen = b.seen /\ c.pod = b.pod /\ c.node = b.node /\ c.ni = b.ni
    BY <1>2, NextPlace DEF Places
  <2>3. calls' \in [Pod -> 0..MaxCalls] /\ UNCHANGED <<capacity, updates>>
    BY <1>1 DEF BInv, TypeInv, envVars
  <2>4. Assumed(b)
    BY <2>1 DEF Assumed
  <2> HIDE DEF c
  <2>5. ASSUME NEW d, d = c PROVE HandlerOK(d)'
    BY <1>1, <1>2, <1>3, <2>1, <2>2, <2>5 DEF HandlerOK, Cached, Live, Bound, podVars
  <2> QED
    BY <1>1, <1>3, <2>1, <2>2, <2>3, <2>4, <2>5, MovesOn
<1> QED
  BY <1>4, <1>5

(***************************************************************************)
(* The API server has a new version of a pod that exists, which may be     *)
(* bound or completed in it.                                               *)
(***************************************************************************)
LEMMA WriteKeeps ==
  ASSUME BInv, NEW p \in Pod, NEW r \in ApiPods, Write(p, r), Exists(p),
         r.st \in {api[p].st, "completed"}, r.st = "completed" => Bound(p),
         r.node = api[p].node \/ (r.node \in Node /\ Live(p)),
         api[p].rv <= r.rv
  PROVE  /\ api' \in [Pod -> ApiPods] /\ shown' \in [Pod -> SUBSET Versions] /\ ShownInv'
         /\ api'[p] = r /\ \A q \in Pod \ {p} : api'[q] = api[q]
         /\ \A q \in Pod : api[q].rv <= api'[q].rv
         /\ \A q \in Pod : Active(q)' # {} => Active(q) # {} \/ (q = p /\ Live(p))
<1>1. /\ api \in [Pod -> ApiPods] /\ shown \in [Pod -> SUBSET Versions] /\ ShownInv
      /\ NoNode \notin Node
  BY NodeAssumption DEF BInv, TypeInv
<1>2. api'[p] = r /\ \A q \in Pod \ {p} : api'[q] = api[q]
  BY <1>1 DEF Write
<1>3. api' \in [Pod -> ApiPods]
  BY <1>1 DEF Write
<1>4. \A q \in Pod : api[q].rv <= api'[q].rv
  <2>1. \A q \in Pod : api[q].rv \in Nat
    BY <1>1 DEF ApiPods
  <2>2. \A q \in Pod : api[q].rv <= api[q].rv
    BY <2>1
  <2> QED
    BY <1>2, <2>2
<1> DEFINE v == VersionOf(r)
<1>5. v \in Versions /\ v.st = r.st
  BY DEF VersionOf, Versions, ApiPods, Exists
<1> HIDE DEF v
<1>6. /\ shown' \in [Pod -> SUBSET Versions]
      /\ \A q \in Pod \ {p} : shown'[q] = shown[q]
      /\ r.node = NoNode => shown'[p] = shown[p]
      /\ r.node # NoNode => shown'[p] = shown[p] \cup {v}
  BY <1>1, <1>5 DEF Write, v
<1>7. r.node = NoNode => ~Bound(p)
  BY <1>1 DEF Bound
<1>8. ASSUME NEW q \in Pod
      PROVE  /\ api'[q].st = "completed" => api'[q].node # NoNode
             /\ api'[q].node = NoNode => shown'[q] = {}
             /\ api'[q].st = "live" /\ api'[q].node # NoNode => VersionOf(api'[q]) \in shown'[q]
             /\ api'[q].st = "live" => \A w \in shown'[q] : w.st = "live"
  <2>1. CASE q # p
    BY <1>1, <1>2, <1>6, <2>1 DEF ShownInv, Live, Bound, Active
  <2>2. CASE q = p
    <3>1. r.st = "completed" => r.node # NoNode
      BY <1>7
    <3>2. r.node = NoNode => shown'[p] = {}
      BY <1>1, <1>6, <1>7 DEF ShownInv
    <3>3. r.st = "live" /\ r.node # NoNode => VersionOf(r) \in shown'[p]
      BY <1>6 DEF v
    <3>4. r.st = "live" => \A w \in shown'[p] : w.st = "live"
      BY <1>1, <1>5, <1>6 DEF ShownInv, Live, Active
    <3> QED
      BY <1>2, <2>2, <3>1, <3>2, <3>3, <3>4
  <2> QED
    BY <2>1, <2>2
<1>9. ShownInv'
  BY <1>8 DEF ShownInv, Live, Bound, Active
<1>10. ASSUME NEW q \in Pod, Active(q)' # {}
       PROVE  Active(q) # {} \/ (q = p /\ Live(p))
  <2>1. PICK w \in shown'[q] : w.st = "live"
    BY <1>10 DEF Active
  <2>2. CASE w \in shown[q]
    BY <2>1, <2>2 DEF Active
  <2>3. CASE w \notin shown[q]
    <3>1. q = p /\ w = v
      BY <1>6, <2>1, <2>3
    <3> QED
      BY <1>5, <2>1, <3>1 DEF Live, Exists
  <2> QED
    BY <2>2, <2>3
<1> QED
  BY <1>2, <1>3, <1>4, <1>6, <1>9, <1>10

\* An UPDATE writes the annotation and makes a new version.
LEMMA UpdatePodKeeps ==
  ASSUME BInv, NEW p \in Pod, NEW a \in Annotation, Exists(p), UpdatePod(p, a)
  PROVE  /\ api' \in [Pod -> ApiPods] /\ shown' \in [Pod -> SUBSET Versions] /\ ShownInv'
         /\ api'[p].node = api[p].node /\ api'[p].board = a
         /\ \A q \in Pod \ {p} : api'[q] = api[q]
         /\ \A q \in Pod : api'[q].st = api[q].st /\ api[q].rv <= api'[q].rv
         /\ \A q \in Pod : Active(q)' # {} => Active(q) # {} \/ (q = p /\ Live(p))
<1> DEFINE rv == IF api[p].board = a THEN api[p].rv ELSE api[p].rv + 1
           r == [api[p] EXCEPT !.board = a, !.rv = rv]
<1>1. api[p] \in ApiPods /\ api[p].rv \in Nat
  BY DEF BInv, TypeInv, ApiPods
<1>2. rv \in Nat /\ api[p].rv <= rv
  BY <1>1
<1>3. Write(p, r)
  BY DEF UpdatePod
<1> HIDE DEF rv
<1>4. /\ r \in ApiPods /\ r.board = a /\ r.rv = rv
      /\ r.st = api[p].st /\ r.node = api[p].node
  BY <1>1, <1>2 DEF ApiPods
<1>5. r.st = "completed" => Bound(p)
  BY <1>4 DEF BInv, ShownInv
<1> HIDE DEF r
<1>6. /\ api' \in [Pod -> ApiPods] /\ shown' \in [Pod -> SUBSET Versions] /\ ShownInv'
      /\ api'[p] = r /\ \A q \in Pod \ {p} : api'[q] = api[q]
      /\ \A q \in Pod : api[q].rv <= api'[q].rv
      /\ \A q \in Pod : Active(q)' # {} => Active(q) # {} \/ (q = p /\ Live(p))
  BY <1>2, <1>3, <1>4, <1>5, WriteKeeps
<1> QED
  BY <1>4, <1>6

\* The UPDATE: no other handler may write to the pod, which is not bound if it
\* is live.
LEMMA UpdateKeeps ==
  ASSUME BInv, NEW t \in Binder, Update(t)
  PROVE  BInv' /\ \A q \in Pod : Live(q) /\ Bound(q) => api'[q] = api[q]
<1> DEFINE b == binder[t]
           p == b.pod
           go(pc) == [b EXCEPT !.pc = pc]
<1>1. b.pc = "update" /\ ~At(t, "idle") /\ UNCHANGED <<cacheVars, envVars>>
  BY DEF Update, At
<1>2. b \in Handlers /\ HandlerOK(b) /\ p \in Pod /\ b.node \in Node /\ api[p] \in ApiPods
  BY <1>1, AtWork
<1>3. /\ TypeOK' /\ DOMAIN nodeCache \subseteq DOMAIN nodeCache' /\ podMaps \subseteq podMaps'
      /\ calls' \in [Pod -> 0..MaxCalls] /\ UNCHANGED <<capacity, updates>>
  BY <1>1 DEF BInv, TypeInv, cacheVars, envVars, TypeOK
<1>4. /\ api \in [Pod -> ApiPods] /\ BoundHasBoard
      /\ b.board \in Board /\ b.board \in Annotation
      /\ b.seen.rv <= api[p].rv /\ b.seen.rv \in Nat /\ api[p].rv \in Nat
      /\ Assumed(b) /\ (Live(p) => ~Bound(p))
  BY <1>1, <1>2 DEF BInv, TypeInv, HandlerOK, Assumed, Handlers, ApiPods, Annotation
<1>5. ASSUME NEW pc \in {"bind", "forgetUpdate"}
      PROVE  /\ go(pc) \in Handlers /\ go(pc).pc = pc /\ go(pc).board = b.board
             /\ go(pc).seen = b.seen /\ go(pc).pod = p /\ go(pc).node = b.node
             /\ go(pc).ni = b.ni
  <2>1. pc \in Places
    BY DEF Places
  <2> HIDE DEF b
  <2> QED
    BY <1>2, <2>1, NextPlace
<1>6. CASE Updatable(p, b.seen.rv) /\ UpdatePod(p, b.board)
  <2>1. Exists(p)
    BY <1>6 DEF Updatable
  <2>2. /\ api' \in [Pod -> ApiPods] /\ shown' \in [Pod -> SUBSET Versions] /\ ShownInv'
        /\ api'[p].node = api[p].node /\ api'[p].board = b.board
        /\ \A q \in Pod \ {p} : api'[q] = api[q]
        /\ \A q \in Pod : api'[q].st = api[q].st /\ api[q].rv <= api'[q].rv
        /\ \A q \in Pod : Active(q)' # {} => Active(q) # {} \/ (q = p /\ Live(p))
    <3> HIDE DEF b, p
    <3> QED
      BY <1>2, <1>4, <1>6, <2>1, UpdatePodKeeps
  <2>3. PICK pc \in {"bind", "forgetUpdate"} : Continue(t, go(pc))
    BY <1>6 DEF Update, To
  <2> DEFINE c == go(pc)
  <2>4. /\ c \in Handlers /\ c.pc = pc /\ c.board = b.board
        /\ c.seen = b.seen /\ c.pod = p /\ c.node = b.node /\ c.ni = b.ni
    BY <1>5
  <2>5. Continue(t, c)
    BY <2>3
  <2>6. api'[p].rv \in Nat /\ b.seen.rv <= api'[p].rv
    BY <1>2, <1>4, <2>2 DEF ApiPods
  <2>7. \A q \in Pod : Active(q)' # {} => \/ Active(q) # {}
                                          \/ Live(q) /\ Assumed(binder[t]) /\ binder[t].pod = q
    BY <1>4, <2>2
  <2>8. BoundHasBoard'
    BY <1>4, <2>2 DEF BoundHasBoard, Bound, Live
  <2>9. \A q \in Pod : api'[q] = api[q] \/ (Assumed(binder[t]) /\ binder[t].pod = q)
    BY <1>4, <2>2
  <2> HIDE DEF go, c
  <2>10. ASSUME NEW d, d = c PROVE HandlerOK(d)'
    BY <1>1, <1>2, <1>4, <2>2, <2>4, <2>6, <2>10
       DEF HandlerOK, Cached, Live, Bound, cacheVars, podVars
  <2>11. BInv'
    BY <1>3, <1>4, <2>2, <2>4, <2>5, <2>7, <2>8, <2>9, <2>10, HandlerMoves
  <2> QED
    BY <1>4, <2>2, <2>11
<1>7. CASE UNCHANGED podVars /\ To(t, "forgetUpdate")
  <2> DEFINE c == go("forgetUpdate")
  <2>1. Continue(t, c)
    BY <1>7 DEF To
  <2>2. /\ c \in Handlers /\ c.pc = "forgetUpdate" /\ c.board = b.board
        /\ c.seen = b.seen /\ c.pod = p /\ c.node = b.node /\ c.ni = b.ni
    BY <1>5
  <2> HIDE DEF go, c
  <2>3. ASSUME NEW d, d = c PROVE HandlerOK(d)'
    BY <1>1, <1>2, <1>4, <1>7, <2>2, <2>3 DEF HandlerOK, Cached, Live, Bound, cacheVars, podVars
  <2>4. BInv'
    BY <1>3, <1>4, <1>7, <2>1, <2>2, <2>3, MovesOn
  <2> QED
    BY <1>7, <2>4 DEF podVars
<1>8. \/ Updatable(p, b.seen.rv) /\ UpdatePod(p, b.board)
      \/ UNCHANGED podVars /\ To(t, "forgetUpdate")
  BY DEF Update
<1> QED
  BY <1>6, <1>7, <1>8

\* The BIND: the pod has the annotation when it gets bound, and a reply that is
\* lost leaves a resource version that the removal does not have.
LEMMA BindPodKeeps ==
  ASSUME BInv, NEW t \in Binder, BindPod(t)
  PROVE  BInv' /\ \A q \in Pod : Live(q) /\ Bound(q) => api'[q] = api[q]
<1> DEFINE b == binder[t]
           p == b.pod
           c == [b EXCEPT !.pc = "forgetBind"]
           r == [api[p] EXCEPT !.node = b.node, !.rv = @ + 1]
<1>1. b.pc = "bind" /\ ~At(t, "idle") /\ UNCHANGED <<cacheVars, envVars>>
  BY DEF BindPod, At
<1>2. b \in Handlers /\ HandlerOK(b) /\ p \in Pod /\ b.node \in Node /\ api[p] \in ApiPods
  BY <1>1, AtWork
<1>3. /\ TypeOK' /\ DOMAIN nodeCache \subseteq DOMAIN nodeCache' /\ podMaps \subseteq podMaps'
      /\ calls' \in [Pod -> 0..MaxCalls] /\ UNCHANGED <<capacity, updates>>
  BY <1>1 DEF BInv, TypeInv, cacheVars, envVars, TypeOK
<1>4. /\ api \in [Pod -> ApiPods] /\ BoundHasBoard
      /\ b.board \in Board
      /\ b.seen.rv <= api[p].rv /\ b.seen.rv \in Nat /\ api[p].rv \in Nat
      /\ Assumed(b) /\ (Live(p) => ~Bound(p) /\ api[p].board = b.board)
  BY <1>1, <1>2 DEF BInv, TypeInv, HandlerOK, Assumed, Handlers, ApiPods
<1>5. /\ c \in Handlers /\ c.pc = "forgetBind" /\ c.board = b.board
      /\ c.seen = b.seen /\ c.pod = p /\ c.node = b.node /\ c.ni = b.ni
  <2>1. "forgetBind" \in Places
    BY DEF Places
  <2> HIDE DEF b
  <2> QED
    BY <1>2, <2>1, NextPlace
<1>6. CASE /\ Live(p) /\ ~Bound(p) /\ Write(p, r)
           /\ Continue(t, Idle) \/ To(t, "forgetBind")
  <2>1. /\ r \in ApiPods /\ r.st = api[p].st /\ r.board = api[p].board /\ r.rv = api[p].rv + 1
        /\ r.node = b.node
    <3>1. api[p].rv + 1 \in Nat
      BY <1>4
    <3> HIDE DEF b, p
    <3> QED
      BY <1>2, <3>1 DEF ApiPods
  <2> HIDE DEF r
  <2>2. /\ api' \in [Pod -> ApiPods] /\ shown' \in [Pod -> SUBSET Versions] /\ ShownInv'
        /\ api'[p] = r /\ \A q \in Pod \ {p} : api'[q] = api[q]
        /\ \A q \in Pod : api[q].rv <= api'[q].rv
        /\ \A q \in Pod : Active(q)' # {} => Active(q) # {} \/ (q = p /\ Live(p))
    <3>1. Exists(p) /\ api[p].rv <= r.rv /\ r.st # "completed"
      BY <1>4, <1>6, <2>1 DEF Exists, Live
    <3> HIDE DEF b, p
    <3> QED
      BY <1>2, <1>6, <2>1, <3>1, WriteKeeps
  <2>3. \A q \in Pod : api'[q].st = api[q].st
    BY <2>1, <2>2
  <2>4. BoundHasBoard'
    BY <1>4, <1>6, <2>1, <2>2 DEF BoundHasBoard, Bound, Live
  <2>5. /\ \A q \in Pod : api'[q] = api[q] \/ (Assumed(binder[t]) /\ binder[t].pod = q)
        /\ \A q \in Pod : Active(q)' # {} => \/ Active(q) # {}
                                             \/ Live(q) /\ Assumed(binder[t]) /\ binder[t].pod = q
    BY <1>4, <2>2
  <2>6. CASE Continue(t, Idle)
    <3>1. BInv'
      BY <1>3, <2>2, <2>3, <2>4, <2>5, <2>6, IdleOK, HandlerMoves DEF Assumed
    <3> QED
      BY <1>6, <2>2, <3>1
  <2>7. CASE Continue(t, c)
    <3>1. b.seen.rv < api'[p].rv /\ b.seen.rv <= api'[p].rv
      BY <1>4, <2>1, <2>2
    <3> HIDE DEF c
    <3>2. ASSUME NEW d, d = c PROVE HandlerOK(d)'
      BY <1>1, <1>2, <1>4, <1>5, <3>1, <3>2 DEF HandlerOK, Cached, cacheVars, podVars
    <3>3. BInv'
      BY <1>3, <1>4, <1>5, <2>2, <2>3, <2>4, <2>5, <2>7, <3>2, HandlerMoves
    <3> QED
      BY <1>6, <2>2, <3>3
  <2> QED
    BY <1>6, <2>6, <2>7 DEF To
<1>7. CASE UNCHANGED podVars /\ To(t, "forgetBind")
  <2>1. Continue(t, c)
    BY <1>7 DEF To
  <2> HIDE DEF c
  <2>2. ASSUME NEW d, d = c PROVE HandlerOK(d)'
    BY <1>1, <1>2, <1>4, <1>5, <1>7, <2>2 DEF HandlerOK, Cached, Live, Bound, cacheVars, podVars
  <2>3. BInv'
    BY <1>3, <1>4, <1>5, <1>7, <2>1, <2>2, MovesOn
  <2> QED
    BY <1>7, <2>3 DEF podVars
<1>8. \/ /\ Live(p) /\ ~Bound(p) /\ Write(p, r)
         /\ Continue(t, Idle) \/ To(t, "forgetBind")
      \/ UNCHANGED podVars /\ To(t, "forgetBind")
  BY DEF BindPod
<1> QED
  BY <1>6, <1>7, <1>8

\* The removal of the annotation: a live pod that is bound has a newer version.
LEMMA RecoverKeeps ==
  ASSUME BInv, NEW t \in Binder, Recover(t)
  PROVE  BInv' /\ \A q \in Pod : Live(q) /\ Bound(q) => api'[q] = api[q]
<1> DEFINE b == binder[t]
           p == b.pod
<1>1. b.pc = "recover" /\ ~At(t, "idle") /\ UNCHANGED <<cacheVars, envVars>> /\ Continue(t, Idle)
  BY DEF Recover, At
<1>2. b \in Handlers /\ HandlerOK(b) /\ p \in Pod /\ api[p] \in ApiPods /\ Assumed(b)
  BY <1>1, AtWork DEF Assumed
<1>3. /\ TypeOK' /\ DOMAIN nodeCache \subseteq DOMAIN nodeCache' /\ podMaps \subseteq podMaps'
      /\ calls' \in [Pod -> 0..MaxCalls] /\ UNCHANGED <<capacity, updates>>
  BY <1>1 DEF BInv, TypeInv, cacheVars, envVars, TypeOK
<1>4. CASE UNCHANGED podVars
  <2>1. BInv'
    BY <1>1, <1>3, <1>4, IdleOK, MovesOn DEF Assumed
  <2> QED
    BY <1>4, <2>1 DEF podVars
<1>5. CASE Updatable(p, b.seen.rv) /\ UpdatePod(p, NoBoard)
  <2>1. Exists(p) /\ (Live(p) => ~Bound(p))
    <3>1. Exists(p) /\ api[p].rv = b.seen.rv /\ b.seen.rv \in Nat
      BY <1>2, <1>5 DEF Updatable, Handlers
    <3>2. Live(p) /\ Bound(p) => b.seen.rv < api[p].rv
      BY <1>1, <1>2 DEF HandlerOK
    <3> QED
      BY <3>1, <3>2
  <2>2. BoundHasBoard /\ NoBoard \in Annotation
    BY DEF BInv, Annotation
  <2>3. /\ api' \in [Pod -> ApiPods] /\ shown' \in [Pod -> SUBSET Versions] /\ ShownInv'
        /\ api'[p].node = api[p].node
        /\ \A q \in Pod \ {p} : api'[q] = api[q]
        /\ \A q \in Pod : api'[q].st = api[q].st /\ api[q].rv <= api'[q].rv
        /\ \A q \in Pod : Active(q)' # {} => Active(q) # {} \/ (q = p /\ Live(p))
    <3> HIDE DEF b, p
    <3> QED
      BY <1>2, <1>5, <2>1, <2>2, UpdatePodKeeps
  <2>4. BoundHasBoard'
    BY <2>1, <2>2, <2>3 DEF BoundHasBoard, Bound, Live
  <2>5. /\ \A q \in Pod : api'[q] = api[q] \/ (Assumed(binder[t]) /\ binder[t].pod = q)
        /\ \A q \in Pod : Active(q)' # {} => \/ Active(q) # {}
                                             \/ Live(q) /\ Assumed(binder[t]) /\ binder[t].pod = q
    BY <1>2, <2>3
  <2>6. BInv'
    BY <1>1, <1>3, <2>3, <2>4, <2>5, IdleOK, HandlerMoves DEF Assumed
  <2> QED
    BY <2>1, <2>3, <2>6
<1> QED
  BY <1>4, <1>5 DEF Recover

\* All the calls of a handler.
LEMMA BinderKeeps ==
  ASSUME BInv, NEW t \in Binder, BinderStep(t)
  PROVE  BInv' /\ \A q \in Pod : Live(q) /\ Bound(q) => api'[q] = api[q]
<1>1. CASE GetPod(t) \/ AllocateBoard(t) \/ Assume(t) \/ ForgetUpdate(t) \/ ForgetBind(t)
  <2>1. UNCHANGED api
    BY <1>1 DEF GetPod, AllocateBoard, Assume, ForgetUpdate, ForgetBind, podVars
  <2>2. BInv'
    BY <1>1, GetPodKeeps, AllocateKeeps, AssumeKeeps, ForgetKeeps
  <2> QED
    BY <2>1, <2>2
<1>2. CASE Update(t) \/ BindPod(t) \/ Recover(t)
  BY <1>2, UpdateKeeps, BindPodKeeps, RecoverKeeps
<1> QED
  BY <1>1, <1>2 DEF BinderStep

\* No call of a handler completes or deletes a pod.
LEMMA BinderEndsNone ==
  ASSUME BInv, NEW t \in Binder, BinderStep(t)
  PROVE  \A q \in Pod : api'[q].st = api[q].st
<1>1. api \in [Pod -> ApiPods]
  BY DEF BInv, TypeInv
<1>2. ASSUME NEW p \in Pod, NEW r, r.st = api[p].st, Write(p, r)
      PROVE  \A q \in Pod : api'[q].st = api[q].st
  BY <1>1, <1>2 DEF Write
<1>3. ASSUME NEW p \in Pod, NEW a, UpdatePod(p, a)
      PROVE  \A q \in Pod : api'[q].st = api[q].st
  <2> DEFINE r == [api[p] EXCEPT !.board = a, !.rv = IF api[p].board = a THEN @ ELSE @ + 1]
  <2>1. r.st = api[p].st
    BY <1>1 DEF ApiPods
  <2>2. Write(p, r)
    BY <1>3 DEF UpdatePod
  <2> HIDE DEF r
  <2> QED
    BY <1>2, <2>1, <2>2
<1>4. ~At(t, "idle") /\ binder[t].pod \in Pod
  <2>1. ~At(t, "idle")
    BY DEF BinderStep, GetPod, AllocateBoard, Assume, Update, ForgetUpdate, BindPod, ForgetBind,
           Recover, At
  <2> QED
    BY <2>1, AtWork
<1>5. CASE BindPod(t)
  <2> DEFINE p == binder[t].pod
             r == [api[p] EXCEPT !.node = binder[t].node, !.rv = @ + 1]
  <2>1. r.st = api[p].st
    BY <1>1, <1>4 DEF ApiPods
  <2>2. Write(p, r) \/ api' = api
    BY <1>5 DEF BindPod, podVars
  <2> HIDE DEF r
  <2> QED
    BY <1>2, <1>4, <2>1, <2>2
<1>6. CASE Update(t) \/ Recover(t)
  <2>1. (\E a : UpdatePod(binder[t].pod, a)) \/ api' = api
    BY <1>6 DEF Update, Recover, podVars
  <2> QED
    BY <1>3, <1>4, <2>1
<1>7. CASE GetPod(t) \/ AllocateBoard(t) \/ Assume(t) \/ ForgetUpdate(t) \/ ForgetBind(t)
  BY <1>7 DEF GetPod, AllocateBoard, Assume, ForgetUpdate, ForgetBind, podVars
<1> QED
  BY <1>5, <1>6, <1>7 DEF BinderStep

-----------------------------------------------------------------------------
(***************************************************************************)
(* What happens around the handlers.                                       *)
(***************************************************************************)

\* Nodes come, change and go; a handler keeps the node info it has.
LEMMA NodesKeep ==
  ASSUME BInv, NEW n \in Node,
         NodeAdded(n) \/ NodeDeleted(n) \/ \E total \in Totals : NodeUpdated(n, total)
  PROVE  BInv' /\ UNCHANGED api
<1>1. /\ TypeOK /\ shown \in [Pod -> SUBSET Versions] /\ binder \in [Binder -> Handlers]
      /\ capacity \in [Node -> Totals] /\ updates \in 0..MaxNodeUpdates /\ MaxNodeUpdates \in Nat
      /\ \A t \in Binder : HandlerOK(binder[t])
  BY BoundsAssumption DEF BInv, TypeInv
<1>2. UNCHANGED <<api, shown, calls>>
  BY DEF NodeAdded, NodeDeleted, NodeUpdated, envVars, podVars
<1>3. capacity' \in [Node -> Totals] /\ updates' \in 0..MaxNodeUpdates
  <2>1. updates < MaxNodeUpdates => updates + 1 \in 0..MaxNodeUpdates
    BY <1>1
  <2> QED
    BY <1>1, <2>1 DEF NodeAdded, NodeDeleted, NodeUpdated, envVars
<1>4. ASSUME NEW S \in Listed(n)
      PROVE  BoardsOf(S) \in PodsWith(Annotation)
  <2>1. S \subseteq Pod /\ \A p \in S : Active(p) # {}
    BY <1>4 DEF Listed, BoundTo
  <2>2. ASSUME NEW p \in S PROVE (CHOOSE v \in Active(p) : TRUE).board \in Annotation
    <3>1. (CHOOSE v \in Active(p) : TRUE) \in Active(p)
      BY <2>1
    <3>2. (CHOOSE v \in Active(p) : TRUE) \in Versions
      BY <1>1, <2>1, <3>1 DEF Active
    <3> QED
      BY <3>2 DEF Versions
  <2>3. DOMAIN BoardsOf(S) = S /\ BoardsOf(S) \in [S -> Annotation]
    BY <2>2 DEF BoardsOf
  <2> QED
    BY <2>1, <2>3, PodsType
<1>5. /\ TypeOK' /\ podMaps' = podMaps /\ DOMAIN nodeCache \ {n} \subseteq DOMAIN nodeCache'
      /\ ~NodeDeleted(n) => DOMAIN nodeCache \subseteq DOMAIN nodeCache'
  <2>1. capacity[n] \in Totals
    BY <1>1
  <2>2. CASE NodeAdded(n)
    <3>1. PICK S \in Listed(n) : AddNode(n, capacity[n], BoardsOf(S))
      BY <2>2 DEF NodeAdded
    <3>2. ~DeleteNode(n)
      BY <3>1 DEF AddNode, SetNode, DeleteNode
    <3> QED
      BY <1>1, <1>4, <2>1, <3>1, <3>2, NodeCallType
  <2>3. ASSUME NEW total \in Totals, NodeUpdated(n, total)
        PROVE  /\ TypeOK' /\ podMaps' = podMaps
               /\ DOMAIN nodeCache \subseteq DOMAIN nodeCache'
    <3>1. Cached(n) /\ \E S \in Listed(n) : UpdateNode(n, capacity[n], total, BoardsOf(S))
      BY <2>3 DEF NodeUpdated
    <3>2. ~DeleteNode(n)
      BY <3>1 DEF UpdateNode, SetNode, DeleteNode, Cached
    <3> QED
      BY <1>1, <1>4, <2>1, <3>1, <3>2, NodeCallType
  <2>4. CASE NodeDeleted(n)
    <3>1. DeleteNode(n) /\ {} \in SUBSET Pod
      BY <2>4 DEF NodeDeleted
    <3>2. BoardsOf({}) \in PodsWith(Annotation)
      <4>1. DOMAIN BoardsOf({}) = {} /\ BoardsOf({}) \in [{} -> Annotation]
        BY DEF BoardsOf
      <4> QED
        BY <4>1, PodsType
    <3> QED
      BY <1>1, <2>1, <2>4, <3>1, <3>2, NodeCallType
  <2> QED
    BY <2>2, <2>3, <2>4
<1>6. \/ binder' = binder /\ DOMAIN nodeCache \subseteq DOMAIN nodeCache'
      \/ Cached(n) /\ Detach(n)
  <2>1. CASE NodeAdded(n)
    <3>1. ~NodeDeleted(n)
      BY <2>1 DEF NodeAdded, NodeDeleted
    <3> QED
      BY <1>5, <2>1, <3>1 DEF NodeAdded
  <2>2. CASE NodeDeleted(n)
    BY <2>2 DEF NodeDeleted
  <2>3. ASSUME NEW total \in Totals, NodeUpdated(n, total)
        PROVE  \/ binder' = binder /\ DOMAIN nodeCache \subseteq DOMAIN nodeCache'
               \/ Cached(n) /\ Detach(n)
    BY <2>3 DEF NodeUpdated, UpdateNode
  <2> QED
    BY <2>1, <2>2, <2>3
<1>7. ASSUME NEW t \in Binder
      PROVE  /\ binder'[t] \in Handlers
             /\ \E ni : binder'[t] = [binder[t] EXCEPT !.ni = ni]
             /\ binder'[t].pc # "idle" /\ binder'[t].ni = Current
                  => binder'[t].node \in DOMAIN nodeCache'
  <2> DEFINE b == binder[t]
  <2>1. b \in Handlers /\ HandlerOK(b)
    BY <1>1
  <2>2. b = [b EXCEPT !.ni = b.ni]
    BY <2>1 DEF Handlers
  <2>3. CASE binder' = binder /\ DOMAIN nodeCache \subseteq DOMAIN nodeCache'
    BY <2>1, <2>2, <2>3 DEF HandlerOK, Cached, podVars
  <2>4. CASE Cached(n) /\ Detach(n) /\ b.node = n /\ b.ni = Current
    <3> DEFINE al == nodeCache[n].Allocatable
    <3>1. al \in BoardDetails
      BY <1>1, <2>4 DEF TypeOK, Cached, NodeInfos
    <3>2. binder'[t] = [b EXCEPT !.ni = al]
      BY <2>4 DEF Detach
    <3> HIDE DEF al
    <3> QED
      BY <2>1, <3>1, <3>2, BinderAssumption DEF Handlers
  <2>5. CASE Cached(n) /\ Detach(n) /\ ~(b.node = n /\ b.ni = Current)
    <3>1. binder'[t] = b
      BY <2>5 DEF Detach
    <3> QED
      BY <1>5, <2>1, <2>2, <2>5, <3>1 DEF HandlerOK, Cached, podVars
  <2> QED
    BY <1>6, <2>3, <2>4, <2>5
<1>8. ASSUME NEW t \in Binder
      PROVE  /\ binder'[t].pc = binder[t].pc /\ binder'[t].pod = binder[t].pod
             /\ HandlerOK(binder[t])'
  <2>1. PICK ni : binder'[t] = [binder[t] EXCEPT !.ni = ni]
    BY <1>7
  <2>2. /\ binder'[t].pc = binder[t].pc /\ binder'[t].pod = binder[t].pod
        /\ binder'[t].node = binder[t].node /\ binder'[t].board = binder[t].board
        /\ binder'[t].seen = binder[t].seen
    BY <1>1, <2>1 DEF Handlers
  <2> QED
    BY <1>1, <1>2, <1>7, <2>2 DEF HandlerOK, Cached, Live, Bound, podVars
<1>9. binder' \in [Binder -> Handlers]
  <2>1. DOMAIN binder' = Binder /\ binder' = [t \in Binder |-> binder'[t]]
    BY <1>1, <1>6 DEF Detach
  <2> QED
    BY <1>7, <2>1
<1>10. TypeInv' /\ ShownInv' /\ KnownInv' /\ OneAssumed' /\ BoundHasBoard'
  BY <1>2, <1>3, <1>5, <1>8, <1>9
     DEF BInv, TypeInv, ShownInv, KnownInv, OneAssumed, BoundHasBoard, Active, Assumed, Bound, Live
<1> QED
  BY <1>2, <1>8, <1>10 DEF BInv

\* The board and the node of a live bound pod.
Fixed ==
  \A p \in Pod : Bound(p) /\ Live(p)' => api'[p].node = api[p].node /\ api'[p].board = api[p].board

PodMoves(p) ==
  PodSynced(p) \/ PodReleased(p) \/ PodCompletes(p) \/ PodDeleted(p) \/ PodDeletionHandled(p)

\* What becomes of the pods: one that still lives is as it was, and a lister
\* shows a pod active only if it did before.
LEMMA PodsMove ==
  ASSUME BInv, NEW p \in Pod, PodMoves(p)
  PROVE  /\ api' \in [Pod -> ApiPods] /\ shown' \in [Pod -> SUBSET Versions] /\ ShownInv'
         /\ \A q \in Pod : /\ api[q].rv <= api'[q].rv
                           /\ Live(q)' => Live(q) /\ api'[q] = api[q]
                           /\ Active(q)' # {} => Active(q) # {}
<1>1. /\ api \in [Pod -> ApiPods] /\ shown \in [Pod -> SUBSET Versions] /\ ShownInv
      /\ \A q \in Pod : api[q].rv \in Nat /\ api[q].rv <= api[q].rv
  <2>1. api \in [Pod -> ApiPods] /\ shown \in [Pod -> SUBSET Versions] /\ ShownInv
    BY DEF BInv, TypeInv
  <2>2. \A q \in Pod : api[q].rv \in Nat
    BY <2>1 DEF ApiPods
  <2> QED
    BY <2>1, <2>2
<1>2. CASE PodSynced(p)
  <2>1. api' = api /\ shown' = shown
    BY <1>2 DEF PodSynced, podVars
  <2> QED
    BY <1>1, <2>1 DEF ShownInv, Active, Live, Bound
<1>3. CASE PodCompletes(p)
  <2> DEFINE r == [api[p] EXCEPT !.st = "completed", !.rv = @ + 1]
  <2>1. Live(p) /\ Bound(p) /\ Write(p, r)
    BY <1>3 DEF PodCompletes
  <2>2. api[p] \in ApiPods /\ api[p].rv + 1 \in Nat /\ api[p].rv <= api[p].rv + 1
    BY <1>1
  <2>3. r \in ApiPods /\ r.st = "completed" /\ r.node = api[p].node /\ api[p].rv <= r.rv
    BY <2>2 DEF ApiPods
  <2> HIDE DEF r
  <2>4. /\ api' \in [Pod -> ApiPods] /\ shown' \in [Pod -> SUBSET Versions] /\ ShownInv'
        /\ api'[p] = r /\ \A q \in Pod \ {p} : api'[q] = api[q]
        /\ \A q \in Pod : api[q].rv <= api'[q].rv
        /\ \A q \in Pod : Active(q)' # {} => Active(q) # {} \/ (q = p /\ Live(p))
    BY <2>1, <2>3, WriteKeeps DEF Exists, Live
  <2>5. Active(p) # {}
    BY <1>1, <2>1 DEF ShownInv
  <2>6. \A q \in Pod : Live(q)' => Live(q) /\ api'[q] = api[q]
    BY <2>3, <2>4 DEF Live
  <2> QED
    BY <2>4, <2>5, <2>6
<1>4. CASE PodReleased(p)
  <2>1. api' = api /\ shown' = [shown EXCEPT ![p] = @ \ Active(p)] /\ \E v \in shown[p] : v \notin Active(p)
    BY <1>4 DEF PodReleased
  <2>2. /\ shown'[p] = shown[p] \ Active(p) /\ \A q \in Pod \ {p} : shown'[q] = shown[q]
        /\ shown' \in [Pod -> SUBSET Versions]
    BY <1>1, <2>1
  <2>3. ~Live(p)
    BY <1>1, <2>1 DEF ShownInv
  <2>4. ShownInv'
    BY <1>1, <2>1, <2>2, <2>3 DEF ShownInv, Active, Live, Bound
  <2>5. \A q \in Pod : Active(q)' # {} => Active(q) # {}
    BY <2>2 DEF Active
  <2> QED
    BY <1>1, <2>1, <2>2, <2>4, <2>5 DEF Live
<1>5. CASE PodDeleted(p) \/ PodDeletionHandled(p)
  <2>1. /\ \E st \in {"gone", "handled"} : api' = [api EXCEPT ![p].st = st]
        /\ shown' = shown \/ shown' = [shown EXCEPT ![p] = {}]
    BY <1>5 DEF PodDeleted, PodDeletionHandled
  <2>2. PICK st \in {"gone", "handled"} : api' = [api EXCEPT ![p].st = st]
    BY <2>1
  <2>3. /\ api' \in [Pod -> ApiPods]
        /\ api'[p].st = st /\ api'[p].node = api[p].node /\ api'[p].rv = api[p].rv
        /\ \A q \in Pod \ {p} : api'[q] = api[q]
    BY <1>1, <2>2 DEF ApiPods
  <2>4. /\ shown' \in [Pod -> SUBSET Versions] /\ \A q \in Pod : shown'[q] \subseteq shown[q]
        /\ \A q \in Pod \ {p} : shown'[q] = shown[q]
    BY <1>1, <2>1
  <2>5. ASSUME NEW q \in Pod
        PROVE  /\ api'[q].st = "completed" => api'[q].node # NoNode
               /\ api'[q].node = NoNode => shown'[q] = {}
               /\ api'[q].st = "live" /\ api'[q].node # NoNode => VersionOf(api'[q]) \in shown'[q]
               /\ api'[q].st = "live" => \A w \in shown'[q] : w.st = "live"
    <3>1. CASE q = p
      BY <1>1, <2>2, <2>3, <2>4, <3>1 DEF ShownInv, Bound
    <3>2. CASE q # p
      BY <1>1, <2>3, <2>4, <3>2 DEF ShownInv, Live, Bound, Active
    <3> QED
      BY <3>1, <3>2
  <2>6. ShownInv'
    BY <2>5 DEF ShownInv, Live, Bound, Active
  <2>7. \A q \in Pod : Active(q)' # {} => Active(q) # {}
    BY <2>4 DEF Active
  <2>8. \A q \in Pod : Live(q)' => Live(q) /\ api'[q] = api[q]
    BY <2>2, <2>3 DEF Live
  <2>9. \A q \in Pod : api[q].rv <= api'[q].rv
    BY <1>1, <2>3
  <2> QED
    BY <2>3, <2>4, <2>6, <2>7, <2>8, <2>9
<1> QED
  BY <1>2, <1>3, <1>4, <1>5 DEF PodMoves

\* Pods are synced, released, completed and deleted; a release takes the pod out
\* of podMaps.
LEMMA PodsKeep ==
  ASSUME BInv, NEW p \in Pod, PodMoves(p)
  PROVE  BInv' /\ Fixed
<1>1. /\ TypeOK /\ api \in [Pod -> ApiPods] /\ binder \in [Binder -> Handlers]
      /\ \A t \in Binder : HandlerOK(binder[t])
  BY DEF BInv, TypeInv
<1>2. UNCHANGED <<binder, envVars>>
  BY DEF PodMoves, PodSynced, PodReleased, PodCompletes, PodDeleted, PodDeletionHandled
<1>3. /\ api' \in [Pod -> ApiPods] /\ shown' \in [Pod -> SUBSET Versions] /\ ShownInv'
      /\ \A q \in Pod : /\ api[q].rv <= api'[q].rv
                        /\ Live(q)' => Live(q) /\ api'[q] = api[q]
                        /\ Active(q)' # {} => Active(q) # {}
  BY PodsMove
<1>4. /\ TypeOK' /\ DOMAIN nodeCache' = DOMAIN nodeCache
      /\ podMaps \ {p} \subseteq podMaps'
      /\ podMaps \subseteq podMaps' \/ (~Live(p)' /\ Active(p)' = {})
  <2>1. CASE PodSynced(p)
    <3>1. PICK v \in Active(p) : AddPod(p, api[p].node, v.board)
      BY <2>1 DEF PodSynced
    <3>2. podMaps \subseteq podMaps'
      BY <3>1 DEF AddPod
    <3> QED
      BY <1>1, <3>1, <3>2, PodCallType
  <2>2. CASE PodCompletes(p) \/ PodDeleted(p)
    BY <1>1, <2>2 DEF PodCompletes, PodDeleted, cacheVars, TypeOK
  <2>3. CASE PodReleased(p)
    <3>1. PICK v \in shown[p] \ Active(p) : DeletePod(p, api[p].node, v.board)
      BY <2>3 DEF PodReleased
    <3>2. ~Live(p)'
      BY <2>3, <3>1 DEF PodReleased, BInv, ShownInv, Live
    <3>3. shown'[p] = shown[p] \ Active(p)
      BY <2>3 DEF PodReleased, BInv, TypeInv
    <3>4. Active(p)' = {}
      BY <3>3 DEF Active
    <3> QED
      BY <1>1, <3>1, <3>2, <3>4, PodCallType
  <2>4. CASE PodDeletionHandled(p)
    <3>1. DeletePod(p, api[p].node, api[p].board) /\ api'[p].st = "handled" /\ shown'[p] = {}
      BY <1>1, <2>4 DEF PodDeletionHandled, BInv, TypeInv
    <3>2. ~Live(p)' /\ Active(p)' = {}
      BY <3>1 DEF Live, Active
    <3> QED
      BY <1>1, <3>1, <3>2, PodCallType
  <2> QED
    BY <2>1, <2>2, <2>3, <2>4 DEF PodMoves
<1>5. TypeInv'
  BY <1>2, <1>3, <1>4 DEF BInv, TypeInv, envVars
<1>6. KnownInv'
  <2> SUFFICES ASSUME NEW q \in Pod,
                      \/ Active(q)' # {}
                      \/ Live(q)' /\ \E t \in Binder : Assumed(binder[t]) /\ binder[t].pod = q
               PROVE  q \in podMaps'
    BY <1>2 DEF KnownInv, Assumed
  <2>1. q \in podMaps
    BY <1>3 DEF BInv, KnownInv
  <2> QED
    BY <1>4, <2>1
<1>7. OneAssumed'
  <2> SUFFICES ASSUME NEW t \in Binder, NEW u \in Binder, t # u,
                      Assumed(binder[t]), Assumed(binder[u]), binder[t].pod = binder[u].pod
               PROVE  ~Live(binder[t].pod)'
    BY <1>2 DEF OneAssumed, Assumed
  <2>1. ~Live(binder[t].pod) /\ binder[t].pod \in Pod
    BY <1>1 DEF BInv, OneAssumed, HandlerOK, Assumed
  <2> QED
    BY <1>2, <1>3, <2>1 DEF Live
<1>8. BoundHasBoard'
  BY <1>3 DEF BInv, BoundHasBoard, Bound
<1>9. ASSUME NEW t \in Binder
      PROVE  HandlerOK(binder[t])'
  <2> DEFINE b == binder[t]
  <2>1. b \in Handlers /\ HandlerOK(b) /\ binder'[t] = b
    BY <1>1, <1>2
  <2>2. b.pc # "idle" /\ b.ni = Current => b.node \in DOMAIN nodeCache'
    BY <1>4, <2>1 DEF HandlerOK, Cached
  <2> HIDE DEF b
  <2>3. ASSUME NEW d, d = b PROVE HandlerOK(d)'
    BY <1>1, <1>3, <2>1, <2>2, <2>3, Undisturbed
  <2> QED
    BY <2>1, <2>3 DEF HandlerOK
<1>10. Fixed
  BY <1>3 DEF Fixed
<1> QED
  BY <1>3, <1>5, <1>6, <1>7, <1>8, <1>9, <1>10 DEF BInv

-----------------------------------------------------------------------------
(***************************************************************************)
(* The theorems.                                                           *)
(***************************************************************************)

\* Whatever annotations an earlier process left, no pod is bound at the start.
LEMMA BindInit == ASSUME Init PROVE BInv
<1>1. TypeOK
  BY DEF Init, CacheInit, TypeOK
<1>2. /\ api \in [Pod -> ApiPods] /\ \A p \in Pod : ~Bound(p) /\ api[p].st = "live"
      /\ shown \in [Pod -> SUBSET Versions] /\ \A p \in Pod : shown[p] = {}
  <2>1. 0 \in Nat /\ Leftover \subseteq Annotation
    BY LeftoverAssumption
  <2> QED
    BY <2>1 DEF Init, ApiPods, Bound
<1>3. binder = [t \in Binder |-> Idle] /\ binder \in [Binder -> Handlers]
  BY IdleOK DEF Init
<1>4. calls \in [Pod -> 0..MaxCalls] /\ capacity \in [Node -> Totals] /\ updates \in 0..MaxNodeUpdates
  <2>1. 0 \in 0..MaxCalls /\ 0 \in 0..MaxNodeUpdates
    BY BoundsAssumption
  <2> QED
    BY <2>1 DEF Init
<1>5. \A t \in Binder : HandlerOK(binder[t]) /\ ~Assumed(binder[t])
  BY <1>3, IdleOK DEF Assumed
<1>6. ShownInv /\ KnownInv /\ OneAssumed /\ BoundHasBoard
  BY <1>2, <1>5 DEF ShownInv, KnownInv, OneAssumed, BoundHasBoard, Active
<1> QED
  BY <1>1, <1>2, <1>3, <1>4, <1>5, <1>6 DEF BInv, TypeInv

\* Every step keeps the invariant, and the place of every live bound pod.
LEMMA BindStep ==
  ASSUME BInv, [BindNext]_vars
  PROVE  BInv' /\ Fixed
<1>1. ASSUME NEW t \in Binder, NEW p \in Pod, NEW n \in Node, Start(t, p, n)
      PROVE  BInv' /\ Fixed
  BY <1>1, StartKeeps DEF Start, Fixed, podVars
<1>2. ASSUME NEW t \in Binder, BinderStep(t)
      PROVE  BInv' /\ Fixed
  <2>1. BInv' /\ \A q \in Pod : Live(q) /\ Bound(q) => api'[q] = api[q]
    BY <1>2, BinderKeeps
  <2>2. \A q \in Pod : Live(q)' => Live(q)
    BY <1>2, BinderEndsNone DEF Live
  <2> QED
    BY <2>1, <2>2 DEF Fixed
<1>3. ASSUME NEW n \in Node,
             NodeAdded(n) \/ NodeDeleted(n) \/ \E total \in Totals : NodeUpdated(n, total)
      PROVE  BInv' /\ Fixed
  BY <1>3, NodesKeep DEF Fixed
<1>4. ASSUME NEW p \in Pod, PodMoves(p)
      PROVE  BInv' /\ Fixed
  BY <1>4, PodsKeep
<1>5. CASE UNCHANGED vars
  <2>1. UNCHANGED <<nodeCache, podMaps, assumePods, releasedPod, api, shown, binder, envVars>>
    BY <1>5 DEF vars, cacheVars, podVars
  <2>2. TypeInv' /\ ShownInv' /\ KnownInv' /\ OneAssumed' /\ BoundHasBoard'
    BY <2>1 DEF BInv, TypeInv, TypeOK, ShownInv, KnownInv, OneAssumed, BoundHasBoard, Active,
                Bound, Live, Assumed, envVars
  <2>3. \A t \in Binder : HandlerOK(binder[t])'
    BY <2>1 DEF BInv, HandlerOK, Cached, Bound, Live
  <2> QED
    BY <2>1, <2>2, <2>3 DEF BInv, Fixed
<1> QED
  BY <1>1, <1>2, <1>3, <1>4, <1>5 DEF BindNext, PodMoves

\* The inductive invariant of Bind: the theorems below follow from it.
THEOREM BInvHolds == BindSpec => []BInv
<1>1. Init => BInv
  BY BindInit
<1>2. BInv /\ [BindNext]_vars => BInv'
  BY BindStep
<1> QED
  BY <1>1, <1>2, PTL DEF BindSpec

\* The handlers of Bind (manager.go:143-204), the cache and the pods have their
\* types; a handler is always somewhere in the function, in one of its rounds.
THEOREM BindTypeHolds == BindSpec => []BindTypeOK
<1>1. BInv => BindTypeOK
  <2> SUFFICES ASSUME BInv PROVE BindTypeOK
    OBVIOUS
  <2>1. ASSUME NEW t \in Binder
        PROVE  /\ binder[t].pc \in Places /\ binder[t].attempt \in 0..Attempts
               /\ Busy(t) => binder[t].pod \in Pod /\ binder[t].node \in Node
               /\ Committed(t) => binder[t].board \in Board
    BY DEF BInv, TypeInv, Handlers, HandlerOK, At, Busy, Committed
  <2> QED
    BY <2>1 DEF BInv, TypeInv, BindTypeOK, Places
<1> QED
  BY <1>1, BInvHolds, PTL

\* A live bound pod has a board in its annotation (manager.go:194-199, which the
\* node agent relies on), whatever calls fail or lose their reply and whoever asks
\* for the pod again.
THEOREM BoundHasBoardHolds == BindSpec => []BoundHasBoard
<1>1. BInv => BoundHasBoard
  BY DEF BInv
<1> QED
  BY <1>1, BInvHolds, PTL

\* Neither the node nor the board of a bound pod changes while it lives: the
\* UPDATEs (manager.go:172 and 198) come too late for a pod that got bound.
THEOREM BoundStaysHolds == BindSpec => BoundStays
<1>1. BInv /\ [BindNext]_vars
        => [\A p \in Pod : Bound(p) /\ Live(p)' => /\ api'[p].node = api[p].node
                                                   /\ api'[p].board = api[p].board]_vars
  BY BindStep DEF Fixed
<1> QED
  BY <1>1, BInvHolds, PTL DEF BindSpec, BoundStays

\* Two requests for a pod never both write to it (cache.go:276-283 and 290).
THEOREM OneWriterPerPodHolds == BindSpec => []OneWriterPerPod
<1>1. BInv => OneWriterPerPod
  BY DEF BInv, OneAssumed, Assumed, OneWriterPerPod, Committed
<1> QED
  BY <1>1, BInvHolds, PTL

\* A live bound pod is known to the cache (controller.go:268), although Bind may
\* have forgotten it.
THEOREM BoundIsKnownHolds == BindSpec => []BoundIsKnown
<1>1. BInv => BoundIsKnown
  BY DEF BInv, ShownInv, KnownInv, BoundIsKnown
<1> QED
  BY <1>1, BInvHolds, PTL
=============================================================================
