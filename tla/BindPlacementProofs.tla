-------------------------- MODULE BindPlacementProofs --------------------------
(***************************************************************************)
(* What Bind keeps to, and what it promises, where kube-scheduler asks in  *)
(* order: that its calls on the cache are Consistent (ScheduleCache), and  *)
(* that it implements Placement, for every number of handlers, pods,       *)
(* nodes, boards and rounds.                                               *)
(***************************************************************************)
EXTENDS BindProofs

(***************************************************************************)
(* Hypotheses on the requests.  Orderly: kube-scheduler does not bind a    *)
(* pod that is bound, nor one that an earlier request is still at work on  *)
(* (it may, when it has given up on that request).  OneByOne: requests for *)
(* one node do not overlap either, those for different nodes may.          *)
(***************************************************************************)
Orderly == Requests \cap {"bound", "pod"} = {}
OneByOne == Requests = {}

InHand(t, p) == ~At(t, "idle") /\ binder[t].pod = p
InService(t, n) == ~At(t, "idle") /\ binder[t].node = n

\* No annotation of an earlier process names a board.
CleanStart == Leftover \cap Board = {}

(***************************************************************************)
(* The inductive invariant of the contract.                                *)
(***************************************************************************)
StoredAt(n, p) == Cached(n) /\ p \in DOMAIN nodeCache[n].Pods

\* A pod in hand is in one handler's, and not bound unless BIND was answered
\* with an error although it took effect.
HandInv ==
  \A t \in Binder : ~At(t, "idle") =>
    LET b == binder[t] IN
    /\ \A u \in Binder \ {t} : ~InHand(u, b.pod)
    /\ Bound(b.pod) => /\ b.pc \in {"forgetBind", "recover"} /\ b.seen.rv < api[b.pod].rv
                       /\ api[b.pod].node = b.node /\ api[b.pod].board = b.board

\* A bound pod has one board in every version that the lister may show, also when
\* it is completed.
BoardInv ==
  \A p \in Pod : Bound(p) => /\ api[p].board \in Board
                             /\ \A v \in shown[p] : v.board = api[p].board

\* A ledger stores only pods the cache knows, on the node and the board they are
\* bound to, or are to be bound to.
StoredInv ==
  \A n \in Node, p \in Pod : StoredAt(n, p) =>
    LET board == nodeCache[n].Pods[p] IN
    /\ p \in podMaps
    /\ Bound(p) => api[p].node = n /\ api[p].board = board
    /\ \A t \in Binder : InHand(t, p) /\ binder[t].pc \in {"update", "forgetUpdate", "bind", "forgetBind"}
         => binder[t].node = n /\ binder[t].board = board

\* Only a pod that was assumed has a board in its annotation, and a handler that
\* may assume its pod, or has just done so, read it without one.
UnseenInv ==
  /\ \A p \in Pod : p \notin podMaps /\ ~Bound(p) => api[p].board \notin Board
  /\ \A t \in Binder :
       LET b == binder[t] IN
       \/ b.pc \in {"allocate", "assume"} /\ b.pod \notin podMaps
       \/ b.pc \in {"update", "forgetUpdate"}
       => b.seen.board \notin Board

KInv == HandInv /\ BoardInv /\ StoredInv /\ UnseenInv

(***************************************************************************)
(* The inductive invariant of the placement.                               *)
(***************************************************************************)
\* The pods that live on a board of a node, or are charged for one.
OnBoard(n, b, p) ==
  \/ Live(p) /\ api[p].node = n /\ api[p].board = b
  \/ StoredAt(n, p) /\ nodeCache[n].Pods[p] = b

ApartInv ==
  \A n \in Node, b \in Board, p, q \in Pod :
    p # q /\ OnBoard(n, b, p) /\ OnBoard(n, b, q) => Req[p] \cap Req[q] = {}

ChargedInv ==
  \A n \in Node, b \in Board, p \in Pod :
    Cached(n) /\ OnBoard(n, b, p) => Covers(nodeCache[n].Requested, Claim(b, p))

\* A handler works on the ledger in the cache, which no other handler works on.
\* The board it has chosen is free, as long as the ledger is not closed, and its
\* pod is stored there from AssumePod to BIND.
ServiceInv ==
  \A t \in Binder : ~At(t, "idle") =>
    LET b == binder[t]
        ni == nodeCache[b.node]
    IN
    /\ \A u \in Binder \ {t} : ~InService(u, b.node)
    /\ ~Bound(b.pod) /\ b.ni = Current
    /\ b.pc = "assume" /\ Healthy(ni)
         => \A o \in Req[b.pod] : o \notin OrinsOf(ni.Requested, b.board)
    /\ b.pc \in {"update", "bind"} => StoredAt(b.node, b.pod)

PInv == ApartInv /\ ChargedInv /\ ServiceInv

-----------------------------------------------------------------------------
(***************************************************************************)
(* What a call does to the pods of a ledger and to what they are charged.  *)
(***************************************************************************)

\* One node info is replaced.
LEMMA OneLedger ==
  ASSUME NEW n, Cached(n), NEW nj, SetNode(n, nj)
  PROVE  /\ DOMAIN nodeCache' = DOMAIN nodeCache /\ nodeCache'[n] = nj
         /\ \A m \in DOMAIN nodeCache : m # n => nodeCache'[m] = nodeCache[m]
  BY DEF SetNode, Cached

\* deletePod touches one pod, which is gone from the ledger if it is released.
LEMMA DeletePodPods ==
  ASSUME NEW ni \in NodeInfos, NEW p \in Pod, NEW a
  PROVE  LET nj == deletePod(ni, p, a) IN
         /\ nj.Total = ni.Total
         /\ \A q \in Pod : q \in DOMAIN nj.Pods =>
              q \in DOMAIN ni.Pods /\ nj.Pods[q] = ni.Pods[q]
         /\ \A q \in Pod \ {p} : q \in DOMAIN ni.Pods => q \in DOMAIN nj.Pods
         /\ a \in Board /\ ~deletePodErr(ni, p, a) => p \notin DOMAIN nj.Pods
<1>1. CASE a \in Board /\ ~deletePodErr(ni, p, a)
  BY <1>1 DEF deletePod, Released, Restricted
<1>2. CASE ~(a \in Board /\ ~deletePodErr(ni, p, a))
  BY <1>2 DEF deletePod
<1> QED
  BY <1>1, <1>2

\* addPod of a pod that is not stored charges it, and stores it if the node can
\* cover the charge.
LEMMA AddPodPods ==
  ASSUME NEW ni \in NodeInfos, NEW p \in Pod \ DOMAIN ni.Pods, NEW b \in Board
  PROVE  LET nj == addPod(ni, p, b) IN
         /\ nj.Total = ni.Total /\ nj.Requested = Add(ni.Requested, b, Req[p])
         /\ \A q \in Pod \ {p} : /\ q \in DOMAIN nj.Pods <=> q \in DOMAIN ni.Pods
                                 /\ q \in DOMAIN ni.Pods => nj.Pods[q] = ni.Pods[q]
         /\ p \in DOMAIN nj.Pods <=> ~addPodErr(ni, p, b)
         /\ p \in DOMAIN nj.Pods => nj.Pods[p] = b /\ Healthy(nj)
<1> DEFINE nc == Charged(ni, p, b)
           ns == Stored(nc, p, b)
<1>1. Charge(ni, p, b) = nc /\ ~EvictErr(ni, p, b)
  BY DEF Charge, Evicted, EvictErr
<1>2. /\ nc.Pods = ni.Pods /\ nc.Total = ni.Total
      /\ nc.Requested = Add(ni.Requested, b, Req[p])
  BY DEF Charged
<1>3. CASE addPodErr(ni, p, b)
  BY <1>1, <1>2, <1>3 DEF addPod
<1>4. CASE ~addPodErr(ni, p, b)
  <2>1. addPod(ni, p, b) = ns /\ Healthy(nc)
    BY <1>1, <1>4 DEF addPod, addPodErr
  <2>2. /\ ns.Total = nc.Total /\ ns.Requested = nc.Requested
        /\ ns.Pods = [q \in DOMAIN nc.Pods \cup {p} |-> IF q = p THEN b ELSE nc.Pods[q]]
    BY DEF Stored
  <2> HIDE DEF nc, ns
  <2>3. Healthy(ns)
    BY <2>1, <2>2 DEF Healthy
  <2> QED
    BY <1>2, <1>4, <2>1, <2>2, <2>3
<1> QED
  BY <1>3, <1>4

\* What the cache knows of a pod that the caller of a method may rely on.
LEMMA CallKept ==
  ASSUME NEW p \in Pod, NEW n \in Node \cup {NoNode}, NEW a \in Annotation,
         Consistent(p, n, a),
         AddPod(p, n, a) \/ DeletePod(p, n, a) \/ AssumePod(p, n, a) \/ ForgetPod(p, n, a)
  PROVE  [Next]_cacheVars
  BY DEF Next, PodNext

-----------------------------------------------------------------------------
(***************************************************************************)
(* The contract: one handler moves, with its pod p, to c.                  *)
(***************************************************************************)

\* KInv, as far as it is about the pod in the hand of a handler.
KPod(p, c) ==
  /\ c.pc # "idle" /\ Bound(p)
       => /\ c.pc \in {"forgetBind", "recover"} /\ c.seen.rv < api[p].rv
          /\ api[p].node = c.node /\ api[p].board = c.board
  /\ Bound(p) => api[p].board \in Board /\ \A v \in shown[p] : v.board = api[p].board
  /\ \A n \in Node : StoredAt(n, p) =>
       LET board == nodeCache[n].Pods[p] IN
       /\ p \in podMaps
       /\ Bound(p) => api[p].node = n /\ api[p].board = board
       /\ c.pc \in {"update", "forgetUpdate", "bind", "forgetBind"}
            => c.node = n /\ c.board = board
  /\ p \notin podMaps /\ ~Bound(p) => api[p].board \notin Board
  /\ \/ c.pc \in {"allocate", "assume"} /\ p \notin podMaps
     \/ c.pc \in {"update", "forgetUpdate"}
     => c.seen.board \notin Board

\* It is what KInv says of a handler at work.
LEMMA KPodOfK ==
  ASSUME BInv, KInv, NEW t \in Binder, NEW b, b = binder[t], b.pc # "idle"
  PROVE  KPod(b.pod, b)
<1>1. b.pod \in Pod /\ InHand(t, b.pod) /\ ~At(t, "idle")
  BY DEF BInv, HandlerOK, InHand, At
<1>2. Bound(b.pod) => /\ b.pc \in {"forgetBind", "recover"} /\ b.seen.rv < api[b.pod].rv
                      /\ api[b.pod].node = b.node /\ api[b.pod].board = b.board
                      /\ api[b.pod].board \in Board
                      /\ \A v \in shown[b.pod] : v.board = api[b.pod].board
  BY <1>1 DEF KInv, HandInv, BoardInv
<1>3. \A n \in Node : StoredAt(n, b.pod) =>
        LET board == nodeCache[n].Pods[b.pod] IN
        /\ b.pod \in podMaps
        /\ Bound(b.pod) => api[b.pod].node = n /\ api[b.pod].board = board
        /\ b.pc \in {"update", "forgetUpdate", "bind", "forgetBind"}
             => b.node = n /\ b.board = board
  BY <1>1 DEF KInv, StoredInv
<1>4. /\ b.pod \notin podMaps /\ ~Bound(b.pod) => api[b.pod].board \notin Board
      /\ \/ b.pc \in {"allocate", "assume"} /\ b.pod \notin podMaps
         \/ b.pc \in {"update", "forgetUpdate"}
         => b.seen.board \notin Board
  BY <1>1 DEF KInv, UnseenInv
<1> QED
  BY <1>2, <1>3, <1>4 DEF KPod

\* The pods of the other handlers are left alone.
LEMMA KMoves ==
  ASSUME BInv, KInv, NEW t \in Binder, NEW p \in Pod, p = binder[t].pod, ~At(t, "idle"),
         NEW c \in Handlers, Continue(t, c), c.pc # "idle" => c.pod = p,
         podMaps \subseteq podMaps',
         \A q \in Pod \ {p} :
           /\ api'[q] = api[q] /\ shown'[q] = shown[q]
           /\ \A n \in Node : StoredAt(n, q)' => /\ StoredAt(n, q)
                                                /\ nodeCache'[n].Pods[q] = nodeCache[n].Pods[q],
         KPod(p, c)'
  PROVE  KInv'
<1>1. /\ binder \in [Binder -> Handlers] /\ \A u \in Binder : HandlerOK(binder[u])
      /\ HandInv /\ BoardInv /\ StoredInv /\ UnseenInv
  BY DEF BInv, TypeInv, KInv
<1>2. /\ binder' \in [Binder -> Handlers] /\ binder'[t] = c
      /\ \A u \in Binder \ {t} : binder'[u] = binder[u]
  BY <1>1 DEF Continue
<1>3. \A u \in Binder \ {t} : binder[u].pc # "idle" => binder[u].pod \in Pod \ {p}
  BY <1>1 DEF HandInv, InHand, At, HandlerOK
<1>4. \A u \in Binder, q \in Pod : InHand(u, q)' => InHand(u, q)
  BY <1>2 DEF InHand, At
<1>5. HandInv'
  <2> SUFFICES ASSUME NEW u \in Binder, binder'[u].pc # "idle"
               PROVE  /\ \A v \in Binder \ {u} : ~(binder'[v].pc # "idle" /\ binder'[v].pod = binder'[u].pod)
                      /\ api'[binder'[u].pod].node # NoNode =>
                           /\ binder'[u].pc \in {"forgetBind", "recover"}
                           /\ binder'[u].seen.rv < api'[binder'[u].pod].rv
                           /\ api'[binder'[u].pod].node = binder'[u].node
                           /\ api'[binder'[u].pod].board = binder'[u].board
    BY DEF HandInv, InHand, At, Bound
  <2>1. binder'[u].pod = binder[u].pod /\ binder[u].pc # "idle" /\ binder[u].pod \in Pod
    <3>1. CASE u = t
      BY <1>2, <3>1 DEF At
    <3>2. CASE u # t
      BY <1>2, <1>3, <3>2
    <3> QED
      BY <3>1, <3>2
  <2>2. \A v \in Binder \ {u} : ~(binder'[v].pc # "idle" /\ binder'[v].pod = binder'[u].pod)
    <3>1. \A v \in Binder \ {u} : ~(binder[v].pc # "idle" /\ binder[v].pod = binder[u].pod)
      BY <1>1, <2>1 DEF HandInv, InHand, At
    <3> QED
      BY <1>4, <2>1, <3>1 DEF InHand, At
  <2>3. CASE u = t
    BY <1>2, <2>2, <2>3 DEF KPod, Bound
  <2>4. CASE u # t
    <3>1. binder'[u] = binder[u] /\ api'[binder[u].pod] = api[binder[u].pod]
      BY <1>2, <1>3, <2>1, <2>4
    <3> QED
      BY <1>1, <2>1, <2>2, <3>1 DEF HandInv, At, Bound
  <2> QED
    BY <2>3, <2>4
<1>6. StoredInv'
  <2> SUFFICES ASSUME NEW n \in Node, NEW q \in Pod, StoredAt(n, q)'
               PROVE  /\ q \in podMaps'
                      /\ Bound(q)' => api'[q].node = n /\ api'[q].board = nodeCache'[n].Pods[q]
                      /\ \A u \in Binder :
                           /\ InHand(u, q)'
                           /\ binder'[u].pc \in {"update", "forgetUpdate", "bind", "forgetBind"}
                           => binder'[u].node = n /\ binder'[u].board = nodeCache'[n].Pods[q]
    BY DEF StoredInv
  <2>1. CASE q = p
    <3>1. \A u \in Binder : InHand(u, p)' => u = t
      BY <1>3, <1>4 DEF InHand, At
    <3> QED
      BY <1>2, <2>1, <3>1 DEF KPod
  <2>2. CASE q # p
    <3>1. /\ StoredAt(n, q) /\ nodeCache'[n].Pods[q] = nodeCache[n].Pods[q]
          /\ api'[q] = api[q]
      BY <2>2
    <3>2. \A u \in Binder : InHand(u, q)' => InHand(u, q) /\ binder'[u] = binder[u]
      BY <1>2, <1>4, <2>2 DEF InHand, At
    <3> QED
      BY <1>1, <3>1, <3>2 DEF StoredInv, Bound
  <2> QED
    BY <2>1, <2>2
<1>7. UnseenInv'
  <2>1. ASSUME NEW q \in Pod, q \notin podMaps', ~Bound(q)'
        PROVE  api'[q].board \notin Board
    BY <1>1, <2>1 DEF UnseenInv, KPod, Bound
  <2>2. ASSUME NEW u \in Binder,
               \/ binder'[u].pc \in {"allocate", "assume"} /\ binder'[u].pod \notin podMaps'
               \/ binder'[u].pc \in {"update", "forgetUpdate"}
        PROVE  binder'[u].seen.board \notin Board
    <3>1. CASE u = t
      BY <1>2, <2>2, <3>1 DEF KPod
    <3>2. CASE u # t
      BY <1>1, <1>2, <2>2, <3>2 DEF UnseenInv
    <3> QED
      BY <3>1, <3>2
  <2> QED
    BY <2>1, <2>2 DEF UnseenInv
<1>8. BoardInv'
  BY <1>1 DEF BoardInv, KPod, Bound
<1> QED
  BY <1>5, <1>6, <1>7, <1>8 DEF KInv

\* The pods of the ledgers after deletePod.
LEMMA ReleaseFrame ==
  ASSUME TypeOK, NEW p \in Pod, NEW n, NEW a, DeletePod(p, n, a) \/ ForgetPod(p, n, a)
  PROVE  /\ DOMAIN nodeCache' = DOMAIN nodeCache
         /\ \A m \in Node, q \in Pod :
              /\ StoredAt(m, q)' => /\ StoredAt(m, q)
                                    /\ nodeCache'[m].Pods[q] = nodeCache[m].Pods[q]
              /\ StoredAt(m, q) /\ q # p => StoredAt(m, q)'
<1>1. CASE UNCHANGED nodeCache
  BY <1>1 DEF StoredAt, Cached
<1>2. CASE Cached(n) /\ SetNode(n, deletePod(nodeCache[n], p, a))
  <2>1. nodeCache[n] \in NodeInfos
    BY <1>2 DEF TypeOK, Cached
  <2>2. PICK nj : nj = deletePod(nodeCache[n], p, a)
    OBVIOUS
  <2>3. /\ DOMAIN nodeCache' = DOMAIN nodeCache /\ nodeCache'[n] = nj
        /\ \A m \in DOMAIN nodeCache : m # n => nodeCache'[m] = nodeCache[m]
    BY <1>2, <2>2, OneLedger
  <2>4. /\ \A q \in Pod : q \in DOMAIN nj.Pods =>
             q \in DOMAIN nodeCache[n].Pods /\ nj.Pods[q] = nodeCache[n].Pods[q]
        /\ \A q \in Pod \ {p} : q \in DOMAIN nodeCache[n].Pods => q \in DOMAIN nj.Pods
    BY <2>1, <2>2, DeletePodPods
  <2> QED
    BY <2>3, <2>4 DEF StoredAt, Cached
<1> QED
  BY <1>1, <1>2 DEF DeletePod, ForgetPod, Ignored

\* The pods of the ledgers after AssumePod of a pod that none stores.
LEMMA AssumeFrame ==
  ASSUME TypeOK, NEW p \in Pod, NEW n \in Node, NEW b \in Board, AssumePod(p, n, b),
         \A m \in Node : ~StoredAt(m, p)
  PROVE  /\ podMaps \subseteq podMaps' /\ DOMAIN nodeCache' = DOMAIN nodeCache
         /\ \A m \in Node, q \in Pod :
              /\ StoredAt(m, q)' /\ q # p => /\ StoredAt(m, q)
                                             /\ nodeCache'[m].Pods[q] = nodeCache[m].Pods[q]
              /\ StoredAt(m, q) => StoredAt(m, q)'
         /\ \A m \in Node : StoredAt(m, p)' => m = n /\ nodeCache'[m].Pods[p] = b
                                               /\ p \in podMaps' /\ ~AssumePodErr(p, n, b)
         /\ ~AssumePodErr(p, n, b) => StoredAt(n, p)' /\ p \in podMaps'
<1>1. CASE ~Cached(n) \/ p \in podMaps
  BY <1>1 DEF AssumePod, AssumePodErr, StoredAt, Cached
<1>2. CASE Cached(n) /\ p \notin podMaps
  <2>1. /\ nodeCache[n] \in NodeInfos /\ p \notin DOMAIN nodeCache[n].Pods
        /\ SetNode(n, addPod(nodeCache[n], p, b))
        /\ AssumePodErr(p, n, b) <=> addPodErr(nodeCache[n], p, b)
    BY <1>2 DEF TypeOK, Cached, StoredAt, AssumePod, AssumePodErr
  <2>2. podMaps' = IF AssumePodErr(p, n, b) THEN podMaps ELSE podMaps \cup {p}
    BY DEF AssumePod
  <2>3. PICK nj : nj = addPod(nodeCache[n], p, b)
    OBVIOUS
  <2>4. /\ DOMAIN nodeCache' = DOMAIN nodeCache /\ nodeCache'[n] = nj
        /\ \A m \in DOMAIN nodeCache : m # n => nodeCache'[m] = nodeCache[m]
    BY <1>2, <2>1, <2>3, OneLedger
  <2>5. /\ \A q \in Pod \ {p} :
             /\ q \in DOMAIN nj.Pods <=> q \in DOMAIN nodeCache[n].Pods
             /\ q \in DOMAIN nodeCache[n].Pods => nj.Pods[q] = nodeCache[n].Pods[q]
        /\ p \in DOMAIN nj.Pods <=> ~addPodErr(nodeCache[n], p, b)
        /\ p \in DOMAIN nj.Pods => nj.Pods[p] = b
    BY <2>1, <2>3, AddPodPods
  <2> QED
    BY <1>2, <2>1, <2>2, <2>4, <2>5 DEF StoredAt, Cached
<1> QED
  BY <1>1, <1>2

-----------------------------------------------------------------------------
(***************************************************************************)
(* The calls of a handler.                                                 *)
(***************************************************************************)

\* retry.Do, after a call that left the pod unbound.
LEMMA RetryK ==
  ASSUME BInv, KInv, NEW t \in Binder, NEW p \in Pod, p = binder[t].pod, ~At(t, "idle"),
         Retry(t), podMaps \subseteq podMaps',
         \A q \in Pod \ {p} :
           /\ api'[q] = api[q] /\ shown'[q] = shown[q]
           /\ \A n \in Node : StoredAt(n, q)' => /\ StoredAt(n, q)
                                                /\ nodeCache'[n].Pods[q] = nodeCache[n].Pods[q],
         KPod(p, Idle)', ~Bound(p)'
  PROVE  KInv'
<1>1. PICK b : b = binder[t]
  OBVIOUS
<1>2. b \in Handlers /\ b.pod = p
  BY <1>1 DEF BInv, TypeInv
<1>3. CASE b.attempt < Attempts
  <2>1. PICK c : c = [b EXCEPT !.pc = "get", !.attempt = @ + 1]
    OBVIOUS
  <2>2. c \in Handlers /\ c.pc = "get" /\ c.pod = p
    BY <1>2, <1>3, <2>1, NextPlace
  <2>3. Continue(t, c)
    BY <1>1, <1>3, <2>1 DEF Retry
  <2>4. KPod(p, c)'
    BY <2>2 DEF KPod
  <2> QED
    BY <2>2, <2>3, <2>4, KMoves
<1>4. CASE ~(b.attempt < Attempts)
  <2>1. Continue(t, Idle)
    BY <1>1, <1>4 DEF Retry
  <2> QED
    BY <2>1, IdleOK, KMoves
<1> QED
  BY <1>3, <1>4

\* What a handler at work knows; it is not bound but where BIND may have failed.
LEMMA AtWorkK ==
  ASSUME BInv, KInv, NEW t \in Binder, NEW b, b = binder[t], b.pc # "idle"
  PROVE  /\ ~At(t, "idle") /\ b \in Handlers /\ HandlerOK(b) /\ KPod(b.pod, b)
         /\ b.pod \in Pod /\ b.node \in Node /\ api[b.pod] \in ApiPods
         /\ b.pc \notin {"forgetBind", "recover"} => ~Bound(b.pod)
<1>1. ~At(t, "idle")
  BY DEF At
<1>2. KPod(b.pod, b)
  BY KPodOfK
<1> QED
  BY <1>1, <1>2, AtWork DEF KPod

\* GET and the choice of a board leave pods and ledgers alone.
LEMMA ReadK ==
  ASSUME BInv, KInv, NEW t \in Binder, GetPod(t) \/ AllocateBoard(t)
  PROVE  KInv' /\ UNCHANGED cacheVars
<1>1. PICK b : b = binder[t]
  OBVIOUS
<1>2. PICK p : p = b.pod
  OBVIOUS
<1>3. b.pc \in {"get", "allocate"} /\ UNCHANGED <<cacheVars, api, shown, envVars>>
  BY <1>1 DEF GetPod, AllocateBoard, At, podVars
<1>4. /\ ~At(t, "idle") /\ b \in Handlers /\ p \in Pod /\ KPod(p, b) /\ ~Bound(p)
      /\ api[p] \in ApiPods
  BY <1>1, <1>2, <1>3, AtWorkK
<1>5. /\ nodeCache' = nodeCache /\ podMaps' = podMaps /\ api' = api /\ shown' = shown
      /\ \A q \in Pod, n \in Node : StoredAt(n, q)' <=> StoredAt(n, q)
  BY <1>3 DEF cacheVars, StoredAt, Cached
<1>6. ~Bound(p)'
  BY <1>4, <1>5 DEF Bound
<1>7. CASE Retry(t)
  <2>1. KPod(p, Idle)'
    BY <1>4, <1>5, <1>6, IdleOK DEF KPod, Bound
  <2> QED
    BY <1>1, <1>2, <1>3, <1>4, <1>5, <1>6, <1>7, <2>1, RetryK
<1>8. ASSUME NEW c \in Handlers, Continue(t, c), c.pod = p, c.pc \in {"allocate", "assume"},
             p \notin podMaps => c.seen.board \notin Board
      PROVE  KInv'
  <2>1. KPod(p, c)'
    BY <1>4, <1>5, <1>6, <1>8 DEF KPod, Bound
  <2> QED
    BY <1>1, <1>2, <1>4, <1>5, <1>8, <2>1, KMoves
<1>9. CASE GetPod(t) /\ ~Retry(t)
  <2>1. PICK r : r = [board |-> api[p].board, rv |-> api[p].rv]
    OBVIOUS
  <2>2. r \in [board : Annotation, rv : Nat] /\ r.board = api[p].board
    BY <1>4, <2>1 DEF ApiPods
  <2>3. PICK c : c = [b EXCEPT !.pc = "allocate", !.seen = r]
    OBVIOUS
  <2>4. c \in Handlers /\ c.pc = "allocate" /\ c.pod = p /\ c.seen = r
    BY <1>2, <1>4, <2>2, <2>3 DEF Handlers, Places
  <2>5. Continue(t, c)
    BY <1>1, <1>2, <1>9, <2>1, <2>3 DEF GetPod
  <2>6. p \notin podMaps => c.seen.board \notin Board
    BY <1>4, <2>2, <2>4 DEF KPod
  <2> QED
    BY <1>3, <1>8, <2>4, <2>5, <2>6
<1>10. CASE AllocateBoard(t) /\ ~Retry(t)
  <2>1. PICK board : Continue(t, [b EXCEPT !.pc = "assume", !.board = board])
    BY <1>1, <1>10 DEF AllocateBoard
  <2>2. PICK c : c = [b EXCEPT !.pc = "assume", !.board = board]
    OBVIOUS
  <2>3. c.pc = "assume" /\ c.pod = p /\ c.seen = b.seen /\ Continue(t, c)
    BY <1>2, <1>4, <2>1, <2>2 DEF Handlers
  <2>4. c \in Handlers
    <3>1. BInv'
      BY <1>10, AllocateKeeps
    <3>2. binder'[t] = c
      BY <2>3 DEF Continue, BInv, TypeInv
    <3> QED
      BY <3>1, <3>2 DEF BInv, TypeInv
  <2>5. p \notin podMaps => c.seen.board \notin Board
    <3>1. b.pc = "allocate"
      BY <1>1, <1>10 DEF AllocateBoard, At
    <3> QED
      BY <1>4, <2>3, <3>1 DEF KPod
  <2> QED
    BY <1>3, <1>8, <2>3, <2>4, <2>5
<1> QED
  BY <1>3, <1>7, <1>9, <1>10

\* AssumePod is called for a pod that no ledger stores, or does nothing.
LEMMA AssumeK ==
  ASSUME BInv, KInv, NEW t \in Binder, Assume(t)
  PROVE  KInv' /\ [Next]_cacheVars
<1>1. PICK b : b = binder[t]
  OBVIOUS
<1>2. PICK p : p = b.pod
  OBVIOUS
<1>3. /\ b.pc = "assume" /\ UNCHANGED <<api, shown, envVars>> /\ AssumePod(p, b.node, b.board)
      /\ IF AssumePodErr(p, b.node, b.board) THEN Retry(t)
         ELSE Continue(t, [b EXCEPT !.pc = "update"])
  BY <1>1, <1>2 DEF Assume, At, To, podVars
<1>4. /\ ~At(t, "idle") /\ b \in Handlers /\ HandlerOK(b) /\ p \in Pod /\ b.node \in Node
      /\ KPod(p, b) /\ ~Bound(p) /\ TypeOK
  BY <1>1, <1>2, <1>3, AtWorkK DEF BInv, TypeInv
<1>5. b.board \in Board
  BY <1>3, <1>4 DEF HandlerOK
<1>6. api' = api /\ shown' = shown /\ ~Bound(p)'
  BY <1>3, <1>4 DEF Bound
<1>7. CASE p \in podMaps
  <2>1. /\ UNCHANGED cacheVars /\ nodeCache' = nodeCache /\ podMaps' = podMaps /\ Retry(t)
    BY <1>3, <1>7 DEF AssumePod, AssumePodErr, cacheVars
  <2>2. \A q \in Pod, n \in Node : StoredAt(n, q)' <=> StoredAt(n, q)
    BY <2>1 DEF StoredAt, Cached
  <2>3. KPod(p, Idle)'
    BY <1>4, <1>6, <2>1, <2>2, IdleOK DEF KPod, Bound
  <2>4. KInv'
    BY <1>1, <1>2, <1>4, <1>6, <2>1, <2>2, <2>3, RetryK
  <2> QED
    BY <2>1, <2>4
<1>8. CASE p \notin podMaps
  <2>1. \A m \in Node : ~StoredAt(m, p)
    BY <1>4, <1>8 DEF KPod
  <2>2. Consistent(p, b.node, b.board) /\ b.board \in Annotation
    BY <1>4, <1>5, <2>1 DEF Consistent, StoredAt, Annotation
  <2>3. [Next]_cacheVars
    BY <1>3, <1>4, <2>2, CallKept
  <2>4. /\ podMaps \subseteq podMaps'
        /\ \A m \in Node, q \in Pod :
             StoredAt(m, q)' /\ q # p => /\ StoredAt(m, q)
                                         /\ nodeCache'[m].Pods[q] = nodeCache[m].Pods[q]
        /\ \A m \in Node :
             StoredAt(m, p)' => /\ m = b.node /\ nodeCache'[m].Pods[p] = b.board
                                /\ p \in podMaps' /\ ~AssumePodErr(p, b.node, b.board)
        /\ ~AssumePodErr(p, b.node, b.board) => StoredAt(b.node, p)' /\ p \in podMaps'
    BY <1>3, <1>4, <1>5, <2>1, AssumeFrame
  <2>5. api'[p].board \notin Board /\ b.seen.board \notin Board
    BY <1>3, <1>4, <1>6, <1>8 DEF KPod
  <2>6. CASE AssumePodErr(p, b.node, b.board)
    <3>1. \A m \in Node : ~StoredAt(m, p)'
      BY <2>4, <2>6
    <3>2. KPod(p, Idle)'
      BY <1>6, <2>5, <3>1, IdleOK DEF KPod, Bound
    <3>3. KInv'
      BY <1>1, <1>2, <1>3, <1>4, <1>6, <2>4, <2>6, <3>2, RetryK
    <3> QED
      BY <2>3, <3>3
  <2>7. CASE ~AssumePodErr(p, b.node, b.board)
    <3>1. PICK c : c = [b EXCEPT !.pc = "update"]
      OBVIOUS
    <3>2. /\ c \in Handlers /\ c.pc = "update" /\ c.pod = p /\ c.node = b.node
          /\ c.board = b.board /\ c.seen = b.seen
      BY <1>2, <1>4, <3>1, NextPlace DEF Places
    <3>3. Continue(t, c)
      BY <1>3, <2>7, <3>1
    <3>4. KPod(p, c)'
      BY <1>6, <2>4, <2>5, <3>2 DEF KPod, Bound
    <3>5. KInv'
      BY <1>1, <1>2, <1>4, <1>6, <2>4, <3>2, <3>3, <3>4, KMoves
    <3> QED
      BY <2>3, <3>5
  <2> QED
    BY <2>6, <2>7
<1> QED
  BY <1>7, <1>8

\* ForgetPod is given the board the pod is stored with, or none.
LEMMA ForgetK ==
  ASSUME BInv, KInv, NEW t \in Binder, ForgetUpdate(t) \/ ForgetBind(t)
  PROVE  KInv' /\ [Next]_cacheVars
<1>1. PICK b : b = binder[t]
  OBVIOUS
<1>2. PICK p : p = b.pod
  OBVIOUS
<1>3. PICK a : a = IF b.pc = "forgetUpdate" THEN b.seen.board ELSE b.board
  OBVIOUS
<1>4. /\ UNCHANGED <<api, shown, envVars>> /\ ForgetPod(p, b.node, a)
      /\ \/ b.pc = "forgetUpdate" /\ Retry(t)
         \/ b.pc = "forgetBind" /\ Continue(t, [b EXCEPT !.pc = "recover"])
  BY <1>1, <1>2, <1>3 DEF ForgetUpdate, ForgetBind, At, To, podVars
<1>5. /\ ~At(t, "idle") /\ b \in Handlers /\ HandlerOK(b) /\ p \in Pod /\ b.node \in Node
      /\ KPod(p, b) /\ TypeOK /\ (b.pc = "forgetUpdate" => ~Bound(p))
  BY <1>1, <1>2, <1>4, AtWorkK DEF BInv, TypeInv
<1>6. a \in Annotation /\ (b.pc = "forgetUpdate" => a \notin Board)
  BY <1>3, <1>4, <1>5 DEF Handlers, HandlerOK, KPod, Annotation
<1>7. Consistent(p, b.node, a)
  BY <1>3, <1>4, <1>5, <1>6 DEF Consistent, KPod, StoredAt
<1>8. [Next]_cacheVars
  BY <1>4, <1>5, <1>6, <1>7, CallKept
<1>9. /\ podMaps' = podMaps /\ api' = api /\ shown' = shown
      /\ \A m \in Node, q \in Pod :
           StoredAt(m, q)' => StoredAt(m, q) /\ nodeCache'[m].Pods[q] = nodeCache[m].Pods[q]
  BY <1>4, <1>5, ReleaseFrame DEF ForgetPod
<1>10. CASE b.pc = "forgetUpdate"
  <2>1. KPod(p, Idle)' /\ ~Bound(p)'
    BY <1>5, <1>9, <1>10, IdleOK DEF KPod, Bound
  <2>2. KInv'
    BY <1>1, <1>2, <1>4, <1>5, <1>9, <1>10, <2>1, RetryK
  <2> QED
    BY <1>8, <2>2
<1>11. CASE b.pc = "forgetBind"
  <2>1. PICK c : c = [b EXCEPT !.pc = "recover"]
    OBVIOUS
  <2>2. /\ c \in Handlers /\ c.pc = "recover" /\ c.pod = p /\ c.node = b.node
        /\ c.board = b.board /\ c.seen = b.seen
    BY <1>2, <1>5, <2>1, NextPlace DEF Places
  <2>3. Continue(t, c)
    BY <1>4, <1>11, <2>1
  <2>4. KPod(p, c)'
    BY <1>5, <1>9, <1>11, <2>2 DEF KPod, Bound
  <2>5. KInv'
    BY <1>1, <1>2, <1>5, <1>9, <2>2, <2>3, <2>4, KMoves
  <2> QED
    BY <1>8, <2>5
<1> QED
  BY <1>4, <1>10, <1>11

\* What an UPDATE does to the pods.
LEMMA UpdateWrites ==
  ASSUME BInv, NEW p \in Pod, NEW a, UpdatePod(p, a)
  PROVE  /\ \A q \in Pod \ {p} : api'[q] = api[q] /\ shown'[q] = shown[q]
         /\ api'[p].node = api[p].node /\ api'[p].board = a /\ api'[p].st = api[p].st
<1>1. api \in [Pod -> ApiPods] /\ shown \in [Pod -> SUBSET Versions]
  BY DEF BInv, TypeInv
<1>2. PICK rv : rv = IF api[p].board = a THEN api[p].rv ELSE api[p].rv + 1
  OBVIOUS
<1>3. PICK r : r = [api[p] EXCEPT !.board = a, !.rv = rv]
  OBVIOUS
<1>4. r.node = api[p].node /\ r.board = a /\ r.st = api[p].st
  BY <1>1, <1>3 DEF ApiPods
<1>5. Write(p, r)
  BY <1>2, <1>3 DEF UpdatePod
<1> QED
  BY <1>1, <1>4, <1>5 DEF Write

\* UPDATE, BIND and the removal of the annotation write to the pod in hand only.
LEMMA WriteK ==
  ASSUME BInv, KInv, NEW t \in Binder, Update(t) \/ BindPod(t) \/ Recover(t)
  PROVE  KInv' /\ UNCHANGED cacheVars
<1>1. PICK b : b = binder[t]
  OBVIOUS
<1>2. PICK p : p = b.pod
  OBVIOUS
<1>3. PICK c : c = binder'[t]
  OBVIOUS
<1>4. b.pc \in {"update", "bind", "recover"} /\ UNCHANGED <<cacheVars, envVars>>
  BY <1>1 DEF Update, BindPod, Recover, At
<1>5. /\ ~At(t, "idle") /\ b \in Handlers /\ HandlerOK(b) /\ p \in Pod /\ b.node \in Node
      /\ KPod(p, b) /\ api[p] \in ApiPods /\ api \in [Pod -> ApiPods]
      /\ binder \in [Binder -> Handlers]
      /\ b.pc # "recover" => ~Bound(p)
      /\ ~Bound(p) => shown[p] = {} /\ (Exists(p) => Live(p))
  BY <1>1, <1>2, <1>4, AtWorkK DEF BInv, TypeInv, ShownInv, Exists, Live
<1>6. /\ nodeCache' = nodeCache /\ podMaps' = podMaps
      /\ \A q \in Pod, n \in Node : StoredAt(n, q)' <=> StoredAt(n, q)
  BY <1>4 DEF cacheVars, StoredAt, Cached
<1>7. BInv' /\ (Bound(p) => api' = api /\ shown' = shown)
  <2>1. BInv'
    BY BinderKeeps DEF BinderStep
  <2>2. ASSUME Bound(p) PROVE api' = api /\ shown' = shown
    <3>1. b.pc = "recover" /\ b.seen.rv < api[p].rv /\ b.seen.rv \in Nat
      BY <1>5, <2>2 DEF KPod, Handlers
    <3>2. ~Updatable(p, b.seen.rv)
      BY <3>1 DEF Updatable
    <3>3. Recover(t)
      BY <1>1, <3>1 DEF Update, BindPod, At
    <3> QED
      BY <1>1, <1>2, <3>2, <3>3 DEF Recover, podVars
  <2> QED
    BY <2>1, <2>2
<1>8. /\ c \in Handlers
      /\ \/ c = Idle
         \/ b.pc = "update" /\ c = [b EXCEPT !.pc = "bind"]
         \/ b.pc = "update" /\ c = [b EXCEPT !.pc = "forgetUpdate"]
         \/ b.pc = "bind" /\ c = [b EXCEPT !.pc = "forgetBind"]
      /\ Continue(t, c)
  <2>1. c \in Handlers
    BY <1>3, <1>7 DEF BInv, TypeInv
  <2>2. PICK d : /\ Continue(t, d)
                 /\ \/ d = Idle
                    \/ b.pc = "update" /\ d = [b EXCEPT !.pc = "bind"]
                    \/ b.pc = "update" /\ d = [b EXCEPT !.pc = "forgetUpdate"]
                    \/ b.pc = "bind" /\ d = [b EXCEPT !.pc = "forgetBind"]
    BY <1>1 DEF Update, BindPod, Recover, At, To
  <2>3. c = d
    BY <1>3, <1>5, <2>2 DEF Continue
  <2> QED
    BY <2>1, <2>2, <2>3
<1>9. /\ c.pc # "idle" => c.pod = p /\ c.node = b.node /\ c.board = b.board /\ c.seen = b.seen
      /\ c.pc \in {"idle", "bind", "forgetUpdate", "forgetBind"}
      /\ c.pc \in {"bind", "forgetUpdate"} => b.pc = "update"
      /\ c.pc = "forgetBind" => b.pc = "bind"
  BY <1>2, <1>5, <1>8, IdleOK DEF Handlers
<1>10. /\ \A q \in Pod \ {p} : api'[q] = api[q] /\ shown'[q] = shown[q]
       /\ ~Bound(p) /\ Bound(p)' =>
            /\ b.pc = "bind" /\ api'[p].node = b.node /\ api'[p].board = b.board
            /\ b.board \in Board /\ api'[p].rv = api[p].rv + 1
            /\ \A v \in shown'[p] : v.board = b.board
       /\ ~Bound(p)' => api'[p].board = api[p].board \/ p \in podMaps \/ api'[p].board = NoBoard
  <2>1. CASE UNCHANGED podVars
    BY <2>1 DEF Bound, podVars
  <2>2. CASE b.pc = "update" /\ Exists(p) /\ UpdatePod(p, b.board)
    <3>1. p \in podMaps
      BY <1>1, <1>2, <1>5, <2>2 DEF BInv, KnownInv, Assumed
    <3>2. b.board \in Annotation
      BY <1>5, <2>2 DEF HandlerOK, Annotation
    <3>3. /\ \A q \in Pod \ {p} : api'[q] = api[q] /\ shown'[q] = shown[q]
          /\ api'[p].node = api[p].node
      BY <1>5, <2>2, <3>2, UpdateWrites
    <3> QED
      BY <3>1, <3>3 DEF Bound
  <2>3. CASE b.pc = "recover" /\ UpdatePod(p, NoBoard)
    <3>1. /\ \A q \in Pod \ {p} : api'[q] = api[q] /\ shown'[q] = shown[q]
          /\ api'[p].node = api[p].node /\ api'[p].board = NoBoard
      BY <1>5, <2>3, UpdateWrites
    <3> QED
      BY <3>1 DEF Bound
  <2>4. CASE /\ b.pc = "bind" /\ Live(p)
             /\ Write(p, [api[p] EXCEPT !.node = b.node, !.rv = @ + 1])
    <3>1. api[p].board = b.board /\ b.board \in Board /\ shown[p] = {}
      BY <1>2, <1>5, <2>4 DEF HandlerOK
    <3>2. PICK r : r = [api[p] EXCEPT !.node = b.node, !.rv = @ + 1]
      OBVIOUS
    <3>3. r.node = b.node /\ r.board = b.board /\ r.rv = api[p].rv + 1 /\ r.node # NoNode
      BY <1>5, <3>1, <3>2, NodeAssumption DEF ApiPods
    <3>4. /\ \A q \in Pod \ {p} : api'[q] = api[q] /\ shown'[q] = shown[q]
          /\ api'[p] = r /\ shown'[p] = shown[p] \cup {VersionOf(r)}
      BY <1>5, <2>4, <3>2, <3>3 DEF Write, BInv, TypeInv
    <3>5. \A v \in shown'[p] : v.board = b.board
      BY <3>1, <3>3, <3>4 DEF VersionOf
    <3> QED
      BY <2>4, <3>1, <3>3, <3>4, <3>5 DEF Bound
  <2> QED
    BY <1>1, <1>2, <2>1, <2>2, <2>3, <2>4 DEF Update, BindPod, Recover, At, Updatable
<1>11. KPod(p, c)'
  <2>1. c.pc # "idle" /\ Bound(p)'
          => /\ c.pc \in {"forgetBind", "recover"} /\ c.seen.rv < api'[p].rv
             /\ api'[p].node = c.node /\ api'[p].board = c.board
    <3>1. CASE Bound(p)
      BY <1>5, <1>9, <3>1
    <3>2. CASE ~Bound(p) /\ c.pc # "idle" /\ Bound(p)'
      <4>1. b.seen.rv <= api[p].rv /\ b.seen.rv \in Nat /\ api[p].rv \in Nat
        BY <1>2, <1>5, <1>10, <3>2 DEF HandlerOK, Handlers, ApiPods
      <4>2. b.seen.rv < api'[p].rv
        BY <1>10, <3>2, <4>1
      <4> QED
        BY <1>9, <1>10, <3>2, <4>2
    <3> QED
      BY <3>1, <3>2
  <2>5. Bound(p)' => api'[p].board \in Board /\ \A v \in shown'[p] : v.board = api'[p].board
    BY <1>5, <1>7, <1>10 DEF KPod, Bound
  <2>2. ASSUME NEW n \in Node, StoredAt(n, p)'
        PROVE  /\ p \in podMaps'
               /\ Bound(p)' => api'[p].node = n /\ api'[p].board = nodeCache'[n].Pods[p]
               /\ c.pc \in {"update", "forgetUpdate", "bind", "forgetBind"}
                    => c.node = n /\ c.board = nodeCache'[n].Pods[p]
    <3>1. /\ StoredAt(n, p) /\ p \in podMaps
          /\ Bound(p) => api[p].node = n /\ api[p].board = nodeCache[n].Pods[p]
          /\ b.pc \in {"update", "forgetUpdate", "bind", "forgetBind"}
               => b.node = n /\ b.board = nodeCache[n].Pods[p]
      BY <1>5, <1>6, <2>2 DEF KPod
    <3>2. Bound(p) => api' = api
      BY <1>7
    <3> QED
      BY <1>6, <1>9, <1>10, <3>1, <3>2
  <2>3. p \notin podMaps' /\ ~Bound(p)' => api'[p].board \notin Board
    <3>1. ~Bound(p)' => ~Bound(p)
      BY <1>5, <1>7 DEF Bound
    <3>2. NoBoard \notin Board
      BY AnnotationAssumption
    <3> QED
      BY <1>5, <1>6, <1>10, <3>1, <3>2 DEF KPod
  <2>4. \/ c.pc \in {"allocate", "assume"} /\ p \notin podMaps'
        \/ c.pc \in {"update", "forgetUpdate"}
        => c.seen.board \notin Board
    BY <1>5, <1>9 DEF KPod
  <2> QED
    BY <2>1, <2>2, <2>3, <2>4, <2>5 DEF KPod
<1>12. KInv'
  BY <1>1, <1>2, <1>5, <1>6, <1>8, <1>9, <1>10, <1>11, KMoves
<1> QED
  BY <1>4, <1>12

\* A request is for a pod that is not bound and that no handler has.
LEMMA StartK ==
  ASSUME BInv, KInv, Orderly, NEW t \in Binder, NEW p \in Pod, NEW n \in Node, Start(t, p, n)
  PROVE  KInv' /\ UNCHANGED cacheVars
<1>1. /\ At(t, "idle") /\ UNCHANGED <<cacheVars, api, shown>>
      /\ binder \in [Binder -> Handlers]
  BY DEF Start, BInv, TypeInv, podVars
<1>2. /\ nodeCache' = nodeCache /\ podMaps' = podMaps /\ api' = api /\ shown' = shown
      /\ \A q \in Pod, m \in Node : StoredAt(m, q)' <=> StoredAt(m, q)
      /\ \A q \in Pod : Bound(q)' <=> Bound(q)
  BY <1>1 DEF cacheVars, StoredAt, Cached, Bound
<1>3. CASE UNCHANGED binder
  BY <1>1, <1>2, <1>3
     DEF KInv, HandInv, BoardInv, StoredInv, UnseenInv, InHand, At, StoredAt, Cached, Bound,
         cacheVars
<1>4. CASE Continue(t, [Idle EXCEPT !.pc = "get", !.pod = p, !.node = n, !.attempt = 1])
  <2>1. PICK c : c = [Idle EXCEPT !.pc = "get", !.pod = p, !.node = n, !.attempt = 1]
    OBVIOUS
  <2>2. c.pc = "get" /\ c.pod = p
    BY <2>1, IdleOK DEF Handlers
  <2>3. binder'[t] = c /\ \A u \in Binder \ {t} : binder'[u] = binder[u]
    BY <1>1, <1>4, <2>1 DEF Continue
  <2>4. ~Bound(p) /\ \A u \in Binder : ~InHand(u, p)
    BY DEF Start, Asked, Orderly, Busy, InHand
  <2>5. \A u \in Binder, q \in Pod :
          InHand(u, q)' <=> IF u = t THEN q = p ELSE InHand(u, q)
    BY <2>2, <2>3 DEF InHand, At
  <2>6. HandInv'
    <3> SUFFICES ASSUME NEW u \in Binder, binder'[u].pc # "idle"
                 PROVE  /\ \A v \in Binder \ {u} :
                             ~(binder'[v].pc # "idle" /\ binder'[v].pod = binder'[u].pod)
                        /\ api'[binder'[u].pod].node # NoNode =>
                             /\ binder'[u].pc \in {"forgetBind", "recover"}
                             /\ binder'[u].seen.rv < api'[binder'[u].pod].rv
                             /\ api'[binder'[u].pod].node = binder'[u].node
                             /\ api'[binder'[u].pod].board = binder'[u].board
      BY DEF HandInv, InHand, At, Bound
    <3>1. CASE u = t
      BY <1>2, <2>2, <2>3, <2>4, <3>1 DEF InHand, At, Bound
    <3>2. CASE u # t
      BY <1>2, <2>2, <2>3, <2>4, <3>2 DEF KInv, HandInv, InHand, At, Bound
    <3> QED
      BY <3>1, <3>2
  <2>7. StoredInv'
    <3> SUFFICES ASSUME NEW m \in Node, NEW q \in Pod, StoredAt(m, q)
                 PROVE  /\ q \in podMaps
                        /\ Bound(q) => api[q].node = m /\ api[q].board = nodeCache[m].Pods[q]
                        /\ \A u \in Binder :
                             /\ InHand(u, q)'
                             /\ binder'[u].pc \in {"update", "forgetUpdate", "bind", "forgetBind"}
                             => binder'[u].node = m /\ binder'[u].board = nodeCache[m].Pods[q]
      BY <1>2 DEF StoredInv
    <3> QED
      BY <2>2, <2>3, <2>5 DEF KInv, StoredInv
  <2>8. UnseenInv'
    BY <1>2, <2>2, <2>3 DEF KInv, UnseenInv
  <2>9. BoardInv'
    BY <1>2 DEF KInv, BoardInv
  <2> QED
    BY <1>1, <2>6, <2>7, <2>8, <2>9 DEF KInv
<1> QED
  BY <1>1, <1>3, <1>4 DEF Start

-----------------------------------------------------------------------------
(***************************************************************************)
(* Around the handlers.                                                    *)
(***************************************************************************)

\* NewNodeInfo stores listed pods, with the board they were listed with.
LEMMA NewNodeInfoPods ==
  ASSUME NEW total, NEW pods, NEW ni \in NewNodeInfo(total, pods)
  PROVE  \A q \in DOMAIN ni.Pods : q \in DOMAIN pods /\ ni.Pods[q] = pods[q]
<1> DEFINE placed == Placed(pods)
           fits == {p \in placed : Covers(total, Claim(pods[p], p))}
<1>1. PICK S \in (IF fits = placed THEN {placed} ELSE SUBSET fits) :
        ni = [Pods |-> Restricted(pods, S),
              Allocatable |-> DifferenceFromSuperset(total, RequestOf(Restricted(pods, S))),
              Requested |-> RequestOf(Restricted(pods, placed)),
              Total |-> total]
  BY DEF NewNodeInfo, Placed
<1>2. S \subseteq DOMAIN pods /\ ni.Pods = Restricted(pods, S)
  BY <1>1 DEF Placed
<1> QED
  BY <1>2 DEF Restricted

\* Whichever version of a pod the lister shows, it has the pod's board.
LEMMA BoardsListed ==
  ASSUME KInv, NEW n \in Node, NEW S \in Listed(n)
  PROVE  DOMAIN BoardsOf(S) = S /\ \A q \in S : BoardsOf(S)[q] = api[q].board
<1>1. S \subseteq Pod /\ \A q \in S : Active(q) # {} /\ Bound(q)
  BY NodeAssumption DEF Listed, BoundTo, Bound
<1>2. ASSUME NEW q \in S
      PROVE  (CHOOSE v \in Active(q) : TRUE).board = api[q].board
  <2>1. (CHOOSE v \in Active(q) : TRUE) \in Active(q)
    BY <1>1
  <2>2. (CHOOSE v \in Active(q) : TRUE) \in shown[q]
    BY <2>1 DEF Active
  <2> QED
    BY <1>1, <2>2 DEF KInv, BoardInv
<1> QED
  BY <1>2 DEF BoardsOf

\* A node info is built from pods that are bound to the node and that the cache
\* knows, whichever of them the lister shows, with the boards they have.
LEMMA BuiltFrom ==
  ASSUME BInv, KInv, NEW n \in Node, NEW S \in Listed(n), NEW total \in Totals,
         NEW ni \in NewNodeInfo(total, BoardsOf(S))
  PROVE  /\ BoardsOf(S) \in ListedPods
         /\ \A q \in Pod : q \in DOMAIN ni.Pods =>
              /\ Bound(q) /\ api[q].node = n /\ q \in podMaps
              /\ ni.Pods[q] = api[q].board
<1>1. S \subseteq Pod /\ \A q \in S : api[q].node = n /\ Active(q) # {} /\ Bound(q)
  BY NodeAssumption DEF Listed, BoundTo, Bound
<1>3. DOMAIN BoardsOf(S) = S /\ \A q \in S : BoardsOf(S)[q] = api[q].board
  BY BoardsListed
<1>4. PICK pods : pods = BoardsOf(S)
  OBVIOUS
<1>5. \A q \in S : api[q].board \in Board /\ q \in podMaps
  BY <1>1 DEF KInv, BoardInv, BInv, KnownInv
<1>6. BoardsOf(S) \in ListedPods
  <2>1. DOMAIN pods = S /\ pods \in [S -> Board \cup {BadBoard}]
    BY <1>3, <1>4, <1>5 DEF BoardsOf
  <2> QED
    BY <1>1, <1>4, <2>1, PodsType DEF ListedPods
<1>7. \A q \in DOMAIN ni.Pods : q \in S /\ ni.Pods[q] = api[q].board
  BY <1>3, NewNodeInfoPods
<1> QED
  BY <1>1, <1>5, <1>6, <1>7

\* A node info is replaced, kept or dropped; what a new one stores was listed.
LEMMA NodesFrame ==
  ASSUME BInv, KInv, NEW n \in Node,
         NodeAdded(n) \/ NodeDeleted(n) \/ \E total \in Totals : NodeUpdated(n, total)
  PROVE  /\ [Next]_cacheVars /\ podMaps' = podMaps /\ api' = api /\ shown' = shown
         /\ \A m \in Node, q \in Pod : StoredAt(m, q)' =>
              \/ StoredAt(m, q) /\ nodeCache'[m] = nodeCache[m]
              \/ /\ m = n /\ Bound(q) /\ api[q].node = n /\ q \in podMaps
                 /\ nodeCache'[n].Pods[q] = api[q].board
         /\ \A t \in Binder :
              /\ binder'[t].pc = binder[t].pc /\ binder'[t].pod = binder[t].pod
              /\ binder'[t].node = binder[t].node /\ binder'[t].board = binder[t].board
              /\ binder'[t].seen = binder[t].seen
<1>1. capacity[n] \in Totals /\ binder \in [Binder -> Handlers]
  BY DEF BInv, TypeInv
<1>2. podMaps' = podMaps /\ api' = api /\ shown' = shown
  BY DEF podVars, NodeAdded, NodeDeleted, NodeUpdated, AddNode, DeleteNode, UpdateNode
<1>3. ASSUME NEW t \in Binder
      PROVE  /\ binder'[t].pc = binder[t].pc /\ binder'[t].pod = binder[t].pod
             /\ binder'[t].node = binder[t].node /\ binder'[t].board = binder[t].board
             /\ binder'[t].seen = binder[t].seen
  <2>1. binder' = binder \/ Detach(n)
    BY DEF NodeAdded, NodeDeleted, NodeUpdated
  <2>2. binder'[t] = binder[t] \/ \E al : binder'[t] = [binder[t] EXCEPT !.ni = al]
    BY <2>1 DEF Detach
  <2> QED
    BY <1>1, <2>2 DEF Handlers
<1>4. ASSUME NEW nj, SetNode(n, nj),
             \A q \in Pod : q \in DOMAIN nj.Pods =>
               /\ Bound(q) /\ api[q].node = n /\ q \in podMaps
               /\ nj.Pods[q] = api[q].board
      PROVE  \A m \in Node, q \in Pod : StoredAt(m, q)' =>
              \/ StoredAt(m, q) /\ nodeCache'[m] = nodeCache[m]
              \/ /\ m = n /\ Bound(q) /\ api[q].node = n /\ q \in podMaps
                 /\ nodeCache'[n].Pods[q] = api[q].board
  BY <1>4 DEF SetNode, StoredAt, Cached
<1>5. CASE NodeAdded(n)
  <2>1. PICK S \in Listed(n) : AddNode(n, capacity[n], BoardsOf(S))
    BY <1>5 DEF NodeAdded
  <2>2. PICK ni \in NewNodeInfo(capacity[n], BoardsOf(S)) : SetNode(n, ni)
    BY <2>1 DEF AddNode
  <2>3. /\ BoardsOf(S) \in ListedPods
        /\ \A q \in Pod : q \in DOMAIN ni.Pods =>
             /\ Bound(q) /\ api[q].node = n /\ q \in podMaps
             /\ ni.Pods[q] = api[q].board
    BY <1>1, BuiltFrom
  <2>4. [Next]_cacheVars
    BY <1>1, <2>1, <2>3 DEF Next, NodeNext
  <2> QED
    BY <1>2, <1>3, <1>4, <2>2, <2>3, <2>4
<1>6. ASSUME NEW total \in Totals, NodeUpdated(n, total)
      PROVE  /\ [Next]_cacheVars
             /\ \A m \in Node, q \in Pod : StoredAt(m, q)' =>
                  \/ StoredAt(m, q) /\ nodeCache'[m] = nodeCache[m]
                  \/ /\ m = n /\ Bound(q) /\ api[q].node = n /\ q \in podMaps
                     /\ nodeCache'[n].Pods[q] = api[q].board
  <2>1. PICK S \in Listed(n) : UpdateNode(n, capacity[n], total, BoardsOf(S))
    BY <1>6 DEF NodeUpdated
  <2>2. CASE UNCHANGED nodeCache
    BY <2>1, <2>2 DEF UpdateNode, StoredAt, Cached, cacheVars
  <2>3. CASE ~UNCHANGED nodeCache
    <3>1. PICK newNi \in NewNodeInfo(total, BoardsOf(S)),
               oldNi \in NewNodeInfo(capacity[n], BoardsOf(S)) :
            SetNode(n, UpdatedNodeInfo(newNi, oldNi))
      BY <2>1, <2>3 DEF UpdateNode
    <3>2. /\ BoardsOf(S) \in ListedPods
          /\ \A q \in Pod : q \in DOMAIN newNi.Pods =>
               /\ Bound(q) /\ api[q].node = n /\ q \in podMaps
               /\ newNi.Pods[q] = api[q].board
      BY <1>6, BuiltFrom
    <3>3. [Next]_cacheVars
      BY <1>1, <2>1, <3>2 DEF Next, NodeNext
    <3>4. PICK nj : nj = UpdatedNodeInfo(newNi, oldNi)
      OBVIOUS
    <3>5. nj.Pods = newNi.Pods
      BY <3>4 DEF UpdatedNodeInfo
    <3> QED
      BY <1>4, <3>1, <3>2, <3>3, <3>4, <3>5
  <2> QED
    BY <2>2, <2>3
<1>7. CASE NodeDeleted(n)
  <2>1. DeleteNode(n)
    BY <1>7 DEF NodeDeleted
  <2>2. [Next]_cacheVars
    BY <2>1 DEF Next, NodeNext
  <2>3. \A m \in Node, q \in Pod :
          StoredAt(m, q)' => StoredAt(m, q) /\ nodeCache'[m] = nodeCache[m]
    BY <2>1 DEF DeleteNode, StoredAt, Cached
  <2> QED
    BY <1>2, <1>3, <2>2, <2>3
<1> QED
  BY <1>2, <1>3, <1>5, <1>6, <1>7

\* Nodes come, change and go.
LEMMA NodesK ==
  ASSUME BInv, KInv, NEW n \in Node,
         NodeAdded(n) \/ NodeDeleted(n) \/ \E total \in Totals : NodeUpdated(n, total)
  PROVE  KInv' /\ [Next]_cacheVars
<1>1. /\ [Next]_cacheVars /\ podMaps' = podMaps /\ api' = api /\ shown' = shown
      /\ \A m \in Node, q \in Pod : StoredAt(m, q)' =>
           \/ StoredAt(m, q) /\ nodeCache'[m] = nodeCache[m]
           \/ /\ m = n /\ Bound(q) /\ api[q].node = n /\ q \in podMaps
              /\ nodeCache'[n].Pods[q] = api[q].board
      /\ \A t \in Binder :
           /\ binder'[t].pc = binder[t].pc /\ binder'[t].pod = binder[t].pod
           /\ binder'[t].node = binder[t].node /\ binder'[t].board = binder[t].board
           /\ binder'[t].seen = binder[t].seen
  BY NodesFrame
<1>2. HandInv' /\ BoardInv' /\ UnseenInv'
  BY <1>1 DEF KInv, HandInv, BoardInv, UnseenInv, InHand, At, Bound
<1>3. \A t \in Binder, q \in Pod : InHand(t, q)' <=> InHand(t, q)
  BY <1>1 DEF InHand, At
<1>4. ASSUME NEW m \in Node, NEW q \in Pod, StoredAt(m, q)'
      PROVE  /\ q \in podMaps
             /\ Bound(q) => api[q].node = m /\ api[q].board = nodeCache'[m].Pods[q]
             /\ \A t \in Binder :
                  /\ InHand(t, q)
                  /\ binder[t].pc \in {"update", "forgetUpdate", "bind", "forgetBind"}
                  => binder[t].node = m /\ binder[t].board = nodeCache'[m].Pods[q]
  <2>1. CASE StoredAt(m, q) /\ nodeCache'[m] = nodeCache[m]
    BY <2>1 DEF KInv, StoredInv
  <2>2. CASE /\ m = n /\ Bound(q) /\ api[q].node = n /\ q \in podMaps
             /\ nodeCache'[n].Pods[q] = api[q].board
    <3>1. ASSUME NEW t \in Binder, InHand(t, q)
          PROVE  binder[t].node = api[q].node /\ binder[t].board = api[q].board
      BY <2>2, <3>1 DEF KInv, HandInv, InHand
    <3> QED
      BY <2>2, <3>1
  <2> QED
    BY <1>1, <1>4, <2>1, <2>2
<1>5. StoredInv'
  BY <1>1, <1>3, <1>4 DEF StoredInv, Bound
<1> QED
  BY <1>1, <1>2, <1>5 DEF KInv

\* What becomes of the pods, and the calls: the cache knows a pod that is synced,
\* and one that is released has ended.  Neither the node nor the board changes.
LEMMA PodsFrame ==
  ASSUME BInv, KInv, NEW p \in Pod, PodMoves(p)
  PROVE  /\ api' \in [Pod -> ApiPods] /\ binder' = binder
         /\ \A q \in Pod :
              /\ api'[q].node = api[q].node /\ api'[q].board = api[q].board
              /\ api[q].rv <= api'[q].rv
              /\ q # p => (Live(q)' <=> Live(q))
              /\ Live(q)' => Live(q)
              /\ \A v \in shown'[q] : v \in shown[q] \/ v.board = api[q].board
         /\ \/ UNCHANGED cacheVars
            \/ ~Live(p) /\ ~Live(p)' /\ DeletePod(p, api[p].node, api[p].board)
<1>1. /\ api \in [Pod -> ApiPods] /\ shown \in [Pod -> SUBSET Versions] /\ ShownInv /\ BoardInv
      /\ \A q \in Pod : api[q].rv \in Nat /\ api[q].rv <= api[q].rv
      /\ api' \in [Pod -> ApiPods] /\ \A q \in Pod : Live(q)' => Live(q)
  <2>1. api \in [Pod -> ApiPods] /\ shown \in [Pod -> SUBSET Versions] /\ ShownInv /\ BoardInv
    BY DEF BInv, TypeInv, KInv
  <2>2. \A q \in Pod : api[q].rv \in Nat
    BY <2>1 DEF ApiPods
  <2>3. api' \in [Pod -> ApiPods] /\ \A q \in Pod : Live(q)' => Live(q)
    BY PodsMove
  <2> QED
    BY <2>1, <2>2, <2>3
<1>2. ASSUME NEW v \in shown[p]
      PROVE  Bound(p) /\ v.board = api[p].board
  BY <1>1 DEF ShownInv, BoardInv
<1>3. CASE PodSynced(p)
  <2>1. PICK v \in Active(p) : AddPod(p, api[p].node, v.board)
    BY <1>3 DEF PodSynced
  <2>2. p \in podMaps
    BY <2>1 DEF BInv, KnownInv
  <2>3. UNCHANGED cacheVars
    BY <2>1, <2>2 DEF AddPod, cacheVars
  <2>4. api' = api /\ shown' = shown /\ binder' = binder
    BY <1>3 DEF PodSynced, podVars
  <2> QED
    BY <1>1, <2>3, <2>4 DEF Live
<1>4. CASE PodReleased(p)
  <2>1. PICK v \in shown[p] \ Active(p) : DeletePod(p, api[p].node, v.board)
    BY <1>4 DEF PodReleased
  <2>2. v.board = api[p].board
    BY <1>2, <2>1
  <2>3. DeletePod(p, api[p].node, api[p].board)
    BY <2>1, <2>2
  <2>4. ~Live(p)
    BY <1>1, <2>1 DEF ShownInv
  <2>5. api' = api /\ binder' = binder /\ shown' = [shown EXCEPT ![p] = @ \ Active(p)]
    BY <1>4 DEF PodReleased
  <2>6. \A q \in Pod : shown'[q] \subseteq shown[q]
    BY <1>1, <2>5
  <2> QED
    BY <1>1, <2>3, <2>4, <2>5, <2>6 DEF Live
<1>5. CASE PodCompletes(p)
  <2>1. PICK r : r = [api[p] EXCEPT !.st = "completed", !.rv = @ + 1]
    OBVIOUS
  <2>2. Write(p, r) /\ binder' = binder /\ UNCHANGED cacheVars /\ Bound(p)
    BY <1>5, <2>1 DEF PodCompletes
  <2>3. api[p] \in ApiPods /\ api[p].rv <= api[p].rv + 1
    BY <1>1 DEF ApiPods
  <2>4. r.node = api[p].node /\ r.board = api[p].board /\ api[p].rv <= r.rv /\ r.node # NoNode
    BY <2>1, <2>2, <2>3 DEF ApiPods, Bound
  <2>5. /\ api'[p] = r /\ \A q \in Pod \ {p} : api'[q] = api[q]
        /\ shown'[p] = shown[p] \cup {VersionOf(r)} /\ \A q \in Pod \ {p} : shown'[q] = shown[q]
    BY <1>1, <2>2, <2>4 DEF Write
  <2>6. \A q \in Pod : \A v \in shown'[q] : v \in shown[q] \/ v.board = api[q].board
    BY <2>4, <2>5 DEF VersionOf
  <2> QED
    BY <1>1, <2>2, <2>4, <2>5, <2>6 DEF Live
<1>6. CASE PodDeleted(p) \/ PodDeletionHandled(p)
  <2>1. PICK st : api' = [api EXCEPT ![p].st = st]
    BY <1>6 DEF PodDeleted, PodDeletionHandled
  <2>2. /\ api'[p].node = api[p].node /\ api'[p].board = api[p].board /\ api'[p].rv = api[p].rv
        /\ \A q \in Pod \ {p} : api'[q] = api[q]
    BY <1>1, <2>1 DEF ApiPods
  <2>3. binder' = binder /\ \A q \in Pod : shown'[q] \subseteq shown[q]
    BY <1>1, <1>6 DEF PodDeleted, PodDeletionHandled
  <2>4. \/ UNCHANGED cacheVars
        \/ ~Live(p) /\ DeletePod(p, api[p].node, api[p].board)
    BY <1>6 DEF PodDeleted, PodDeletionHandled, Live
  <2> QED
    BY <1>1, <2>2, <2>3, <2>4 DEF Live
<1> QED
  BY <1>3, <1>4, <1>5, <1>6 DEF PodMoves

\* The pods in the hand of a handler are not among those whose release takes them
\* out of podMaps: these are bound.
LEMMA PodsK ==
  ASSUME BInv, KInv, NEW p \in Pod, PodMoves(p)
  PROVE  KInv' /\ [Next]_cacheVars
<1>1. /\ TypeOK /\ api \in [Pod -> ApiPods] /\ binder' = binder
      /\ HandInv /\ BoardInv /\ StoredInv /\ UnseenInv
      /\ binder \in [Binder -> Handlers] /\ api' \in [Pod -> ApiPods]
  BY PodsFrame DEF BInv, TypeInv, KInv
<1>2. \A q \in Pod : /\ api'[q].node = api[q].node /\ api'[q].board = api[q].board
                     /\ Bound(q)' <=> Bound(q)
                     /\ api[q].rv <= api'[q].rv /\ api[q].rv \in Nat /\ api'[q].rv \in Nat
                     /\ \A v \in shown'[q] : v \in shown[q] \/ v.board = api[q].board
  BY <1>1, PodsFrame DEF ApiPods, Bound
<1>3. Consistent(p, api[p].node, api[p].board)
  <2>1. CASE Bound(p)
    BY <1>1, <2>1 DEF Consistent, StoredInv, StoredAt, Cached, TypeOK
  <2>2. CASE ~Bound(p)
    BY <1>1, <2>2, NodeAssumption DEF Consistent, Bound, Cached, TypeOK
  <2> QED
    BY <2>1, <2>2
<1>4. api[p].node \in Node \cup {NoNode} /\ api[p].board \in Annotation
  BY <1>1 DEF ApiPods
<1>5. HandInv' /\ BoardInv'
  <2>1. \A t \in Binder : binder[t].pc # "idle" => binder[t].pod \in Pod
    BY DEF BInv, HandlerOK
  <2>2. \A t \in Binder : binder[t].seen.rv \in Nat
    BY <1>1 DEF Handlers
  <2>3. HandInv'
    <3> SUFFICES ASSUME NEW t \in Binder, binder[t].pc # "idle",
                        api'[binder[t].pod].node # NoNode
                 PROVE  /\ binder[t].pc \in {"forgetBind", "recover"}
                        /\ binder[t].seen.rv < api'[binder[t].pod].rv
                        /\ api'[binder[t].pod].node = binder[t].node
                        /\ api'[binder[t].pod].board = binder[t].board
      BY <1>1 DEF HandInv, InHand, At, Bound
    <3>1. binder[t].pod \in Pod /\ Bound(binder[t].pod)
      BY <1>2, <2>1 DEF Bound
    <3>2. /\ binder[t].pc \in {"forgetBind", "recover"} /\ binder[t].seen.rv < api[binder[t].pod].rv
          /\ api[binder[t].pod].node = binder[t].node /\ api[binder[t].pod].board = binder[t].board
      BY <1>1, <3>1 DEF HandInv, At
    <3> QED
      BY <1>2, <2>2, <3>1, <3>2
  <2>4. BoardInv'
    BY <1>1, <1>2 DEF BoardInv
  <2> QED
    BY <2>3, <2>4
<1>6. ASSUME UNCHANGED <<nodeCache, podMaps>>
      PROVE  KInv'
  <2>1. \A q \in Pod, m \in Node : StoredAt(m, q)' <=> StoredAt(m, q)
    BY <1>6 DEF StoredAt, Cached
  <2>2. StoredInv'
    BY <1>1, <1>2, <1>6, <2>1 DEF StoredInv, InHand, At
  <2>3. UnseenInv'
    BY <1>1, <1>2, <1>6 DEF UnseenInv
  <2> QED
    BY <1>5, <2>2, <2>3 DEF KInv
<1>7. CASE UNCHANGED cacheVars
  BY <1>6, <1>7 DEF cacheVars
<1>8. CASE DeletePod(p, api[p].node, api[p].board)
  <2>1. [Next]_cacheVars
    BY <1>3, <1>4, <1>8, CallKept
  <2>2. CASE UNCHANGED <<nodeCache, podMaps>>
    BY <1>6, <2>1, <2>2
  <2>3. CASE ~UNCHANGED <<nodeCache, podMaps>>
    <3> PICK n : n = api[p].node
      OBVIOUS
    <3>1. /\ Bound(p) /\ Cached(n)
          /\ ~DeletePodErr(p, n, api[p].board) /\ podMaps' = podMaps \ {p}
          /\ SetNode(n, deletePod(nodeCache[n], p, api[p].board))
      BY <1>1, <1>8, <2>3 DEF DeletePod, Ignored, Bound
    <3>2. /\ api[p].board \in Board /\ n \in Node
          /\ nodeCache[n] \in NodeInfos
      BY <1>1, <1>4, <3>1 DEF BoardInv, Bound, TypeOK, Cached
    <3>3. ~deletePodErr(nodeCache[n], p, api[p].board)
      BY <3>1, <3>2, AnnotationAssumption DEF DeletePodErr, Ignored, Bound
    <3>4. /\ DOMAIN nodeCache' = DOMAIN nodeCache
          /\ \A m \in Node, q \in Pod :
               StoredAt(m, q)' => StoredAt(m, q) /\ nodeCache'[m].Pods[q] = nodeCache[m].Pods[q]
      BY <1>1, <1>8, ReleaseFrame
    <3>5. ~StoredAt(n, p)'
      <4>1. PICK nj : nj = deletePod(nodeCache[n], p, api[p].board)
        OBVIOUS
      <4>2. nodeCache'[n] = nj
        BY <3>1, <4>1, OneLedger
      <4>3. p \notin DOMAIN nj.Pods
        BY <3>2, <3>3, <4>1, DeletePodPods
      <4> QED
        BY <4>2, <4>3 DEF StoredAt
    <3>6. \A m \in Node : ~StoredAt(m, p)'
      BY <1>1, <3>1, <3>4, <3>5 DEF StoredInv
    <3>7. \A t \in Binder : ~(binder[t].pod = p /\ binder[t].pc \in {"allocate", "assume"})
      BY <1>1, <3>1 DEF HandInv, InHand, At
    <3>8. StoredInv'
      <4> SUFFICES ASSUME NEW m \in Node, NEW q \in Pod, StoredAt(m, q)'
                   PROVE  /\ q \in podMaps'
                          /\ Bound(q) => api[q].node = m /\ api[q].board = nodeCache'[m].Pods[q]
                          /\ \A t \in Binder :
                               /\ InHand(t, q)
                               /\ binder[t].pc \in {"update", "forgetUpdate", "bind", "forgetBind"}
                               => binder[t].node = m /\ binder[t].board = nodeCache'[m].Pods[q]
        BY <1>1, <1>2 DEF StoredInv, InHand, At
      <4> QED
        BY <1>1, <3>1, <3>4, <3>6 DEF StoredInv
    <3>9. UnseenInv'
      BY <1>1, <1>2, <3>1, <3>7 DEF UnseenInv
    <3> QED
      BY <1>5, <2>1, <3>8, <3>9 DEF KInv
  <2> QED
    BY <2>2, <2>3
<1> QED
  BY <1>7, <1>8, PodsFrame

-----------------------------------------------------------------------------
(***************************************************************************)
(* The contract.                                                           *)
(***************************************************************************)

\* No pod is bound, assumed or stored at the start.
LEMMA KStart == ASSUME Init, CleanStart PROVE KInv
<1>1. binder = [t \in Binder |-> Idle] /\ \A t \in Binder : binder[t].pc = "idle"
  BY IdleOK DEF Init
<1>2. \A p \in Pod : api[p].board \notin Board /\ ~Bound(p)
  BY DEF Init, CleanStart, Bound
<1>3. \A n \in Node, p \in Pod : ~StoredAt(n, p)
  BY DEF Init, CacheInit, StoredAt, Cached
<1> QED
  BY <1>1, <1>2, <1>3 DEF KInv, HandInv, BoardInv, StoredInv, UnseenInv, At

\* Every step keeps the invariant and is a call of the cache, or none.
LEMMA KStep ==
  ASSUME BInv, KInv, Orderly, [BindNext]_vars
  PROVE  KInv' /\ [Next]_cacheVars
<1>1. CASE UNCHANGED vars
  <2>1. UNCHANGED <<nodeCache, podMaps, api, shown, binder>> /\ UNCHANGED cacheVars
    BY <1>1 DEF vars, cacheVars, podVars
  <2> QED
    BY <2>1 DEF KInv, HandInv, BoardInv, StoredInv, UnseenInv, InHand, StoredAt, Cached, At, Bound
<1>2. ASSUME NEW t \in Binder, NEW p \in Pod, NEW n \in Node, Start(t, p, n)
      PROVE  KInv' /\ [Next]_cacheVars
  BY <1>2, StartK
<1>3. ASSUME NEW t \in Binder, BinderStep(t)
      PROVE  KInv' /\ [Next]_cacheVars
  <2>1. CASE GetPod(t) \/ AllocateBoard(t)
    BY <2>1, ReadK
  <2>2. CASE Update(t) \/ BindPod(t) \/ Recover(t)
    BY <2>2, WriteK
  <2>3. CASE Assume(t)
    BY <2>3, AssumeK
  <2>4. CASE ForgetUpdate(t) \/ ForgetBind(t)
    BY <2>4, ForgetK
  <2> QED
    BY <1>3, <2>1, <2>2, <2>3, <2>4 DEF BinderStep
<1>4. ASSUME NEW n \in Node,
             NodeAdded(n) \/ NodeDeleted(n) \/ \E total \in Totals : NodeUpdated(n, total)
      PROVE  KInv' /\ [Next]_cacheVars
  BY <1>4, NodesK
<1>5. ASSUME NEW p \in Pod, PodMoves(p)
      PROVE  KInv' /\ [Next]_cacheVars
  BY <1>5, PodsK
<1> QED
  BY <1>1, <1>2, <1>3, <1>4, <1>5 DEF BindNext, PodMoves

\* The inductive invariant of the contract.
THEOREM KInvHolds == ASSUME CleanStart, Orderly PROVE BindSpec => [](BInv /\ KInv)
<1>1. Init => KInv
  BY KStart
<1>2. BInv /\ KInv /\ [BindNext]_vars => KInv'
  BY KStep
<1> QED
  BY <1>1, <1>2, BInvHolds, PTL DEF BindSpec

\* Every call of Bind (manager.go:143-204), and of the handlers around it, is a
\* call of the cache's contract: a pod is released from the board it was charged
\* for, whatever calls fail or lose their reply, and however many requests for
\* different pods are handled at once, where no pod has two requests and none an
\* annotation of an earlier process.
THEOREM BindKeepsContract == ASSUME CleanStart, Orderly PROVE BindSpec => KeepsCacheContract
<1>1. Init => CacheInit
  BY DEF Init
<1>2. BInv /\ KInv /\ [BindNext]_vars => [Next]_cacheVars
  BY KStep
<1> QED
  BY <1>1, <1>2, KInvHolds, PTL DEF BindSpec, KeepsCacheContract, Spec

\* What the cache guarantees (cache.go:50-137) holds where Bind uses it, under the
\* same hypotheses: the ledgers add up and never offer an orin that the node does
\* not report.
THEOREM BindKeepsBooks ==
  ASSUME CleanStart, Orderly
  PROVE  BindSpec => [](Accounting /\ OffersOnlyReported) /\ ClosedLedgerStaysClosed
BY BindKeepsContract, AccountingHolds, OffersOnlyReportedHolds, ClosedLedgerHolds, PTL
   DEF KeepsCacheContract

-----------------------------------------------------------------------------
(***************************************************************************)
(* The placement: what the calls do to the charges.                        *)
(***************************************************************************)

\* A claim that is covered, board and orins.
LEMMA CoversClaim ==
  ASSUME NEW d, NEW b, NEW p
  PROVE  Covers(d, Claim(b, p)) <=> b \in DOMAIN d /\ Req[p] \subseteq d[b]
  BY DEF Covers, Claim

\* What is charged stays charged when another charge is added.
LEMMA AddCovers ==
  ASSUME NEW d, NEW b, NEW c, NEW p, NEW q
  PROVE  /\ Covers(d, Claim(b, q)) => Covers(Add(d, c, Req[p]), Claim(b, q))
         /\ Covers(Add(d, c, Req[p]), Claim(c, p))
<1>1. /\ DOMAIN Add(d, c, Req[p]) = DOMAIN d \cup {c}
      /\ Add(d, c, Req[p])[c] = OrinsOf(d, c) \cup Req[p]
      /\ \A e \in DOMAIN d : e # c => Add(d, c, Req[p])[e] = d[e]
  BY DEF Add
<1>2. c \in DOMAIN d => OrinsOf(d, c) = d[c]
  BY DEF OrinsOf
<1>3. CASE b = c
  BY <1>1, <1>2, <1>3, CoversClaim
<1>4. CASE b # c
  BY <1>1, <1>4, CoversClaim
<1> QED
  BY <1>3, <1>4, <1>1, CoversClaim

\* deletePod takes no claim but the pod's own, if no other shares orins with it,
\* and charges nothing.
LEMMA ReleaseCovers ==
  ASSUME NEW ni \in NodeInfos, NEW p, NEW a, NEW b
  PROVE  LET nj == deletePod(ni, p, a) IN
         /\ \A q : Covers(ni.Requested, Claim(b, q)) /\ (a = b => Req[p] \cap Req[q] = {})
                     => Covers(nj.Requested, Claim(b, q))
         /\ OrinsOf(nj.Requested, b) \subseteq OrinsOf(ni.Requested, b)
<1>1. CASE ~(a \in Board /\ ~deletePodErr(ni, p, a))
  BY <1>1 DEF deletePod
<1>2. CASE a \in Board /\ ~deletePodErr(ni, p, a)
  <2> DEFINE d == ni.Requested
             e == DifferenceFromSuperset(d, Claim(a, p))
  <2>1. deletePod(ni, p, a).Requested = e
    BY <1>2 DEF deletePod, Released
  <2>2. /\ DOMAIN e = DOMAIN d
        /\ \A c \in DOMAIN d : e[c] = IF c = a THEN d[c] \ Req[p] ELSE d[c]
    BY DifferenceClaim
  <2> HIDE DEF d, e
  <2>3. ASSUME NEW q, Covers(d, Claim(b, q)), a = b => Req[p] \cap Req[q] = {}
        PROVE  Covers(e, Claim(b, q))
    <3>1. b \in DOMAIN d /\ Req[q] \subseteq d[b]
      BY <2>3, CoversClaim
    <3>2. b \in DOMAIN e /\ Req[q] \subseteq e[b]
      BY <2>2, <2>3, <3>1
    <3> QED
      BY <3>2, CoversClaim
  <2>4. OrinsOf(e, b) \subseteq OrinsOf(d, b)
    BY <2>2 DEF OrinsOf
  <2> QED
    BY <2>1, <2>3, <2>4 DEF d
<1> QED
  BY <1>1, <1>2

\* Nothing comes onto a board and no charge changes.
LEMMA BooksKept ==
  ASSUME ApartInv, ChargedInv,
         \A n \in Node, b \in Board, p \in Pod : OnBoard(n, b, p)' => OnBoard(n, b, p),
         \A n \in Node : Cached(n)' =>
           Cached(n) /\ nodeCache'[n].Requested = nodeCache[n].Requested
  PROVE  ApartInv' /\ ChargedInv'
<1>1. ApartInv'
  BY DEF ApartInv
<1>2. ASSUME NEW n \in Node, NEW b \in Board, NEW p \in Pod, Cached(n)', OnBoard(n, b, p)'
      PROVE  Covers(nodeCache'[n].Requested, Claim(b, p))
  <2>1. /\ Cached(n) /\ OnBoard(n, b, p)
        /\ nodeCache'[n].Requested = nodeCache[n].Requested
    BY <1>2
  <2> QED
    BY <2>1 DEF ChargedInv
<1>3. ChargedInv'
  BY <1>2 DEF ChargedInv, Covers, Claim
<1> QED
  BY <1>1, <1>3

\* A pod that does not live on the node is released there.
LEMMA BooksReleased ==
  ASSUME TypeOK, ApartInv, ChargedInv,
         NEW p \in Pod, NEW n, NEW a, DeletePod(p, n, a) \/ ForgetPod(p, n, a),
         Consistent(p, n, a),
         \A q \in Pod : /\ api'[q].node = api[q].node /\ api'[q].board = api[q].board
                        /\ Live(q)' => Live(q),
         ~(Live(p)' /\ api[p].node = n)
  PROVE  ApartInv' /\ ChargedInv'
<1>1. /\ DOMAIN nodeCache' = DOMAIN nodeCache
      /\ \A m \in Node, q \in Pod :
           StoredAt(m, q)' => StoredAt(m, q) /\ nodeCache'[m].Pods[q] = nodeCache[m].Pods[q]
  BY ReleaseFrame
<1>2. \A m \in Node, b \in Board, q \in Pod : OnBoard(m, b, q)' => OnBoard(m, b, q)
  BY <1>1 DEF OnBoard
<1>3. CASE UNCHANGED nodeCache
  BY <1>2, <1>3, BooksKept DEF Cached
<1>4. CASE Cached(n) /\ SetNode(n, deletePod(nodeCache[n], p, a))
  <2>1. n \in Node /\ nodeCache[n] \in NodeInfos
    BY <1>4 DEF TypeOK, Cached
  <2>2. PICK nj : nj = deletePod(nodeCache[n], p, a)
    OBVIOUS
  <2>3. /\ DOMAIN nodeCache' = DOMAIN nodeCache /\ nodeCache'[n] = nj
        /\ \A m \in DOMAIN nodeCache : m # n => nodeCache'[m] = nodeCache[m]
    BY <1>4, <2>2, OneLedger
  <2>4. ASSUME NEW m \in Node, NEW b \in Board, NEW q \in Pod, Cached(m)', OnBoard(m, b, q)'
        PROVE  Covers(nodeCache'[m].Requested, Claim(b, q))
    <3>1. Cached(m) /\ OnBoard(m, b, q) /\ Covers(nodeCache[m].Requested, Claim(b, q))
      BY <1>1, <1>2, <2>4 DEF ChargedInv, Cached
    <3>2. CASE m # n
      BY <2>3, <3>1, <3>2 DEF Cached
    <3>3. CASE m = n /\ nj = nodeCache[n]
      BY <2>3, <3>1, <3>3
    <3>4. CASE m = n /\ nj # nodeCache[n]
      <4>1. a \in Board /\ ~deletePodErr(nodeCache[n], p, a) /\ p \in DOMAIN nodeCache[n].Pods
        BY <2>2, <3>4, AnnotationAssumption DEF deletePod, deletePodErr
      <4>2. OnBoard(n, a, p)
        BY <1>4, <4>1 DEF Consistent, OnBoard, StoredAt
      <4>3. q # p
        <5>1. p \notin DOMAIN nj.Pods
          BY <2>1, <2>2, <4>1, DeletePodPods
        <5>2. ~StoredAt(n, p)'
          BY <2>3, <5>1 DEF StoredAt
        <5>3. ~OnBoard(n, b, p)'
          BY <5>2 DEF OnBoard
        <5> QED
          BY <2>4, <3>4, <5>3
      <4>4. a = b => Req[p] \cap Req[q] = {}
        BY <2>1, <3>1, <3>4, <4>2, <4>3 DEF ApartInv
      <4>5. Covers(nj.Requested, Claim(b, q))
        BY <2>1, <2>2, <3>1, <3>4, <4>4, ReleaseCovers
      <4> QED
        BY <2>3, <3>4, <4>5
    <3> QED
      BY <3>2, <3>3, <3>4
  <2>5. ChargedInv'
    BY <2>4 DEF ChargedInv, Covers, Claim
  <2>6. ApartInv'
    BY <1>2 DEF ApartInv
  <2> QED
    BY <2>5, <2>6
<1> QED
  BY <1>3, <1>4 DEF DeletePod, ForgetPod, Ignored

\* A pod that is nowhere yet is assumed on a board whose charges leave its orins
\* alone, or on a ledger that cannot store it.
LEMMA BooksAssumed ==
  ASSUME IInv, ApartInv, ChargedInv,
         NEW p \in Pod, NEW n \in Node, NEW b \in Board, AssumePod(p, n, b),
         ~Bound(p), \A m \in Node : ~StoredAt(m, p), UNCHANGED api,
         Cached(n) /\ Healthy(nodeCache[n])
           => \A o \in Req[p] : o \notin OrinsOf(nodeCache[n].Requested, b)
  PROVE  ApartInv' /\ ChargedInv'
<1>1. /\ TypeOK /\ podMaps \subseteq podMaps' /\ DOMAIN nodeCache' = DOMAIN nodeCache
      /\ \A m \in Node, q \in Pod :
           StoredAt(m, q)' /\ q # p => /\ StoredAt(m, q)
                                       /\ nodeCache'[m].Pods[q] = nodeCache[m].Pods[q]
      /\ \A m \in Node : StoredAt(m, p)' => /\ m = n /\ nodeCache'[m].Pods[p] = b
                                            /\ ~AssumePodErr(p, n, b)
  BY AssumeFrame DEF IInv
<1>2. \A m \in Node, c \in Board, q \in Pod : q # p /\ OnBoard(m, c, q)' => OnBoard(m, c, q)
  BY <1>1 DEF OnBoard, Live
<1>3. \A m \in Node, c \in Board : OnBoard(m, c, p)' => m = n /\ c = b /\ StoredAt(n, p)'
  <2>1. api'[p].node \notin Node
    BY NodeAssumption DEF Bound
  <2> QED
    BY <1>1, <2>1 DEF OnBoard
<1>4. CASE UNCHANGED nodeCache
  <2>1. \A m \in Node, c \in Board : ~OnBoard(m, c, p)'
    BY <1>3, <1>4 DEF StoredAt, Cached
  <2>2. \A m \in Node, c \in Board, q \in Pod : OnBoard(m, c, q)' => OnBoard(m, c, q)
    BY <1>2, <2>1
  <2> QED
    BY <1>4, <2>2, BooksKept DEF Cached
<1>5. CASE /\ Cached(n) /\ p \notin podMaps
           /\ SetNode(n, addPod(nodeCache[n], p, b))
  <2>1. PICK ni : ni = nodeCache[n]
    OBVIOUS
  <2>2. PICK nj : nj = addPod(ni, p, b)
    OBVIOUS
  <2>3. ni \in NodeInfos /\ LedgerOK(ni) /\ p \notin DOMAIN ni.Pods
    BY <1>5, <2>1 DEF IInv, TypeOK, Cached, StoredAt
  <2>4. /\ DOMAIN nodeCache' = DOMAIN nodeCache /\ nodeCache'[n] = nj
        /\ \A m \in DOMAIN nodeCache : m # n => nodeCache'[m] = nodeCache[m]
    BY <1>5, <2>1, <2>2, OneLedger
  <2>5. /\ nj.Requested = Add(ni.Requested, b, Req[p])
        /\ p \in DOMAIN nj.Pods => Healthy(nj)
    BY <2>2, <2>3, AddPodPods
  <2>6. Healthy(nj) => Healthy(ni)
    BY <2>2, <2>3, AddPodOK
  <2>7. ASSUME NEW m \in Node, NEW c \in Board, NEW q \in Pod, Cached(m)', OnBoard(m, c, q)'
        PROVE  Covers(nodeCache'[m].Requested, Claim(c, q))
    <3>1. CASE q = p
      BY <1>3, <2>4, <2>5, <2>7, <3>1, AddCovers
    <3>2. CASE q # p
      <4>1. Covers(nodeCache[m].Requested, Claim(c, q)) /\ Cached(m)
        BY <1>1, <1>2, <2>7, <3>2 DEF ChargedInv, Cached
      <4>2. CASE m = n
        BY <2>1, <2>4, <2>5, <4>1, <4>2, AddCovers
      <4>3. CASE m # n
        BY <2>4, <4>1, <4>3 DEF Cached
      <4> QED
        BY <4>2, <4>3
    <3> QED
      BY <3>1, <3>2
  <2>8. ChargedInv'
    BY <2>7 DEF ChargedInv, Covers, Claim
  <2>9. ASSUME NEW m \in Node, NEW c \in Board, NEW q \in Pod,
               q # p, OnBoard(m, c, p)', OnBoard(m, c, q)'
        PROVE  Req[p] \cap Req[q] = {}
    <3>1. m = n /\ c = b /\ StoredAt(n, p)' /\ OnBoard(n, b, q)
      BY <1>2, <1>3, <2>9
    <3>2. Healthy(ni)
      BY <2>4, <2>5, <2>6, <3>1 DEF StoredAt
    <3>3. Covers(ni.Requested, Claim(b, q))
      BY <1>5, <2>1, <3>1 DEF ChargedInv
    <3>4. OrinsOf(ni.Requested, b) = ni.Requested[b] /\ Req[q] \subseteq ni.Requested[b]
      BY <3>3, CoversClaim DEF OrinsOf
    <3>5. \A o \in Req[p] : o \notin OrinsOf(ni.Requested, b)
      BY <1>5, <2>1, <3>2
    <3> QED
      BY <3>4, <3>5
  <2>10. ApartInv'
    BY <1>2, <2>9 DEF ApartInv
  <2> QED
    BY <2>8, <2>10
<1> QED
  BY <1>4, <1>5 DEF AssumePod

-----------------------------------------------------------------------------
(***************************************************************************)
(* The handler of a node.                                                  *)
(***************************************************************************)

\* What ServiceInv says of the record of a handler.
Serves(c) ==
  c.pc # "idle" =>
    /\ ~Bound(c.pod) /\ c.ni = Current
    /\ c.pc = "assume" /\ Healthy(nodeCache[c.node])
         => \A o \in Req[c.pod] : o \notin OrinsOf(nodeCache[c.node].Requested, c.board)
    /\ c.pc \in {"update", "bind"} => StoredAt(c.node, c.pod)

\* No other handler is concerned with the pod or the node.
Alone(t, p, n) == \A u \in Binder \ {t} : ~InHand(u, p) /\ ~InService(u, n)

\* A step that binds no other pod and leaves the other nodes alone.
Elsewhere(p, n) ==
  /\ \A q \in Pod \ {p} : api'[q].node = api[q].node
  /\ \A m \in Node \ {n} : Cached(m) => /\ m \in DOMAIN nodeCache'
                                         /\ nodeCache'[m] = nodeCache[m]

LEMMA CallElsewhere ==
  ASSUME NEW p \in Pod, NEW n \in Node, NEW a, AssumePod(p, n, a) \/ ForgetPod(p, n, a),
         UNCHANGED api
  PROVE  Elsewhere(p, n)
<1>1. CASE UNCHANGED nodeCache
  BY <1>1 DEF Elsewhere, Cached
<1>2. ASSUME NEW nj, Cached(n), SetNode(n, nj)
      PROVE  Elsewhere(p, n)
  BY <1>2, OneLedger DEF Elsewhere, Cached
<1> QED
  BY <1>1, <1>2 DEF AssumePod, ForgetPod

\* The handler goes on, and the others do not notice.
LEMMA ServiceMoves ==
  ASSUME BInv, ServiceInv,
         NEW t \in Binder, NEW p \in Pod, NEW n \in Node, Alone(t, p, n), Elsewhere(p, n),
         NEW c, Continue(t, c), c.pc # "idle" => c.pod = p /\ c.node = n, Serves(c)'
  PROVE  ServiceInv'
<1>1. binder'[t] = c /\ \A u \in Binder \ {t} : binder'[u] = binder[u]
  BY DEF Continue, BInv, TypeInv
<1> SUFFICES ASSUME NEW u \in Binder, NEW d, d = binder'[u], d.pc # "idle"
             PROVE  /\ \A v \in Binder \ {u} : binder'[v].pc = "idle" \/ binder'[v].node # d.node
                    /\ api'[d.pod].node = NoNode /\ d.ni = Current
                    /\ d.pc = "assume" /\ Healthy(nodeCache'[d.node])
                         => \A o \in Req[d.pod] :
                              o \notin OrinsOf(nodeCache'[d.node].Requested, d.board)
                    /\ d.pc \in {"update", "bind"} =>
                         d.node \in DOMAIN nodeCache' /\ d.pod \in DOMAIN nodeCache'[d.node].Pods
  BY DEF ServiceInv, At, InService, Bound, StoredAt, Cached
<1>2. CASE u = t
  <2>1. d = c /\ d.node = n
    BY <1>1, <1>2
  <2>2. \A v \in Binder \ {u} : binder'[v].pc = "idle" \/ binder'[v].node # d.node
    BY <1>1, <1>2, <2>1 DEF Alone, InService, At
  <2> QED
    BY <2>1, <2>2 DEF Serves, Bound, StoredAt, Cached
<1>3. CASE u # t
  <2>1. d = binder[u] /\ ~At(u, "idle")
    BY <1>1, <1>3 DEF At
  <2>2. /\ \A v \in Binder \ {u} : ~InService(v, d.node)
        /\ ~Bound(d.pod) /\ d.ni = Current
        /\ d.pc = "assume" /\ Healthy(nodeCache[d.node])
             => \A o \in Req[d.pod] : o \notin OrinsOf(nodeCache[d.node].Requested, d.board)
        /\ d.pc \in {"update", "bind"} => StoredAt(d.node, d.pod)
    BY <2>1 DEF ServiceInv
  <2>3. d.pod \in Pod /\ d.node \in Node /\ Cached(d.node)
    BY <2>1, <2>2 DEF BInv, HandlerOK
  <2>4. d.pod # p /\ d.node # n
    BY <1>3, <2>1 DEF Alone, InHand, InService
  <2>5. \A v \in Binder \ {u} : binder'[v].pc = "idle" \/ binder'[v].node # d.node
    BY <1>1, <2>2, <2>4 DEF InService, At
  <2>6. /\ api'[d.pod].node = api[d.pod].node
        /\ d.node \in DOMAIN nodeCache' /\ nodeCache'[d.node] = nodeCache[d.node]
    BY <2>3, <2>4 DEF Elsewhere
  <2> QED
    BY <2>2, <2>5, <2>6 DEF Bound, StoredAt, Cached
<1> QED
  BY <1>2, <1>3

\* What the handler at work knows.
LEMMA AtService ==
  ASSUME BInv, KInv, PInv, NEW t \in Binder, NEW b, b = binder[t], b.pc # "idle"
  PROVE  /\ ~At(t, "idle") /\ b \in Handlers /\ HandlerOK(b) /\ KPod(b.pod, b)
         /\ b.pod \in Pod /\ b.node \in Node /\ Cached(b.node) /\ ~Bound(b.pod)
         /\ binder \in [Binder -> Handlers] /\ Alone(t, b.pod, b.node)
         /\ ApartInv /\ ChargedInv /\ ServiceInv /\ Serves(b) /\ b.ni = Current
<1>1. /\ ~At(t, "idle") /\ b \in Handlers /\ HandlerOK(b) /\ KPod(b.pod, b)
      /\ b.pod \in Pod /\ b.node \in Node
  BY AtWorkK
<1>2. /\ \A u \in Binder \ {t} : ~InService(u, b.node)
      /\ ~Bound(b.pod) /\ b.ni = Current
      /\ b.pc = "assume" /\ Healthy(nodeCache[b.node])
           => \A o \in Req[b.pod] : o \notin OrinsOf(nodeCache[b.node].Requested, b.board)
      /\ b.pc \in {"update", "bind"} => StoredAt(b.node, b.pod)
  BY <1>1 DEF PInv, ServiceInv
<1>3. Cached(b.node)
  BY <1>1, <1>2 DEF HandlerOK
<1>4. Serves(b)
  BY <1>2 DEF Serves
<1>5. Alone(t, b.pod, b.node)
  BY <1>1, <1>2 DEF Alone, KInv, HandInv
<1> QED
  BY <1>1, <1>2, <1>3, <1>4, <1>5 DEF PInv, BInv, TypeInv

\* retry.Do.
LEMMA RetryServes ==
  ASSUME BInv, KInv, PInv, NEW t \in Binder, NEW b, b = binder[t], b.pc # "idle",
         Retry(t), UNCHANGED api, Elsewhere(b.pod, b.node)
  PROVE  ServiceInv'
<1>1. PICK p : p = b.pod
  OBVIOUS
<1>2. PICK n : n = b.node
  OBVIOUS
<1>3. /\ b \in Handlers /\ p \in Pod /\ n \in Node /\ ~Bound(p) /\ b.ni = Current
      /\ Alone(t, p, n) /\ Elsewhere(p, n) /\ ServiceInv
  BY <1>1, <1>2, AtService
<1>4. ~Bound(p)'
  BY <1>3 DEF Bound
<1>5. CASE b.attempt < Attempts
  <2>1. PICK c : c = [b EXCEPT !.pc = "get", !.attempt = @ + 1]
    OBVIOUS
  <2>2. c.pc = "get" /\ c.pod = p /\ c.node = n /\ c.ni = Current
    BY <1>1, <1>2, <1>3, <1>5, <2>1, NextPlace
  <2>3. Continue(t, c)
    BY <1>5, <2>1 DEF Retry
  <2>4. Serves(c)'
    BY <1>4, <2>2 DEF Serves
  <2> QED
    BY <1>3, <2>2, <2>3, <2>4, ServiceMoves
<1>6. CASE ~(b.attempt < Attempts)
  <2>1. Continue(t, Idle)
    BY <1>6 DEF Retry
  <2>2. Serves(Idle)'
    BY IdleOK DEF Serves
  <2> QED
    BY <1>3, <2>1, <2>2, IdleOK, ServiceMoves
<1> QED
  BY <1>5, <1>6

\* GET, and the choice of a board: on a ledger that balances, a board with the
\* orins left is one where nobody is charged for them.
LEMMA ReadP ==
  ASSUME BInv, IInv, KInv, PInv, NEW t \in Binder, GetPod(t) \/ AllocateBoard(t)
  PROVE  PInv'
<1>1. PICK b : b = binder[t]
  OBVIOUS
<1>2. PICK p : p = b.pod
  OBVIOUS
<1>3. b.pc \in {"get", "allocate"} /\ UNCHANGED <<cacheVars, api, envVars>>
  BY <1>1 DEF GetPod, AllocateBoard, At, podVars
<1>4. /\ ~At(t, "idle") /\ b \in Handlers /\ p \in Pod /\ b.node \in Node /\ Cached(b.node)
      /\ ~Bound(p) /\ b.ni = Current /\ api[p] \in ApiPods
      /\ Alone(t, p, b.node) /\ ApartInv /\ ChargedInv /\ ServiceInv
  BY <1>1, <1>2, <1>3, AtService, AtWorkK
<1>5. /\ nodeCache' = nodeCache /\ api' = api /\ ~Bound(p)' /\ Elsewhere(p, b.node)
  BY <1>3, <1>4 DEF cacheVars, Bound, Elsewhere, Cached
<1>6. ApartInv' /\ ChargedInv'
  BY <1>4, <1>5, BooksKept DEF OnBoard, StoredAt, Cached, Live
<1>7. CASE Retry(t)
  <2>1. ServiceInv'
    BY <1>1, <1>2, <1>3, <1>5, <1>7, RetryServes
  <2> QED
    BY <1>6, <2>1 DEF PInv
<1>8. CASE GetPod(t) /\ ~Retry(t)
  <2>1. PICK c : c = [b EXCEPT !.pc = "allocate",
                               !.seen = [board |-> api[p].board, rv |-> api[p].rv]]
    OBVIOUS
  <2>2. c.pc = "allocate" /\ c.pod = p /\ c.node = b.node /\ c.ni = Current
    BY <1>2, <1>4, <2>1 DEF Handlers
  <2>3. Continue(t, c)
    BY <1>1, <1>2, <1>8, <2>1 DEF GetPod
  <2>4. Serves(c)'
    BY <1>5, <2>2 DEF Serves
  <2> QED
    BY <1>4, <1>5, <1>6, <2>2, <2>3, <2>4, ServiceMoves DEF PInv
<1>9. CASE AllocateBoard(t) /\ ~Retry(t)
  <2>1. PICK ni : ni = nodeCache[b.node]
    OBVIOUS
  <2>2. PICK board \in Allocate(ni.Allocatable, Req[p]) :
          /\ board # BoardIDNotFount
          /\ Continue(t, [b EXCEPT !.pc = "assume", !.board = board])
    BY <1>1, <1>2, <1>4, <1>9, <2>1 DEF AllocateBoard, Allocatable
  <2>3. board \in DOMAIN ni.Allocatable /\ Req[p] \subseteq ni.Allocatable[board]
    BY <2>2 DEF Allocate, Fitting
  <2>4. ASSUME Healthy(ni)
        PROVE  \A o \in Req[p] : o \notin OrinsOf(ni.Requested, board)
    <3>1. ni.Allocatable = DifferenceFromSuperset(ni.Total, ni.Requested)
      BY <1>4, <2>1, <2>4 DEF IInv, LedgerOK, Cached
    <3>2. ni.Allocatable[board] = ni.Total[board] \ OrinsOf(ni.Requested, board)
      BY <2>3, <3>1 DEF DifferenceFromSuperset
    <3> QED
      BY <2>3, <3>2
  <2>5. PICK c : c = [b EXCEPT !.pc = "assume", !.board = board]
    OBVIOUS
  <2>6. /\ c.pc = "assume" /\ c.pod = p /\ c.node = b.node /\ c.board = board
        /\ c.ni = Current /\ Continue(t, c)
    BY <1>2, <1>4, <2>2, <2>5 DEF Handlers
  <2>7. Serves(c)'
    BY <1>5, <2>1, <2>4, <2>6 DEF Serves
  <2> QED
    BY <1>4, <1>5, <1>6, <2>6, <2>7, ServiceMoves DEF PInv
<1> QED
  BY <1>7, <1>8, <1>9

\* AssumePod.
LEMMA AssumeP ==
  ASSUME BInv, IInv, KInv, PInv, NEW t \in Binder, Assume(t)
  PROVE  PInv'
<1>1. PICK b : b = binder[t]
  OBVIOUS
<1>2. PICK p : p = b.pod
  OBVIOUS
<1>3. /\ b.pc = "assume" /\ UNCHANGED <<api, shown, envVars>> /\ AssumePod(p, b.node, b.board)
      /\ IF AssumePodErr(p, b.node, b.board) THEN Retry(t)
         ELSE Continue(t, [b EXCEPT !.pc = "update"])
  BY <1>1, <1>2 DEF Assume, At, To, podVars
<1>4. /\ ~At(t, "idle") /\ b \in Handlers /\ HandlerOK(b) /\ KPod(p, b) /\ p \in Pod
      /\ b.node \in Node /\ Cached(b.node) /\ ~Bound(p) /\ b.ni = Current /\ Serves(b)
      /\ Alone(t, p, b.node) /\ ApartInv /\ ChargedInv /\ ServiceInv /\ TypeOK
  BY <1>1, <1>2, <1>3, AtService DEF IInv
<1>5. b.board \in Board /\ api' = api /\ ~Bound(p)' /\ Elsewhere(p, b.node)
  BY <1>3, <1>4, CallElsewhere DEF HandlerOK, Bound
<1>6. Healthy(nodeCache[b.node])
        => \A o \in Req[p] : o \notin OrinsOf(nodeCache[b.node].Requested, b.board)
  BY <1>2, <1>3, <1>4 DEF Serves
<1>7. CASE p \in podMaps
  <2>1. nodeCache' = nodeCache /\ Retry(t)
    BY <1>3, <1>7 DEF AssumePod, AssumePodErr
  <2>2. ApartInv' /\ ChargedInv'
    BY <1>4, <1>5, <2>1, BooksKept DEF OnBoard, StoredAt, Cached, Live
  <2>3. ServiceInv'
    BY <1>1, <1>2, <1>3, <1>5, <2>1, RetryServes
  <2> QED
    BY <2>2, <2>3 DEF PInv
<1>8. CASE p \notin podMaps
  <2>1. \A m \in Node : ~StoredAt(m, p)
    BY <1>4, <1>8 DEF KPod
  <2>2. ApartInv' /\ ChargedInv'
    BY <1>3, <1>4, <1>5, <1>6, <2>1, BooksAssumed
  <2>3. CASE AssumePodErr(p, b.node, b.board)
    <3>1. ServiceInv'
      BY <1>1, <1>2, <1>3, <1>5, <2>3, RetryServes
    <3> QED
      BY <2>2, <3>1 DEF PInv
  <2>4. CASE ~AssumePodErr(p, b.node, b.board)
    <3>1. PICK c : c = [b EXCEPT !.pc = "update"]
      OBVIOUS
    <3>2. c.pc = "update" /\ c.pod = p /\ c.node = b.node /\ c.ni = Current
      BY <1>2, <1>4, <3>1, NextPlace DEF Places
    <3>3. Continue(t, c)
      BY <1>3, <2>4, <3>1
    <3>4. StoredAt(b.node, p)'
      BY <1>3, <1>4, <1>5, <2>1, <2>4, AssumeFrame
    <3>5. Serves(c)'
      BY <1>5, <3>2, <3>4 DEF Serves
    <3> QED
      BY <1>4, <1>5, <2>2, <3>2, <3>3, <3>5, ServiceMoves DEF PInv
  <2> QED
    BY <2>3, <2>4
<1> QED
  BY <1>7, <1>8

\* ForgetPod.
LEMMA ForgetP ==
  ASSUME BInv, KInv, PInv, NEW t \in Binder, ForgetUpdate(t) \/ ForgetBind(t)
  PROVE  PInv'
<1>1. PICK b : b = binder[t]
  OBVIOUS
<1>2. PICK p : p = b.pod
  OBVIOUS
<1>3. PICK a : a = IF b.pc = "forgetUpdate" THEN b.seen.board ELSE b.board
  OBVIOUS
<1>4. /\ UNCHANGED <<api, shown, envVars>> /\ ForgetPod(p, b.node, a)
      /\ \/ b.pc = "forgetUpdate" /\ Retry(t)
         \/ b.pc = "forgetBind" /\ Continue(t, [b EXCEPT !.pc = "recover"])
  BY <1>1, <1>2, <1>3 DEF ForgetUpdate, ForgetBind, At, To, podVars
<1>5. /\ ~At(t, "idle") /\ b \in Handlers /\ KPod(p, b) /\ p \in Pod
      /\ b.node \in Node /\ ~Bound(p) /\ b.ni = Current
      /\ Alone(t, p, b.node) /\ ApartInv /\ ChargedInv /\ ServiceInv /\ TypeOK
  BY <1>1, <1>2, <1>4, AtService DEF BInv, TypeInv
<1>6. b.pc = "forgetUpdate" => a \notin Board
  BY <1>3, <1>5 DEF KPod
<1>7. Consistent(p, b.node, a)
  BY <1>3, <1>4, <1>5, <1>6 DEF Consistent, KPod, StoredAt
<1>8. api' = api /\ ~Bound(p)' /\ Elsewhere(p, b.node)
  BY <1>4, <1>5, CallElsewhere DEF Bound
<1>9. api[p].node # b.node
  BY <1>5, NodeAssumption DEF Bound
<1>10. ApartInv' /\ ChargedInv'
  BY <1>4, <1>5, <1>7, <1>8, <1>9, BooksReleased DEF Live
<1>11. CASE b.pc = "forgetUpdate"
  <2>1. ServiceInv'
    BY <1>1, <1>2, <1>4, <1>8, <1>11, RetryServes
  <2> QED
    BY <1>10, <2>1 DEF PInv
<1>12. CASE b.pc = "forgetBind"
  <2>1. PICK c : c = [b EXCEPT !.pc = "recover"]
    OBVIOUS
  <2>2. c.pc = "recover" /\ c.pod = p /\ c.node = b.node /\ c.ni = Current
    BY <1>2, <1>5, <2>1, NextPlace DEF Places
  <2>3. Continue(t, c)
    BY <1>4, <1>12, <2>1
  <2>4. Serves(c)'
    BY <1>8, <2>2 DEF Serves
  <2> QED
    BY <1>5, <1>8, <1>10, <2>2, <2>3, <2>4, ServiceMoves DEF PInv
<1> QED
  BY <1>4, <1>11, <1>12

\* The steps that place no pod and end none.
Stays ==
  \A p \in Pod : /\ api'[p].node = api[p].node
                 /\ Bound(p) => api'[p].board = api[p].board
                 /\ Live(p)' <=> Live(p)

\* The step that does: BIND takes effect, for a pod that is stored where it goes.
Placing(p, n, b) ==
  /\ Live(p) /\ ~Bound(p) /\ api[p].board = b
  /\ StoredAt(n, p) /\ nodeCache[n].Pods[p] = b
  /\ api' = [api EXCEPT ![p] = [api[p] EXCEPT !.node = n, !.rv = @ + 1]]

\* Such a step leaves the books alone, if it leaves the ledgers alone.
LEMMA StaysBooks ==
  ASSUME BInv, ApartInv, ChargedInv, UNCHANGED nodeCache,
         Stays \/ \E p \in Pod, n \in Node, b \in Board : Placing(p, n, b)
  PROVE  ApartInv' /\ ChargedInv'
<1>1. \A n \in Node, p \in Pod : Cached(n)' <=> Cached(n) /\ (StoredAt(n, p)' <=> StoredAt(n, p))
  BY DEF Cached, StoredAt
<1>2. \A n \in Node, b \in Board, p \in Pod : OnBoard(n, b, p)' => OnBoard(n, b, p)
  <2>1. CASE Stays
    <3> SUFFICES ASSUME NEW n \in Node, NEW b \in Board, NEW p \in Pod, OnBoard(n, b, p)'
                 PROVE  OnBoard(n, b, p)
      OBVIOUS
    <3>1. CASE StoredAt(n, p)' /\ nodeCache'[n].Pods[p] = b
      BY <3>1 DEF OnBoard, StoredAt, Cached
    <3>2. CASE Live(p)' /\ api'[p].node = n /\ api'[p].board = b
      <4>1. Bound(p)
        BY <2>1, <3>2, NodeAssumption DEF Stays, Bound
      <4> QED
        BY <2>1, <3>2, <4>1 DEF Stays, OnBoard
    <3> QED
      BY <3>1, <3>2 DEF OnBoard
  <2>2. ASSUME NEW p \in Pod, NEW n \in Node, NEW b \in Board, Placing(p, n, b)
        PROVE  \A m \in Node, c \in Board, q \in Pod : OnBoard(m, c, q)' => OnBoard(m, c, q)
    <3>1. /\ \A q \in Pod \ {p} : api'[q] = api[q]
          /\ api'[p].node = n /\ api'[p].board = b
      <4>1. PICK r : r = [api[p] EXCEPT !.node = n, !.rv = @ + 1]
        OBVIOUS
      <4>2. api[p] \in ApiPods /\ api[p].board = b
        BY <2>2 DEF Placing, BInv, TypeInv
      <4>3. r.node = n /\ r.board = b
        BY <4>1, <4>2 DEF ApiPods
      <4> QED
        BY <2>2, <4>1, <4>3 DEF Placing, BInv, TypeInv
    <3>2. OnBoard(n, b, p)
      BY <2>2 DEF Placing, OnBoard
    <3>3. ASSUME NEW m \in Node, NEW c \in Board, NEW q \in Pod, OnBoard(m, c, q)'
          PROVE  OnBoard(m, c, q)
      <4>1. CASE StoredAt(m, q)' /\ nodeCache'[m].Pods[q] = c
        BY <4>1 DEF OnBoard, StoredAt, Cached
      <4>2. CASE Live(q)' /\ api'[q].node = m /\ api'[q].board = c
        BY <3>1, <3>2, <4>2 DEF OnBoard, Live
      <4> QED
        BY <3>3, <4>1, <4>2 DEF OnBoard
    <3> QED
      BY <3>3
  <2> QED
    BY <2>1, <2>2
<1> QED
  BY <1>2, BooksKept DEF Cached

\* UPDATE, BIND and the removal of the annotation.
LEMMA WriteP ==
  ASSUME BInv, KInv, PInv, "bindReply" \notin Faults,
         NEW t \in Binder, Update(t) \/ BindPod(t) \/ Recover(t)
  PROVE  /\ PInv'
         /\ Stays \/ \E p \in Pod, n \in Node, b \in Board : Placing(p, n, b)
<1>1. PICK b : b = binder[t]
  OBVIOUS
<1>2. PICK p : p = b.pod
  OBVIOUS
<1>3. b.pc \in {"update", "bind", "recover"} /\ UNCHANGED <<cacheVars, envVars>>
  BY <1>1 DEF Update, BindPod, Recover, At
<1>4. /\ ~At(t, "idle") /\ b \in Handlers /\ HandlerOK(b) /\ KPod(p, b) /\ p \in Pod
      /\ b.node \in Node /\ ~Bound(p) /\ b.ni = Current /\ Serves(b)
      /\ Alone(t, p, b.node) /\ ApartInv /\ ChargedInv /\ ServiceInv
      /\ api \in [Pod -> ApiPods] /\ (Exists(p) => Live(p))
  BY <1>1, <1>2, <1>3, AtService DEF BInv, TypeInv, ShownInv, Exists, Live
<1>5. nodeCache' = nodeCache /\ (b.pc \in {"update", "bind"} => StoredAt(b.node, p)')
  BY <1>2, <1>3, <1>4 DEF cacheVars, Serves, StoredAt, Cached
<1>6. ASSUME NEW c, Continue(t, c), c.pc # "idle" => c.pod = p /\ c.node = b.node /\ c.ni = Current,
             c.pc \in {"idle", "bind", "forgetUpdate", "forgetBind"},
             c.pc = "bind" => b.pc = "update",
             ~Bound(p)' \/ c.pc = "idle",
             \A q \in Pod \ {p} : api'[q].node = api[q].node
      PROVE  ServiceInv'
  <2>1. Serves(c)'
    BY <1>5, <1>6 DEF Serves
  <2>2. Elsewhere(p, b.node)
    BY <1>5, <1>6 DEF Elsewhere, Cached
  <2> QED
    BY <1>4, <1>6, <2>1, <2>2, ServiceMoves
<1>7. ASSUME NEW pc \in Places
      PROVE  LET c == [b EXCEPT !.pc = pc] IN
             c.pc = pc /\ c.pod = p /\ c.node = b.node /\ c.ni = Current
  BY <1>2, <1>4, NextPlace
<1>8. ASSUME NEW x \in Annotation, UpdatePod(p, x)
      PROVE  Stays
  <2>1. /\ \A q \in Pod \ {p} : api'[q] = api[q]
        /\ api'[p].node = api[p].node /\ api'[p].st = api[p].st
    BY <1>4, <1>8, UpdateWrites
  <2> QED
    BY <1>4, <2>1 DEF Stays, Live
<1>9. UNCHANGED podVars => Stays
  BY DEF Stays, Live, podVars
<1>10. Stays => ~Bound(p)' /\ \A q \in Pod : api'[q].node = api[q].node
  BY <1>4 DEF Stays, Bound
<1>11. Stays \/ (\E q \in Pod, n \in Node, x \in Board : Placing(q, n, x)) => ApartInv' /\ ChargedInv'
  BY <1>4, <1>5, StaysBooks
<1>12. CASE Update(t)
  <2>1. b.board \in Annotation
    BY <1>1, <1>4, <1>12 DEF Update, At, HandlerOK, Annotation
  <2>2. Stays
    BY <1>1, <1>2, <1>8, <1>9, <1>12, <2>1 DEF Update
  <2>3. PICK pc \in {"bind", "forgetUpdate"} : Continue(t, [b EXCEPT !.pc = pc])
    BY <1>1, <1>12 DEF Update, To
  <2>4. b.pc = "update"
    BY <1>1, <1>12 DEF Update, At
  <2>5. PICK c : c = [b EXCEPT !.pc = pc]
    OBVIOUS
  <2>6. ServiceInv'
    BY <1>6, <1>7, <1>10, <2>2, <2>3, <2>4, <2>5 DEF Places
  <2> QED
    BY <1>11, <2>2, <2>6 DEF PInv
<1>13. CASE Recover(t)
  <2>1. Stays
    <3>1. NoBoard \in Annotation
      BY DEF Annotation
    <3> QED
      BY <1>1, <1>2, <1>8, <1>9, <1>13, <3>1 DEF Recover
  <2>2. Continue(t, Idle)
    BY <1>13 DEF Recover
  <2>3. ServiceInv'
    BY <1>6, <1>10, <2>1, <2>2, IdleOK
  <2> QED
    BY <1>11, <2>1, <2>3 DEF PInv
<1>14. CASE BindPod(t) /\ UNCHANGED podVars /\ To(t, "forgetBind")
  <2>1. PICK c : c = [b EXCEPT !.pc = "forgetBind"]
    OBVIOUS
  <2>2. Continue(t, c)
    BY <1>1, <1>14, <2>1 DEF To
  <2>3. ServiceInv'
    BY <1>6, <1>7, <1>9, <1>10, <1>14, <2>1, <2>2 DEF Places
  <2> QED
    BY <1>9, <1>11, <1>14, <2>3 DEF PInv
<1>15. CASE /\ BindPod(t) /\ Live(p) /\ Continue(t, Idle)
            /\ Write(p, [api[p] EXCEPT !.node = b.node, !.rv = @ + 1])
  <2>1. b.pc = "bind"
    BY <1>1, <1>15 DEF BindPod, At
  <2>2. api[p].board = b.board /\ b.board \in Board
    BY <1>2, <1>4, <1>15, <2>1 DEF HandlerOK
  <2>3. StoredAt(b.node, p) /\ nodeCache[b.node].Pods[p] = b.board
    BY <1>2, <1>4, <2>1 DEF Serves, KPod
  <2>4. Placing(p, b.node, b.board)
    BY <1>4, <1>15, <2>2, <2>3 DEF Placing, Write
  <2>5. ServiceInv'
    <3>1. \A q \in Pod \ {p} : api'[q].node = api[q].node
      BY <1>4, <1>15 DEF Write
    <3> QED
      BY <1>6, <1>15, <3>1, IdleOK
  <2> QED
    BY <1>4, <1>11, <2>2, <2>4, <2>5 DEF PInv
<1> QED
  BY <1>1, <1>2, <1>12, <1>13, <1>14, <1>15 DEF BindPod, Fault

\* A request arrives, for a pod that is not bound, while no other is at work on
\* the pod or on the node.
LEMMA StartP ==
  ASSUME BInv, PInv, OneByOne, NEW t \in Binder, NEW p \in Pod, NEW n \in Node, Start(t, p, n)
  PROVE  PInv' /\ Stays
<1>1. /\ At(t, "idle") /\ nodeCache' = nodeCache /\ api' = api
      /\ binder \in [Binder -> Handlers] /\ ApartInv /\ ChargedInv /\ ServiceInv
  BY DEF Start, cacheVars, podVars, BInv, TypeInv, PInv
<1>2. Stays
  BY <1>1 DEF Stays, Live
<1>3. ApartInv' /\ ChargedInv'
  BY <1>1, <1>2, StaysBooks
<1>4. CASE UNCHANGED binder
  <2>1. binder' = binder
    BY <1>4
  <2>2. ServiceInv'
    BY <1>1, <2>1 DEF ServiceInv, InService, At, Bound, StoredAt, Cached, Healthy
  <2> QED
    BY <1>2, <1>3, <2>2 DEF PInv
<1>5. CASE Continue(t, [Idle EXCEPT !.pc = "get", !.pod = p, !.node = n, !.attempt = 1])
  <2>1. PICK c : c = [Idle EXCEPT !.pc = "get", !.pod = p, !.node = n, !.attempt = 1]
    OBVIOUS
  <2>2. c.pc = "get" /\ c.pod = p /\ c.node = n /\ c.ni = Current
    BY <2>1, IdleOK DEF Handlers
  <2>3. Continue(t, c) /\ binder'[t] = c
    BY <1>1, <1>5, <2>1 DEF Continue
  <2>4. ~Bound(p) /\ Alone(t, p, n) /\ Elsewhere(p, n)
    <3>1. /\ ~Bound(p) /\ \A u \in Binder : ~InHand(u, p)
          /\ \A u \in Binder : ~InService(u, n)
      BY DEF Start, Asked, OneByOne, Busy, InHand, InService
    <3> QED
      BY <1>1, <3>1 DEF Alone, Elsewhere, Cached
  <2>5. Serves(c)'
    BY <1>1, <2>2, <2>4 DEF Serves, Bound
  <2>6. ServiceInv'
    BY <1>1, <2>2, <2>3, <2>4, <2>5, ServiceMoves
  <2> QED
    BY <1>2, <1>3, <2>6 DEF PInv
<1> QED
  BY <1>4, <1>5 DEF Start

-----------------------------------------------------------------------------
(***************************************************************************)
(* Around the handler, when the lister has caught up.                      *)
(***************************************************************************)

\* A node info built from the live pods of the node is charged for all of them.
LEMMA BuiltCharges ==
  ASSUME BInv, KInv, Settled, NEW n \in Node, NEW S \in Listed(n), NEW total \in Totals,
         NEW ni \in NewNodeInfo(total, BoardsOf(S))
  PROVE  /\ \A q \in Pod : q \in DOMAIN ni.Pods =>
              Live(q) /\ api[q].node = n /\ ni.Pods[q] = api[q].board
         /\ \A q \in Pod : Live(q) /\ api[q].node = n =>
              Covers(ni.Requested, Claim(api[q].board, q))
<1>1. S = {q \in Pod : Live(q) /\ api[q].node = n}
  <2>1. \A q \in Pod : Live(q) /\ api[q].node = n => Active(q) # {}
    BY NodeAssumption DEF BInv, ShownInv, Bound
  <2> QED
    BY <2>1 DEF Listed, BoundTo
<1>2. \A q \in S : q \in Pod /\ api[q].board \in Board
  BY <1>1, NodeAssumption DEF BInv, BoundHasBoard, Bound
<1>3. PICK pods : pods = BoardsOf(S)
  OBVIOUS
<1>4. DOMAIN pods = S /\ pods \in [S -> Board] /\ \A q \in S : pods[q] = api[q].board
  <2>1. DOMAIN pods = S /\ \A q \in S : pods[q] = api[q].board
    BY <1>3, BoardsListed
  <2>2. pods = [q \in S |-> pods[q]]
    BY <1>3, <2>1 DEF BoardsOf
  <2> QED
    BY <1>2, <2>1, <2>2
<1>5. pods \in PodsWith(Board) /\ pods \in PodsWith(Annotation)
  BY <1>2, <1>4, PodsType DEF Annotation
<1>6. total \in BoardDetails
  BY TotalsAssumption
<1>7. Placed(pods) = S
  BY <1>4 DEF Placed
<1>8. PICK charged : charged = Restricted(pods, S)
  OBVIOUS
<1>9. /\ ni.Requested = RequestOf(charged) /\ charged \in PodsWith(Board)
      /\ DOMAIN charged = S /\ \A q \in S : charged[q] = api[q].board
  <2>1. ni.Requested = RequestOf(Restricted(pods, Placed(pods)))
    BY <1>3, <1>5, <1>6, NewNodeInfoOK
  <2>2. S \subseteq {q \in DOMAIN pods : pods[q] \in Board}
    BY <1>4
  <2>3. /\ charged \in PodsWith(Board) /\ DOMAIN charged = S
        /\ \A q \in S : charged[q] = pods[q]
    BY <1>5, <1>8, <2>2, RestrictedType
  <2> QED
    BY <1>4, <1>7, <1>8, <2>1, <2>3
<1>10. \A d : Covers(d, d)
  BY DEF Covers
<1>11. \A q \in S : Covers(ni.Requested, Claim(api[q].board, q))
  BY <1>9, <1>10, RequestOfType
<1>12. \A q \in DOMAIN ni.Pods : q \in S /\ ni.Pods[q] = api[q].board
  BY <1>3, <1>4, NewNodeInfoPods
<1> QED
  BY <1>1, <1>11, <1>12

\* A node info is replaced by one like that.
LEMMA BooksRebuilt ==
  ASSUME ApartInv, ChargedInv, NEW n \in Node, NEW nj, SetNode(n, nj), UNCHANGED api,
         \A q \in Pod : q \in DOMAIN nj.Pods =>
           Live(q) /\ api[q].node = n /\ nj.Pods[q] = api[q].board,
         \A q \in Pod : Live(q) /\ api[q].node = n =>
           Covers(nj.Requested, Claim(api[q].board, q))
  PROVE  ApartInv' /\ ChargedInv'
<1>1. /\ nodeCache'[n] = nj /\ DOMAIN nodeCache' = DOMAIN nodeCache \cup {n}
      /\ \A m \in Node \ {n} : m \in DOMAIN nodeCache => nodeCache'[m] = nodeCache[m]
  BY DEF SetNode
<1>2. ASSUME NEW m \in Node, NEW b \in Board, NEW q \in Pod, OnBoard(m, b, q)'
      PROVE  /\ OnBoard(m, b, q)
             /\ m = n => Live(q) /\ api[q].node = n /\ api[q].board = b
  <2>1. CASE Live(q)' /\ api'[q].node = m /\ api'[q].board = b
    BY <2>1 DEF OnBoard, Live
  <2>2. CASE StoredAt(m, q)' /\ nodeCache'[m].Pods[q] = b
    <3>1. CASE m = n
      <4>1. q \in DOMAIN nj.Pods /\ nj.Pods[q] = b
        BY <1>1, <2>2, <3>1 DEF StoredAt
      <4> QED
        BY <3>1, <4>1 DEF OnBoard
    <3>2. CASE m # n
      BY <1>1, <2>2, <3>2 DEF OnBoard, StoredAt, Cached
    <3> QED
      BY <3>1, <3>2
  <2> QED
    BY <1>2, <2>1, <2>2 DEF OnBoard
<1>3. ASSUME NEW m \in Node, NEW b \in Board, NEW q \in Pod, Cached(m)', OnBoard(m, b, q)'
      PROVE  Covers(nodeCache'[m].Requested, Claim(b, q))
  <2>1. CASE m = n
    BY <1>1, <1>2, <1>3, <2>1
  <2>2. CASE m # n
    <3>1. Cached(m) /\ nodeCache'[m] = nodeCache[m] /\ OnBoard(m, b, q)
      BY <1>1, <1>2, <1>3, <2>2 DEF Cached
    <3> QED
      BY <3>1 DEF ChargedInv
  <2> QED
    BY <2>1, <2>2
<1>4. ChargedInv'
  BY <1>3 DEF ChargedInv, Covers, Claim
<1>5. ApartInv'
  BY <1>2 DEF ApartInv
<1> QED
  BY <1>4, <1>5

\* Nodes come; they change and go when no handler is at work.
LEMMA NodesP ==
  ASSUME BInv, KInv, PInv, Settled, NEW n \in Node,
         NodeAdded(n) \/ NodeDeleted(n) \/ \E total \in Totals : NodeUpdated(n, total)
  PROVE  PInv' /\ Stays
<1>1. /\ api' = api /\ ApartInv /\ ChargedInv /\ ServiceInv /\ capacity[n] \in Totals
      /\ \A t \in Binder : HandlerOK(binder[t])
  BY DEF NodeAdded, NodeDeleted, NodeUpdated, podVars, PInv, BInv, TypeInv
<1>2. Stays
  BY <1>1 DEF Stays, Live
<1>3. CASE NodeAdded(n)
  <2>1. PICK S \in Listed(n) : AddNode(n, capacity[n], BoardsOf(S))
    BY <1>3 DEF NodeAdded
  <2>2. PICK ni \in NewNodeInfo(capacity[n], BoardsOf(S)) : SetNode(n, ni)
    BY <2>1 DEF AddNode
  <2>3. ApartInv' /\ ChargedInv'
    BY <1>1, <2>2, BuiltCharges, BooksRebuilt
  <2>4. ~Cached(n) /\ binder' = binder
    BY <1>3 DEF NodeAdded
  <2>5. \A m \in DOMAIN nodeCache : m \in DOMAIN nodeCache' /\ nodeCache'[m] = nodeCache[m]
    BY <2>2, <2>4 DEF SetNode, Cached
  <2>6. \A t \in Binder : ~At(t, "idle") => binder[t].node \in DOMAIN nodeCache
    BY <1>1 DEF ServiceInv, HandlerOK, At, Cached
  <2>7. ServiceInv'
    BY <1>1, <2>4, <2>5, <2>6 DEF ServiceInv, InService, At, Bound, StoredAt, Cached, Healthy
  <2> QED
    BY <1>2, <2>3, <2>7 DEF PInv
<1>4. CASE NodeDeleted(n) \/ \E total \in Totals : NodeUpdated(n, total)
  <2>1. \A t \in Binder : At(t, "idle")
    BY <1>4 DEF NodeDeleted, NodeUpdated, Quiet
  <2>2. \A t \in Binder : binder'[t].pc = binder[t].pc
    BY NodesFrame
  <2>3. ServiceInv'
    BY <2>1, <2>2 DEF ServiceInv, At
  <2>4. CASE NodeDeleted(n)
    <3>1. \A m \in Node : Cached(m)' => Cached(m) /\ nodeCache'[m] = nodeCache[m]
      BY <2>4 DEF NodeDeleted, DeleteNode, Cached
    <3>2. \A m \in Node, b \in Board, q \in Pod : OnBoard(m, b, q)' => OnBoard(m, b, q)
      BY <1>1, <3>1 DEF OnBoard, StoredAt, Live
    <3>3. ApartInv' /\ ChargedInv'
      BY <1>1, <3>1, <3>2, BooksKept
    <3> QED
      BY <1>2, <2>3, <3>3 DEF PInv
  <2>5. ASSUME NEW total \in Totals, NodeUpdated(n, total)
        PROVE  ApartInv' /\ ChargedInv'
    <3>1. PICK S \in Listed(n) : UpdateNode(n, capacity[n], total, BoardsOf(S))
      BY <2>5 DEF NodeUpdated
    <3>2. CASE UNCHANGED nodeCache
      BY <1>1, <1>2, <3>2, StaysBooks
    <3>3. CASE ~UNCHANGED nodeCache
      <4>1. PICK newNi \in NewNodeInfo(total, BoardsOf(S)),
                 oldNi \in NewNodeInfo(capacity[n], BoardsOf(S)) :
              SetNode(n, UpdatedNodeInfo(newNi, oldNi))
        BY <3>1, <3>3 DEF UpdateNode
      <4>2. PICK nj : nj = UpdatedNodeInfo(newNi, oldNi)
        OBVIOUS
      <4>3. nj.Pods = newNi.Pods /\ nj.Requested = oldNi.Requested
        BY <4>2 DEF UpdatedNodeInfo
      <4>4. /\ \A q \in Pod : q \in DOMAIN newNi.Pods =>
                 Live(q) /\ api[q].node = n /\ newNi.Pods[q] = api[q].board
            /\ \A q \in Pod : Live(q) /\ api[q].node = n =>
                 Covers(oldNi.Requested, Claim(api[q].board, q))
        BY <1>1, <2>5, BuiltCharges
      <4> QED
        BY <1>1, <4>1, <4>2, <4>3, <4>4, BooksRebuilt
    <3> QED
      BY <3>2, <3>3
  <2> QED
    BY <1>2, <1>4, <2>3, <2>4, <2>5 DEF PInv
<1> QED
  BY <1>3, <1>4

\* The step in which a pod completes, or is deleted before it is bound.
Ending(p) ==
  /\ Live(p) /\ ~Live(p)'
  /\ \A q \in Pod : /\ api'[q].node = api[q].node /\ api'[q].board = api[q].board
                    /\ q # p => (Live(q)' <=> Live(q))

\* The informer's events: the release of a pod frees its board for the others.
LEMMA PodsP ==
  ASSUME BInv, IInv, KInv, PInv, NEW p \in Pod, PodMoves(p)
  PROVE  PInv' /\ (Stays \/ Ending(p))
<1>1. /\ TypeOK /\ api \in [Pod -> ApiPods] /\ binder' = binder
      /\ binder \in [Binder -> Handlers] /\ \A t \in Binder : HandlerOK(binder[t])
      /\ ApartInv /\ ChargedInv /\ ServiceInv /\ StoredInv
  BY PodsFrame DEF BInv, TypeInv, KInv, PInv
<1>2. ASSUME NEW q \in Pod
      PROVE  /\ api'[q].node = api[q].node /\ api'[q].board = api[q].board
             /\ q # p => (Live(q)' <=> Live(q))
             /\ Live(q)' => Live(q)
             /\ Bound(q)' <=> Bound(q)
  BY PodsFrame DEF Bound
<1>3. Stays \/ Ending(p)
  BY <1>2 DEF Stays, Ending
<1>4. ASSUME UNCHANGED nodeCache
      PROVE  PInv'
  <2>1. \A n \in Node, b \in Board, q \in Pod : OnBoard(n, b, q)' => OnBoard(n, b, q)
    BY <1>2, <1>4 DEF OnBoard, StoredAt, Cached
  <2>2. ApartInv' /\ ChargedInv'
    BY <1>1, <1>4, <2>1, BooksKept DEF Cached
  <2>3. \A t \in Binder : ~At(t, "idle") => binder[t].pod \in Pod
    BY <1>1 DEF HandlerOK, At
  <2>4. ServiceInv'
    BY <1>1, <1>2, <1>4, <2>3 DEF ServiceInv, InService, At, Bound, StoredAt, Cached, Healthy
  <2> QED
    BY <2>2, <2>4 DEF PInv
<1>5. CASE UNCHANGED cacheVars
  BY <1>3, <1>4, <1>5 DEF cacheVars
<1>6. CASE ~Live(p) /\ ~Live(p)' /\ DeletePod(p, api[p].node, api[p].board)
  <2>4. CASE UNCHANGED nodeCache
    BY <1>3, <1>4, <2>4
  <2>5. CASE ~UNCHANGED nodeCache
    <3> PICK n : n = api[p].node
      OBVIOUS
    <3> PICK a : a = api[p].board
      OBVIOUS
    <3>1. /\ DeletePod(p, n, a) /\ Bound(p) /\ Cached(n) /\ n \in Node
          /\ SetNode(n, deletePod(nodeCache[n], p, a))
      BY <1>1, <1>6, <2>5 DEF DeletePod, Ignored, Bound, TypeOK, Cached
    <3>2. Consistent(p, n, a)
      BY <1>1, <3>1 DEF Consistent, StoredInv, StoredAt
    <3>3. ApartInv' /\ ChargedInv'
      BY <1>1, <1>2, <1>6, <3>1, <3>2, BooksReleased
    <3>4. PICK ni : ni = nodeCache[n]
      OBVIOUS
    <3>5. PICK nj : nj = deletePod(ni, p, a)
      OBVIOUS
    <3>6. /\ DOMAIN nodeCache' = DOMAIN nodeCache /\ nodeCache'[n] = nj
          /\ \A m \in DOMAIN nodeCache : m # n => nodeCache'[m] = nodeCache[m]
      BY <3>1, <3>4, <3>5, OneLedger
    <3>7. LedgerOK(ni) /\ ni \in NodeInfos
      BY <3>1, <3>4 DEF IInv, LedgerOK, Cached
    <3>8. Healthy(nj) => Healthy(ni)
      BY <3>2, <3>1, <3>4, <3>5, <3>7, DeletePodOK DEF Consistent
    <3>9. \A b : OrinsOf(nj.Requested, b) \subseteq OrinsOf(ni.Requested, b)
      BY <3>5, <3>7, ReleaseCovers
    <3>10. ASSUME NEW t \in Binder, binder[t].pc # "idle"
           PROVE  /\ \A u \in Binder \ {t} : ~InService(u, binder[t].node)
                  /\ ~Bound(binder[t].pod) /\ ~Bound(binder[t].pod)' /\ binder[t].ni = Current
                  /\ binder[t].pod \in Pod \ {p} /\ binder[t].node \in Node
                  /\ Cached(binder[t].node)
                  /\ binder[t].pc = "assume" /\ Healthy(nodeCache[binder[t].node])
                       => \A o \in Req[binder[t].pod] :
                            o \notin OrinsOf(nodeCache[binder[t].node].Requested, binder[t].board)
                  /\ binder[t].pc \in {"update", "bind"} => StoredAt(binder[t].node, binder[t].pod)
      <4>1. /\ \A u \in Binder \ {t} : ~InService(u, binder[t].node)
            /\ ~Bound(binder[t].pod) /\ binder[t].ni = Current
            /\ binder[t].pc = "assume" /\ Healthy(nodeCache[binder[t].node])
                 => \A o \in Req[binder[t].pod] :
                      o \notin OrinsOf(nodeCache[binder[t].node].Requested, binder[t].board)
            /\ binder[t].pc \in {"update", "bind"} => StoredAt(binder[t].node, binder[t].pod)
        BY <1>1, <3>10 DEF ServiceInv, At
      <4>2. binder[t].pod \in Pod /\ binder[t].node \in Node /\ Cached(binder[t].node)
        BY <1>1, <3>10, <4>1 DEF HandlerOK
      <4>3. binder[t].pod # p /\ ~Bound(binder[t].pod)'
        BY <1>1, <1>2, <3>1, <4>1, <4>2 DEF Bound
      <4> QED
        BY <4>1, <4>2, <4>3
    <3>11. \A m \in Node, q \in Pod \ {p} : StoredAt(m, q) => StoredAt(m, q)'
      BY <1>1, <3>1, ReleaseFrame
    <3>12. ASSUME NEW t \in Binder, binder[t].pc # "idle", NEW c, c = binder[t]
           PROVE  /\ c.pc = "assume" /\ Healthy(nodeCache'[c.node])
                       => \A o \in Req[c.pod] : o \notin OrinsOf(nodeCache'[c.node].Requested, c.board)
                  /\ c.pc \in {"update", "bind"} => StoredAt(c.node, c.pod)'
      <4>1. CASE c.node = n
        BY <3>4, <3>6, <3>8, <3>9, <3>10, <3>11, <3>12, <4>1
      <4>2. CASE c.node # n
        BY <3>6, <3>10, <3>11, <3>12, <4>2 DEF Cached
      <4> QED
        BY <4>1, <4>2
    <3>13. ServiceInv'
      <4> SUFFICES ASSUME NEW t \in Binder, binder[t].pc # "idle", NEW c, c = binder[t]
                   PROVE  /\ \A u \in Binder \ {t} :
                               binder[u].pc = "idle" \/ binder[u].node # c.node
                          /\ api'[c.pod].node = NoNode /\ c.ni = Current
                          /\ c.pc = "assume" /\ Healthy(nodeCache'[c.node])
                               => \A o \in Req[c.pod] :
                                    o \notin OrinsOf(nodeCache'[c.node].Requested, c.board)
                          /\ c.pc \in {"update", "bind"} =>
                               c.node \in DOMAIN nodeCache' /\ c.pod \in DOMAIN nodeCache'[c.node].Pods
        BY <1>1 DEF ServiceInv, InService, At, Bound, StoredAt, Cached
      <4>1. binder[t].pod \in Pod /\ ~Bound(binder[t].pod)
        BY <3>10
      <4>2. api'[c.pod].node = NoNode
        BY <1>2, <4>1 DEF Bound
      <4> QED
        BY <3>10, <3>12, <4>2 DEF InService, At, StoredAt, Cached
    <3> QED
      BY <1>3, <3>3, <3>13 DEF PInv
  <2> QED
    BY <2>4, <2>5
<1> QED
  BY <1>5, <1>6, PodsFrame

-----------------------------------------------------------------------------
(***************************************************************************)
(* The placement.                                                          *)
(***************************************************************************)

\* At the start nothing is placed, stored or under way.
LEMMA PStart ==
  ASSUME Init
  PROVE  /\ PInv
         /\ \A p \in Pod : Live(p) /\ ~Bound(p)
<1>1. /\ \A t \in Binder : At(t, "idle")
      /\ \A p \in Pod : Live(p) /\ ~Bound(p)
      /\ \A n \in Node : ~Cached(n)
  BY IdleOK DEF Init, CacheInit, At, Live, Bound, Cached
<1>2. \A n \in Node, b \in Board, p \in Pod : ~OnBoard(n, b, p)
  BY <1>1, NodeAssumption DEF OnBoard, StoredAt, Bound
<1> QED
  BY <1>1, <1>2 DEF PInv, ApartInv, ChargedInv, ServiceInv

\* Every step keeps the invariant, and places a pod, ends one, or does neither.
LEMMA PStep ==
  ASSUME BInv, IInv, KInv, PInv, Settled, "bindReply" \notin Faults, OneByOne, [BindNext]_vars
  PROVE  /\ PInv'
         /\ \/ Stays
            \/ \E p \in Pod : Ending(p)
            \/ \E p \in Pod, n \in Node, b \in Board : Placing(p, n, b)
<1>1. CASE UNCHANGED vars
  <2>1. UNCHANGED <<nodeCache, api, binder>>
    BY <1>1 DEF vars, cacheVars, podVars
  <2> QED
    BY <2>1 DEF PInv, ApartInv, ChargedInv, ServiceInv, InService, OnBoard, StoredAt, Cached,
                Live, At, Bound, Stays
<1>2. ASSUME NEW t \in Binder, NEW p \in Pod, NEW n \in Node, Start(t, p, n)
      PROVE  PInv' /\ Stays
  BY <1>2, StartP
<1>3. ASSUME NEW t \in Binder, BinderStep(t)
      PROVE  PInv' /\ (Stays \/ \E p \in Pod, n \in Node, b \in Board : Placing(p, n, b))
  <2>1. CASE GetPod(t) \/ AllocateBoard(t) \/ Assume(t) \/ ForgetUpdate(t) \/ ForgetBind(t)
    <3>1. UNCHANGED api
      BY <2>1 DEF GetPod, AllocateBoard, Assume, ForgetUpdate, ForgetBind, podVars
    <3>2. PInv'
      BY <2>1, ReadP, AssumeP, ForgetP
    <3> QED
      BY <3>1, <3>2 DEF Stays, Live
  <2>2. CASE Update(t) \/ BindPod(t) \/ Recover(t)
    BY <2>2, WriteP
  <2> QED
    BY <1>3, <2>1, <2>2 DEF BinderStep
<1>4. ASSUME NEW n \in Node,
             NodeAdded(n) \/ NodeDeleted(n) \/ \E total \in Totals : NodeUpdated(n, total)
      PROVE  PInv' /\ Stays
  BY <1>4, NodesP
<1>5. ASSUME NEW p \in Pod, PodMoves(p)
      PROVE  PInv' /\ (Stays \/ Ending(p))
  BY <1>5, PodsP
<1> QED
  BY <1>1, <1>2, <1>3, <1>4, <1>5 DEF BindNext, PodMoves

\* The place of a pod as Placement sees it.
PlaceOf(p) == IF Bound(p) THEN <<api[p].node, api[p].board>> ELSE NoNode

\* A bound pod has a place of its node, and only a bound pod has one.
LEMMA PlaceOfOK ==
  ASSUME BInv, KInv, NEW p \in Pod
  PROVE  /\ Bound(p) => api[p].node \in Node /\ api[p].board \in Board
         /\ \A n \in Node, b \in Board :
              PlaceOf(p) = <<n, b>> <=> Bound(p) /\ api[p].node = n /\ api[p].board = b
<1>1. Bound(p) => api[p].node \in Node /\ api[p].board \in Board
  BY DEF BInv, TypeInv, ApiPods, KInv, BoardInv, Bound
<1>2. \A n \in Node, b \in Board : NoNode # <<n, b>>
  BY PlaceAssumption
<1> QED
  BY <1>1, <1>2 DEF PlaceOf

\* Each of these steps is one of Placement.
LEMMA StepPlaces ==
  ASSUME BInv, KInv, PInv,
         \/ Stays
         \/ \E p \in Pod : Ending(p)
         \/ \E p \in Pod, n \in Node, b \in Board : Placing(p, n, b)
  PROVE  [Promise!PlacementNext]_(Promise!placementVars)
<1> DEFINE placed == [p \in Pod |-> IF Bound(p) THEN <<api[p].node, api[p].board>> ELSE NoNode]
           ended == {p \in Pod : ~Live(p)}
<1>1. api \in [Pod -> ApiPods]
  BY DEF BInv, TypeInv
<1>2. CASE Stays
  <2>1. placed' = placed
    BY <1>2 DEF Stays, Bound
  <2>2. ended' = ended
    BY <1>2 DEF Stays
  <2> QED
    BY <2>1, <2>2 DEF Promise!placementVars
<1>3. ASSUME NEW p \in Pod, Ending(p)
      PROVE  Promise!End(p)
  <2>1. placed' = placed
    BY <1>3 DEF Ending, Bound
  <2>2. p \notin ended /\ ended' = ended \cup {p}
    BY <1>3 DEF Ending
  <2> QED
    BY <2>1, <2>2 DEF Promise!End
<1>4. ASSUME NEW p \in Pod, NEW n \in Node, NEW b \in Board, Placing(p, n, b)
      PROVE  Promise!Place(p, n, b)
  <2>1. /\ Live(p) /\ ~Bound(p) /\ \A q \in Pod \ {p} : api'[q] = api[q]
        /\ api'[p].st = api[p].st /\ api'[p].node = n /\ api'[p].board = b
    BY <1>1, <1>4 DEF Placing, ApiPods
  <2>2. p \notin ended /\ placed[p] = NoNode /\ ended' = ended
    BY <2>1 DEF Live
  <2>3. placed' = [placed EXCEPT ![p] = <<n, b>>]
    BY <2>1, NodeAssumption DEF Bound
  <2>4. ASSUME NEW q \in Pod \ ended, placed[q] = <<n, b>>
        PROVE  Req[p] \cap Req[q] = {}
    <3>1. PlaceOf(q) = <<n, b>>
      BY <2>4 DEF PlaceOf
    <3>2. OnBoard(n, b, q) /\ Bound(q)
      BY <2>4, <3>1, PlaceOfOK DEF OnBoard
    <3>3. OnBoard(n, b, p)
      BY <1>4 DEF Placing, OnBoard
    <3> QED
      BY <2>1, <3>2, <3>3 DEF PInv, ApartInv
  <2>5. \A q \in Promise!Holders(n, b) : Req[p] \cap Req[q] = {}
    BY <2>4 DEF Promise!Holders
  <2> QED
    BY <2>2, <2>3, <2>5 DEF Promise!Place
<1> QED
  BY <1>2, <1>3, <1>4 DEF Promise!PlacementNext

\* The inductive invariant of the placement.  The hypotheses are those of the
\* comment before Exclusive, that requests come one at a time for a pod and for a
\* node, and that no pod has an annotation of an earlier process.
THEOREM PInvHolds ==
  ASSUME Settled, "bindReply" \notin Faults, CleanStart, OneByOne
  PROVE  BindSpec => [](BInv /\ IInv /\ KInv /\ PInv)
<1>1. Init => PInv
  BY PStart
<1>2. BInv /\ IInv /\ KInv /\ PInv /\ [BindNext]_vars => PInv'
  BY PStep
<1>3. Orderly
  BY DEF Orderly, OneByOne
<1>4. BindSpec => [](BInv /\ KInv)
  BY <1>3, KInvHolds
<1>5. BindSpec => []IInv
  BY <1>3, BindKeepsContract, InvHolds, PTL DEF KeepsCacheContract
<1> QED
  BY <1>1, <1>2, <1>4, <1>5, PTL DEF BindSpec

\* No orin is given to two live pods (manager.go:162-168, cache.go:50-58), if
\* requests come one at a time for a pod and for a node, capacities change only
\* between requests, no BIND reply is lost and no pod has an old annotation: what a
\* ledger is charged for is what the live pods have, and a board is chosen among the
\* rest.  So what breaks it in run bind_exclusive is the overlap of two requests for
\* one node, and nothing else.
THEOREM ExclusiveHolds ==
  ASSUME Settled, "bindReply" \notin Faults, CleanStart, OneByOne
  PROVE  BindSpec => []Exclusive
<1>1. BInv /\ KInv /\ PInv => Exclusive
  <2> SUFFICES ASSUME BInv, KInv, PInv, NEW p \in Pod, NEW q \in Pod, p # q, Live(p), Live(q),
                      Bound(p), api[p].node = api[q].node, api[p].board = api[q].board
               PROVE  Req[p] \cap Req[q] = {}
    BY DEF Exclusive
  <2>1. api[p].node \in Node /\ api[p].board \in Board
    BY PlaceOfOK
  <2>2. /\ OnBoard(api[p].node, api[p].board, p)
        /\ OnBoard(api[p].node, api[p].board, q)
    BY DEF OnBoard
  <2> QED
    BY <2>1, <2>2 DEF PInv, ApartInv
<1> QED
  BY <1>1, PInvHolds, PTL

\* Under the same hypotheses Bind (manager.go:143-204) keeps the promise of the
\* extender: a pod is placed in one step, when BIND takes effect, on the board in its
\* annotation, where no live pod has one of its orins, and it stays there.
THEOREM BindPlaces ==
  ASSUME Settled, "bindReply" \notin Faults, CleanStart, OneByOne
  PROVE  BindSpec => ImplementsPlacement
<1>1. Init => Promise!PlacementInit
  <2> SUFFICES ASSUME Init PROVE Promise!PlacementInit
    OBVIOUS
  <2>1. \A p \in Pod : Live(p) /\ ~Bound(p)
    BY PStart
  <2> QED
    BY <2>1 DEF Promise!PlacementInit
<1>2. BInv /\ IInv /\ KInv /\ PInv /\ [BindNext]_vars
        => [Promise!PlacementNext]_(Promise!placementVars)
  BY PStep, StepPlaces
<1> QED
  BY <1>1, <1>2, PInvHolds, PTL DEF BindSpec, ImplementsPlacement, Promise!PlacementSpec
=============================================================================
