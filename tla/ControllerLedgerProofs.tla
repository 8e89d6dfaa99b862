------------------------ MODULE ControllerLedgerProofs ------------------------
(***************************************************************************)
(* What the controller does to the ledger of its node, for every number of *)
(* pods, boards and workers and whatever overlaps, fails or is skipped.    *)
(*                                                                         *)
(* Everything that handlers and workers act on may be stale: notifications,*)
(* the lister, lists of pods taken before a lock.  The invariant says how  *)
(* far: what was seen of a pod was once so, its board has not changed      *)
(* since, and of the stages only "completed" and "gone" allow a release.   *)
(***************************************************************************)
EXTENDS ControllerProofs, ScheduleCacheProofs, FiniteSetTheorems

(***************************************************************************)
(* The inductive invariant.                                                *)
(***************************************************************************)
\* The stages in which pod p may have been seen, now or earlier.
Seen(p) ==
  {s \in Stages :
    /\ s \in {"annotated", "bound", "completed"} => board[p] \in Board
    /\ s = "completed" => api[p] \in {"completed", "gone"}
    /\ s = "gone" => api[p] = "gone"}

ApiInv ==
  /\ BoardOK
  /\ api \in [Pod -> Stages] /\ \A p \in Pod : api[p] \in Seen(p)
  /\ bind \in [Pod -> {"no", "assumed", "done"}]
  /\ \A p \in Pod : api[p] = "pending" /\ bind[p] = "no" => board[p] = NoBoard
  /\ \A p \in Pod : bind[p] = "assumed" => board[p] \in Board
  /\ \A p \in Pod : board[p] \in Board => Covers(Capacity, Claim(board[p], p))
  /\ \A p \in Pod : choice[p] \in Board => /\ board[p] = NoBoard /\ bind[p] = "no"
                                          /\ Covers(Capacity, Claim(choice[p], p))

\* Notifications that may be under way.
Notifications ==
  {e \in [pod : Pod, old : Stages \cup {"unlisted", "none"}, new : Stages,
          node : {Home, NoNode}, board : Board \cup {NoBoard}] :
     /\ e.new \in Seen(e.pod)
     /\ e.board # NoBoard => e.board = board[e.pod]}

InformerInv ==
  /\ lister \in [Pod -> Stages \cup {"unlisted"}]
  /\ \A p \in Pod : lister[p] \in Seen(p) \cup {"unlisted"}
  /\ watch \in [Pod -> Seq(Stages)] /\ \A p \in Pod : watch[p] \in Seq(Seen(p))
  /\ events \in Seq(Notifications)

\* Lists of pods on boards, as a handler or the cache may have them.
PodLists == {f \in PodsWith(Board) : \A q \in DOMAIN f : f[q] = board[q]}

HandlersInv ==
  /\ dirty \subseteq Pod /\ processing \subseteq Pod
  /\ \A w \in Worker :
       /\ worker[w].run.pods \in PodLists
       /\ At(w, "release") => "completed" \in Seen(worker[w].pod)
       /\ worker[w].run.pc \in {"assign", "list", "addNode", "add"}
            => "bound" \in Seen(worker[w].pod)
  /\ nodeHandler \in [pc : {"todo", "listed", "done"}, pods : PodLists]

LedgerInv ==
  Cached(Home) => /\ nodeCache[Home].Total = Capacity
                  /\ Healthy(nodeCache[Home])
                  /\ nodeCache[Home].Pods \in PodLists

CInv == IInv /\ WorkersInv /\ ApiInv /\ InformerInv /\ HandlersInv /\ LedgerInv

-----------------------------------------------------------------------------
(***************************************************************************)
(* Ledgers on which every claim fits.                                      *)
(***************************************************************************)

\* A delete takes no other pod off a ledger and leaves no charge over.
LEMMA DeletePodKeeps ==
  ASSUME NEW ni, LedgerOK(ni), Healthy(ni), NEW p, NEW a,
         a \in Board /\ p \in DOMAIN ni.Pods => a = ni.Pods[p],
         NEW nj, nj = deletePod(ni, p, a)
  PROVE  /\ LedgerOK(nj) /\ Healthy(nj) /\ nj.Total = ni.Total
         /\ DOMAIN nj.Pods \subseteq DOMAIN ni.Pods
         /\ DOMAIN ni.Pods \ {p} \subseteq DOMAIN nj.Pods
         /\ \A q \in DOMAIN nj.Pods : nj.Pods[q] = ni.Pods[q]
<1>1. LedgerOK(nj) /\ nj.Total = ni.Total
  BY DeletePodOK
<1>2. CASE a \in Board /\ ~deletePodErr(ni, p, a)
  <2>1. /\ nj.Pods = [q \in DOMAIN ni.Pods \ {p} |-> ni.Pods[q]]
        /\ nj.Requested = DifferenceFromSuperset(ni.Requested, Claim(a, p))
    BY <1>2 DEF deletePod, Released, Restricted
  <2>2. ni.Requested \in BoardDetails
    BY NodeInfoType DEF LedgerOK
  <2>3. /\ DOMAIN nj.Requested = DOMAIN ni.Requested
        /\ Covers(ni.Requested, nj.Requested)
    BY <2>1, <2>2, DifferenceType
  <2>4. Healthy(nj)
    BY <1>1, <2>3 DEF Healthy, Covers
  <2> QED
    BY <1>1, <2>1, <2>4
<1>3. CASE ~(a \in Board /\ ~deletePodErr(ni, p, a))
  BY <1>1, <1>3 DEF deletePod
<1> QED
  BY <1>2, <1>3

\* An add whose claim fits the node fails no check and takes no pod off.
LEMMA AddPodKeeps ==
  ASSUME NEW ni, LedgerOK(ni), Healthy(ni), NEW p \in Pod, NEW b \in Board,
         p \in DOMAIN ni.Pods => b = ni.Pods[p], Covers(ni.Total, Claim(b, p)),
         NEW nj, nj = addPod(ni, p, b)
  PROVE  /\ LedgerOK(nj) /\ Healthy(nj) /\ nj.Total = ni.Total
         /\ DOMAIN ni.Pods \subseteq DOMAIN nj.Pods
         /\ DOMAIN nj.Pods \subseteq DOMAIN ni.Pods \cup {p}
         /\ \A q \in DOMAIN nj.Pods : nj.Pods[q] = IF q = p THEN b ELSE ni.Pods[q]
         /\ addPodErr(ni, p, b) => EvictErr(ni, p, b)
<1>1. LedgerOK(nj)
  BY AddPodOK
<1>2. CASE EvictErr(ni, p, b)
  <2>1. nj = ni
    BY <1>2 DEF addPod, addPodErr
  <2> QED
    BY <1>1, <1>2, <2>1
<1>3. CASE ~EvictErr(ni, p, b)
  <2> DEFINE base == Evicted(ni, p, b)
             nc == Charged(base, p, b)
  <2>1. /\ LedgerOK(base) /\ Healthy(base) /\ base.Total = ni.Total
        /\ DOMAIN base.Pods \subseteq DOMAIN ni.Pods
        /\ DOMAIN ni.Pods \ {p} \subseteq DOMAIN base.Pods
        /\ \A q \in DOMAIN base.Pods : base.Pods[q] = ni.Pods[q]
    BY DeletePodKeeps DEF Evicted
  <2> HIDE DEF base
  <2>2. base.Requested \in BoardDetails /\ Req[p] \in SUBSET Orin
    BY <2>1, NodeInfoType, ReqType DEF LedgerOK
  <2>3. nc.Requested = Add(base.Requested, b, Req[p]) /\ nc.Total = ni.Total
        /\ nc.Pods = base.Pods
    BY <2>1 DEF Charged
  <2>4. Covers(ni.Total, Add(base.Requested, b, Req[p]))
    BY <2>1, <2>2, AddType DEF Healthy, Claim
  <2> HIDE DEF nc
  <2>5. Healthy(nc)
    BY <2>3, <2>4 DEF Healthy
  <2>6. ~addPodErr(ni, p, b)
    BY <1>3, <2>5 DEF addPodErr, Charge, base, nc
  <2>7. nj = Stored(nc, p, b)
    BY <1>3, <2>6 DEF addPod, Charge, base, nc
  <2>8. /\ nj.Pods = [q \in DOMAIN nc.Pods \cup {p} |-> IF q = p THEN b ELSE nc.Pods[q]]
        /\ nj.Requested = nc.Requested /\ nj.Total = nc.Total
    BY <2>7 DEF Stored
  <2>9. Healthy(nj)
    BY <2>5, <2>8 DEF Healthy
  <2> QED
    BY <1>1, <2>1, <2>3, <2>6, <2>8, <2>9
<1> QED
  BY <1>2, <1>3

\* A ledger built from pods that all fit has all of them, and no charge too many.
LEMMA NewNodeInfoKeeps ==
  ASSUME NEW total \in BoardDetails, NEW pods \in PodsWith(Board),
         \A q \in DOMAIN pods : Covers(total, Claim(pods[q], q)),
         NEW ni \in NewNodeInfo(total, pods)
  PROVE  /\ LedgerOK(ni) /\ Healthy(ni) /\ ni.Total = total
         /\ ni.Pods = pods
<1>0. /\ pods \in PodsWith(Annotation)
      /\ DOMAIN pods \subseteq Pod /\ pods \in [DOMAIN pods -> Board]
  BY PodsType DEF Annotation
<1>1. LedgerOK(ni) /\ ni.Total = total /\ ni.Requested = RequestOf(Restricted(pods, Placed(pods)))
  BY <1>0, NewNodeInfoOK
<1>2. Placed(pods) = DOMAIN pods /\ Restricted(pods, Placed(pods)) = pods
  BY <1>0 DEF Placed, Restricted
<1>3. Healthy(ni)
  BY <1>1, <1>2, RequestOfType DEF Healthy
<1>4. ni.Pods = pods
  <2>1. {p \in DOMAIN pods : pods[p] \in Board} = DOMAIN pods
    BY <1>0
  <2>2. {p \in DOMAIN pods : Covers(total, Claim(pods[p], p))} = DOMAIN pods
    OBVIOUS
  <2>3. ni.Pods = Restricted(pods, DOMAIN pods)
    BY <2>1, <2>2 DEF NewNodeInfo
  <2> QED
    BY <1>2, <2>3
<1> QED
  BY <1>1, <1>3, <1>4

-----------------------------------------------------------------------------
(***************************************************************************)
(* Pods only go on.                                                        *)
(***************************************************************************)
Onward ==
  /\ \A p \in Pod : board[p] \in Board => board'[p] = board[p]
  /\ \A p \in Pod : api[p] \in {"completed", "gone"} => api'[p] \in {"completed", "gone"}
  /\ \A p \in Pod : api[p] = "gone" => api'[p] = "gone"

\* What was seen of a pod, and what was listed or notified, stays true.
LEMMA OnwardKeeps ==
  ASSUME ApiInv, Onward
  PROVE  /\ \A p \in Pod : Seen(p) \subseteq Seen(p)'
         /\ PodLists \subseteq PodLists'
         /\ Notifications \subseteq Notifications'
<1>1. \A p \in Pod : Seen(p) \subseteq Seen(p)'
  BY DEF Onward, Seen
<1>2. PodLists \subseteq PodLists'
  <2> SUFFICES ASSUME NEW f \in PodLists, NEW q \in DOMAIN f PROVE f[q] = board'[q]
    BY DEF PodLists
  <2>1. q \in Pod /\ f[q] \in Board /\ f[q] = board[q]
    BY PodsType DEF PodLists
  <2> QED
    BY <2>1 DEF Onward
<1>3. Notifications \subseteq Notifications'
  <2> SUFFICES ASSUME NEW e \in Notifications
               PROVE  e.new \in Seen(e.pod)' /\ (e.board # NoBoard => e.board = board'[e.pod])
    BY DEF Notifications
  <2>1. e.pod \in Pod /\ e.new \in Seen(e.pod)
    BY DEF Notifications
  <2>2. e.board # NoBoard => e.board \in Board /\ e.board = board[e.pod]
    BY DEF Notifications
  <2> QED
    BY <1>1, <2>1, <2>2 DEF Onward
<1> QED
  BY <1>1, <1>2, <1>3

\* The board a pod is given is one its orins fit on (controller: BindChoose).
LEMMA AllocatedFits ==
  ASSUME IInv, LedgerInv, NEW p \in Pod, NEW b \in Board, BindChoose(p, b)
  PROVE  Covers(Capacity, Claim(b, p))
<1>1. /\ Cached(Home) /\ b \in DOMAIN nodeCache[Home].Allocatable
      /\ Req[p] \subseteq nodeCache[Home].Allocatable[b]
  BY DEF BindChoose
<1>2. Covers(nodeCache[Home].Total, nodeCache[Home].Allocatable)
  BY <1>1 DEF IInv, LedgerOK, Cached
<1> QED
  BY <1>1, <1>2 DEF LedgerInv, Covers, Claim

\* Pods go on from stage to stage, and the board of a pod is chosen once.
LEMMA ApiStep ==
  ASSUME IInv, LedgerInv, ApiInv, [ControllerNext]_vars
  PROVE  Onward /\ ApiInv'
<1>1. CASE UNCHANGED apiVars
  BY <1>1 DEF Onward, ApiInv, apiVars, BoardOK, Seen
<1>2. ASSUME NEW p \in Pod, NEW b \in Board, BindChoose(p, b)
      PROVE  Onward /\ ApiInv'
  <2>1. /\ api[p] = "pending" /\ bind[p] = "no" /\ api' = api /\ board' = board /\ bind' = bind
        /\ choice' = [choice EXCEPT ![p] = b]
    BY <1>2 DEF BindChoose
  <2>2. board[p] = NoBoard
    BY <2>1 DEF ApiInv
  <2>3. Covers(Capacity, Claim(b, p))
    BY <1>2, AllocatedFits
  <2> QED
    BY <2>1, <2>2, <2>3 DEF Onward, ApiInv, BoardOK, Seen
<1>5. ASSUME NEW p \in Pod, BindAssume(p)
      PROVE  Onward /\ ApiInv'
  <2> DEFINE b == choice[p]
  <2>1. /\ b \in Board /\ api' = api /\ choice' = [choice EXCEPT ![p] = NoBoard]
        /\ \/ board' = board /\ bind' = bind
           \/ /\ board' = [board EXCEPT ![p] = b]
              /\ bind' = [bind EXCEPT ![p] = "assumed"]
    BY <1>5 DEF BindAssume, ApiInv, BoardOK
  <2>2. board[p] = NoBoard /\ NoBoard \notin Board /\ Covers(Capacity, Claim(b, p))
    BY <2>1, AnnotationAssumption DEF ApiInv
  <2> HIDE DEF b
  <2> QED
    BY <2>1, <2>2 DEF Onward, ApiInv, BoardOK, Seen
<1>3. ASSUME NEW p \in Pod,
             BindUpdate(p) \/ BindBind(p) \/ PodEnds(p) \/ BindFails(p)
      PROVE  Onward /\ ApiInv'
  <2>1. board' = board /\ choice' = choice
    BY <1>3 DEF BindUpdate, BindBind, PodEnds, BindFails
  <2>2. /\ BindUpdate(p) => /\ bind[p] = "assumed" /\ api[p] = "pending"
                            /\ api' = [api EXCEPT ![p] = "annotated"] /\ bind' = bind
        /\ BindBind(p) => /\ api[p] = "annotated"
                          /\ api' = [api EXCEPT ![p] = "bound"]
                          /\ bind' = [bind EXCEPT ![p] = "done"]
        /\ PodEnds(p) => /\ bind' = bind
                         /\ \/ api[p] = "bound" /\ api' = [api EXCEPT ![p] = "completed"]
                            \/ /\ api[p] \in {"pending", "annotated", "completed"}
                               /\ api' = [api EXCEPT ![p] = "gone"]
        /\ BindFails(p) => api' = api /\ bind' = [bind EXCEPT ![p] = "done"]
                           /\ bind[p] = "assumed" /\ api[p] = "gone"
    BY DEF BindUpdate, BindBind, PodEnds, BindFails, Moves
  <2>3. \A q \in Pod : choice[q] \in Board => bind[q] = "no" /\ board[q] \notin Board
    BY AnnotationAssumption DEF ApiInv
  <2>4. /\ \A q \in Pod : api[q] = "annotated" => board[q] \in Board
        /\ \A q \in Pod : bind[q] = "assumed" => board[q] \in Board
    BY DEF ApiInv, Seen
  <2>5. \A q \in Pod : choice'[q] \in Board => /\ board'[q] = NoBoard /\ bind'[q] = "no"
                                             /\ Covers(Capacity, Claim(choice'[q], q))
    BY <1>3, <2>1, <2>2, <2>3, <2>4 DEF ApiInv
  <2>6. Onward
    BY <1>3, <2>1, <2>2 DEF Onward, ApiInv, Stages
  <2>7. ASSUME NEW q \in Pod PROVE api'[q] \in Seen(q)'
    BY <1>3, <2>1, <2>2, <2>4 DEF ApiInv, Seen, Stages
  <2>8. /\ api' \in [Pod -> Stages] /\ bind' \in [Pod -> {"no", "assumed", "done"}]
        /\ \A q \in Pod : api'[q] = "pending" /\ bind'[q] = "no" => board'[q] = NoBoard
        /\ \A q \in Pod : bind'[q] = "assumed" => board'[q] \in Board
    BY <1>3, <2>1, <2>2, <2>4 DEF ApiInv, Stages
  <2> QED
    BY <2>1, <2>5, <2>6, <2>7, <2>8 DEF ApiInv, BoardOK
<1>4. CASE InformerStep \/ HandlePodEvent \/ NodeStep \/ \E w \in Worker : WorkerStep(w)
  <2>1. UNCHANGED apiVars
    BY <1>4 DEF InformerStep, ListPods, Watch, HandlePodEvent, NodeStep, ListForNode,
                addNodeToCache, WorkerStep, Get, syncPod, releasePod, assignPod, AssignList,
                AssignNode, AssignAdd
  <2> QED
    BY <1>1, <2>1
<1> QED
  BY <1>1, <1>2, <1>3, <1>4, <1>5 DEF ControllerNext, vars

-----------------------------------------------------------------------------
(***************************************************************************)
(* The calls on the cache: each is one of ScheduleCache's, keeps the ledger*)
(* in order, and takes no pod off but the one it is asked to release.      *)
(***************************************************************************)
StaysOn(p) == OnLedger(p) => OnLedger(p)'

\* A changed ledger of the node is in order when the pods on it are.
LEMMA LedgerReplaced ==
  ASSUME IInv, LedgerInv, PodLists \subseteq PodLists', NEW n, n = Home \/ Cached(n),
         NEW ni, ni \in NodeInfos, SetNode(n, ni),
         n = Home => Healthy(ni) /\ ni.Total = Capacity /\ ni.Pods \in PodLists'
  PROVE  LedgerInv'
<1>1. /\ nodeCache'[n] = ni /\ DOMAIN nodeCache' = DOMAIN nodeCache \cup {n}
      /\ \A m \in DOMAIN nodeCache \ {n} : nodeCache'[m] = nodeCache[m]
  BY DEF SetNode
<1>2. Home \in Node /\ Capacity' = Capacity
  BY HomeAssumption
<1> QED
  BY <1>1, <1>2 DEF LedgerInv, Cached

\* AddPod and AssumePod, with the board the pod has or is given.
LEMMA AddCall ==
  ASSUME IInv, LedgerInv, PodLists \subseteq PodLists', NEW p \in Pod, NEW a \in Board,
         board[p] \in {a, NoBoard}, board'[p] = a, Covers(Capacity, Claim(a, p)),
         AddPod(p, Home, a) \/ AssumePod(p, Home, a)
  PROVE  /\ PodNext /\ LedgerInv'
         /\ \A q \in Pod : StaysOn(q)
<1>1. Home \in Node /\ a \in Annotation
  BY HomeAssumption DEF Annotation
<1>2. Cached(Home) => /\ LedgerOK(nodeCache[Home]) /\ Healthy(nodeCache[Home])
                      /\ nodeCache[Home].Total = Capacity /\ nodeCache[Home].Pods \in PodLists
  BY DEF IInv, LedgerInv, Cached
<1>3. Consistent(p, Home, a)
  <2> SUFFICES ASSUME Cached(Home), p \in DOMAIN nodeCache[Home].Pods
               PROVE  a = nodeCache[Home].Pods[p]
    BY DEF Consistent
  <2>1. nodeCache[Home].Pods[p] = board[p] /\ nodeCache[Home].Pods[p] \in Board
    BY <1>2, PodsType DEF PodLists
  <2> QED
    BY <2>1, AnnotationAssumption
<1>4. PodNext
  BY <1>1, <1>3 DEF PodNext
<1>5. CASE UNCHANGED nodeCache
  BY <1>4, <1>5 DEF LedgerInv, Cached, StaysOn, OnLedger
<1>6. ASSUME Cached(Home), NEW ni, ni = addPod(nodeCache[Home], p, a), SetNode(Home, ni)
      PROVE  LedgerInv' /\ \A q \in Pod : StaysOn(q)
  <2> DEFINE old == nodeCache[Home]
  <2>1. /\ LedgerOK(ni) /\ Healthy(ni) /\ ni.Total = Capacity
        /\ DOMAIN old.Pods \subseteq DOMAIN ni.Pods
        /\ DOMAIN ni.Pods \subseteq DOMAIN old.Pods \cup {p}
        /\ \A q \in DOMAIN ni.Pods : ni.Pods[q] = IF q = p THEN a ELSE old.Pods[q]
    <3>1. p \in DOMAIN old.Pods => a = old.Pods[p]
      BY <1>3, <1>6 DEF Consistent
    <3> QED
      BY <1>2, <1>6, <3>1, AddPodKeeps
  <2>2. ni.Pods \in PodLists'
    <3>1. ni.Pods \in PodsWith(Board)
      BY <2>1 DEF LedgerOK, NodeInfos
    <3>2. \A q \in DOMAIN old.Pods : old.Pods[q] = board'[q]
      BY <1>2, <1>6 DEF PodLists
    <3> QED
      BY <2>1, <3>1, <3>2 DEF PodLists
  <2>3. LedgerInv'
    BY <1>6, <2>1, <2>2, LedgerReplaced DEF LedgerOK
  <2>4. \A q \in Pod : StaysOn(q)
    BY <1>6, <2>1 DEF StaysOn, OnLedger, SetNode, Cached
  <2> QED
    BY <2>3, <2>4
<1>7. CASE Cached(Home) /\ SetNode(Home, addPod(nodeCache[Home], p, a))
  BY <1>4, <1>6, <1>7
<1>8. UNCHANGED nodeCache \/ (Cached(Home) /\ SetNode(Home, addPod(nodeCache[Home], p, a)))
  BY DEF AddPod, AssumePod, Ignored
<1> QED
  BY <1>4, <1>5, <1>7, <1>8

\* A chosen board still has room for a charge of its own: AssumePod fails for a pod
\* that is known, or for want of the node, and then changes nothing.
LEMMA AssumeFits ==
  ASSUME IInv, LedgerInv, NEW p \in Pod, NEW a \in Board, board[p] = NoBoard,
         Covers(Capacity, Claim(a, p)), AssumePod(p, Home, a), AssumePodErr(p, Home, a)
  PROVE  UNCHANGED cacheVars
<1>1. ~(Cached(Home) /\ p \notin podMaps)
  <2> SUFFICES ASSUME Cached(Home), p \notin podMaps PROVE FALSE
    OBVIOUS
  <2>1. /\ LedgerOK(nodeCache[Home]) /\ Healthy(nodeCache[Home])
        /\ nodeCache[Home].Total = Capacity /\ nodeCache[Home].Pods \in PodLists
    BY DEF IInv, LedgerInv, Cached
  <2>2. p \notin DOMAIN nodeCache[Home].Pods
    <3>1. p \in DOMAIN nodeCache[Home].Pods => board[p] \in Board
      BY <2>1, PodsType DEF PodLists
    <3> QED
      BY <3>1, AnnotationAssumption
  <2>3. ~EvictErr(nodeCache[Home], p, a)
    BY <2>2 DEF EvictErr
  <2>4. ~addPodErr(nodeCache[Home], p, a)
    BY <2>1, <2>2, <2>3, AddPodKeeps
  <2> QED
    BY <2>4 DEF AssumePodErr
<1> QED
  BY <1>1 DEF AssumePod, cacheVars

\* DeletePod and ForgetPod, with the board of the pod or with none.
LEMMA DeleteCall ==
  ASSUME IInv, LedgerInv, BoardOK, PodLists \subseteq PodLists',
         NEW p \in Pod, NEW n \in {Home, NoNode}, NEW a \in {board[p], NoBoard},
         DeletePod(p, n, a) \/ ForgetPod(p, n, a)
  PROVE  /\ PodNext /\ LedgerInv'
         /\ \A q \in Pod \ {p} : StaysOn(q)
<1>1. n \in Node \cup {NoNode} /\ a \in Annotation
  BY HomeAssumption DEF Annotation, BoardOK
<1>2. Cached(Home) => /\ LedgerOK(nodeCache[Home]) /\ Healthy(nodeCache[Home])
                      /\ nodeCache[Home].Total = Capacity /\ nodeCache[Home].Pods \in PodLists
  BY DEF IInv, LedgerInv, Cached
<1>3. Cached(n) => n = Home
  BY NodeAssumption DEF IInv, TypeOK, Cached
<1>4. Consistent(p, n, a)
  BY <1>2, <1>3, AnnotationAssumption DEF Consistent, PodLists
<1>5. PodNext
  BY <1>1, <1>4 DEF PodNext
<1>6. CASE UNCHANGED nodeCache
  BY <1>5, <1>6 DEF LedgerInv, Cached, StaysOn, OnLedger
<1>7. ASSUME Cached(n), NEW ni, ni = deletePod(nodeCache[n], p, a), SetNode(n, ni)
      PROVE  LedgerInv' /\ \A q \in Pod \ {p} : StaysOn(q)
  <2> DEFINE old == nodeCache[Home]
  <2>1. /\ LedgerOK(ni) /\ Healthy(ni) /\ ni.Total = Capacity
        /\ DOMAIN ni.Pods \subseteq DOMAIN old.Pods
        /\ DOMAIN old.Pods \ {p} \subseteq DOMAIN ni.Pods
        /\ \A q \in DOMAIN ni.Pods : ni.Pods[q] = old.Pods[q]
    <3>1. n = Home
      BY <1>3, <1>7
    <3>2. a \in Board /\ p \in DOMAIN old.Pods => a = old.Pods[p]
      BY <1>4, <1>7, <3>1 DEF Consistent
    <3> QED
      BY <1>2, <1>7, <3>1, <3>2, DeletePodKeeps
  <2>2. ni.Pods \in PodLists'
    <3>1. ni.Pods \in PodsWith(Board)
      BY <2>1 DEF LedgerOK, NodeInfos
    <3>2. \A q \in DOMAIN old.Pods : old.Pods[q] = board'[q]
      BY <1>2, <1>3, <1>7 DEF PodLists
    <3> QED
      BY <2>1, <3>1, <3>2 DEF PodLists
  <2>3. LedgerInv'
    BY <1>7, <2>1, <2>2, LedgerReplaced DEF LedgerOK
  <2>4. \A q \in Pod \ {p} : StaysOn(q)
    BY <1>3, <1>7, <2>1 DEF StaysOn, OnLedger, SetNode, Cached
  <2> QED
    BY <2>3, <2>4
<1>8. CASE Cached(n) /\ SetNode(n, deletePod(nodeCache[n], p, a))
  BY <1>5, <1>7, <1>8
<1>9. UNCHANGED nodeCache \/ (Cached(n) /\ SetNode(n, deletePod(nodeCache[n], p, a)))
  BY DEF DeletePod, ForgetPod, Ignored
<1> QED
  BY <1>5, <1>6, <1>8, <1>9

\* AddNode, with a list of pods however old.
LEMMA NodeCall ==
  ASSUME IInv, LedgerInv, ApiInv, PodLists \subseteq PodLists',
         NEW pods \in PodLists, AddNode(Home, Capacity, pods)
  PROVE  NodeNext /\ LedgerInv'
<1>1. /\ Home \in Node /\ Capacity \in Totals /\ Capacity \in BoardDetails
      /\ pods \in PodsWith(Board)
      /\ DOMAIN pods \subseteq Pod /\ pods \in [DOMAIN pods -> Board]
  BY HomeAssumption, TotalsAssumption, PodsType DEF PodLists
<1>2. pods \in ListedPods
  BY <1>1, PodsType DEF ListedPods
<1>3. NodeNext
  BY <1>1, <1>2 DEF NodeNext
<1>4. PICK ni \in NewNodeInfo(Capacity, pods) : SetNode(Home, ni)
  BY DEF AddNode
<1>5. \A q \in DOMAIN pods : Covers(Capacity, Claim(pods[q], q))
  BY <1>1 DEF PodLists, ApiInv
<1>6. LedgerOK(ni) /\ Healthy(ni) /\ ni.Total = Capacity /\ ni.Pods = pods
  BY <1>1, <1>5, NewNodeInfoKeeps
<1>7. LedgerInv'
  BY <1>4, <1>6, LedgerReplaced DEF LedgerOK
<1> QED
  BY <1>3, <1>7

-----------------------------------------------------------------------------
(***************************************************************************)
(* The informer: what is under way stays true, and what is added is true.  *)
(***************************************************************************)

\* A notification made of stages that were seen.
LEMMA NotificationType ==
  ASSUME BoardOK, NEW p \in Pod, NEW old \in Stages \cup {"unlisted", "none"}, NEW new \in Seen(p)
  PROVE  Notification(p, old, new) \in Notifications
<1> DEFINE e == Notification(p, old, new)
<1>1. /\ e = [pod |-> p, old |-> old, new |-> new, node |-> e.node, board |-> e.board]
      /\ e.node \in {Home, NoNode} /\ e.board \in {board[p], NoBoard}
  BY DEF Notification, NodeOf, BoardOf
<1>2. board[p] \in Board \cup {NoBoard} /\ new \in Stages
  BY DEF BoardOK, Seen
<1> HIDE DEF e
<1>3. e \in [pod : Pod, old : Stages \cup {"unlisted", "none"}, new : Stages,
             node : {Home, NoNode}, board : Board \cup {NoBoard}]
  BY <1>1, <1>2
<1>4. e.new \in Seen(e.pod) /\ (e.board # NoBoard => e.board = board[e.pod])
  BY <1>1
<1> QED
  BY <1>3, <1>4 DEF Notifications, e

\* Steps that leave the informer alone.
LEMMA InformerStays ==
  ASSUME InformerInv, ApiInv, Onward, UNCHANGED <<lister, watch>>,
         events' = events \/ (events # <<>> /\ events' = Tail(events))
  PROVE  InformerInv'
<1>1. /\ \A p \in Pod : Seen(p) \subseteq Seen(p)'
      /\ Notifications \subseteq Notifications'
  BY OnwardKeeps
<1>2. \A p \in Pod : lister'[p] \in Seen(p)' \cup {"unlisted"}
  BY <1>1 DEF InformerInv
<1>3. \A p \in Pod : watch'[p] \in Seq(Seen(p)')
  BY <1>1, SeqMonotonic DEF InformerInv
<1>4. events' \in Seq(Notifications)
  BY DEF InformerInv
<1>5. events' \in Seq(Notifications')
  BY <1>1, <1>4, SeqMonotonic
<1> QED
  BY <1>2, <1>3, <1>5 DEF InformerInv

\* A pod that goes on is seen in its new stage.
LEMMA MovesInformer ==
  ASSUME InformerInv, ApiInv, ApiInv', Onward, NEW p \in Pod, NEW stage \in Stages,
         Moves(p, stage), UNCHANGED <<lister, events>>
  PROVE  InformerInv'
<1>1. /\ \A q \in Pod : Seen(q) \subseteq Seen(q)'
      /\ Notifications \subseteq Notifications'
  BY OnwardKeeps
<1>2. api'[p] = stage /\ stage \in Seen(p)'
  BY DEF Moves, ApiInv
<1>3. watch' = watch \/ watch' = [watch EXCEPT ![p] = Append(@, stage)]
  BY DEF Moves
<1>4. watch' \in [Pod -> Seq(Stages)]
  <2>1. watch \in [Pod -> Seq(Stages)] /\ Append(watch[p], stage) \in Seq(Stages)
    BY DEF InformerInv
  <2> QED
    BY <1>3, <2>1
<1>5. ASSUME NEW q \in Pod PROVE watch'[q] \in Seq(Seen(q)')
  <2>1. watch[q] \in Seq(Seen(q)')
    BY <1>1, SeqMonotonic DEF InformerInv
  <2>2. watch'[q] = watch[q] \/ (q = p /\ watch'[q] = Append(watch[q], stage))
    BY <1>3 DEF InformerInv
  <2>3. q = p => Append(watch[q], stage) \in Seq(Seen(q)')
    BY <1>2, <2>1
  <2> QED
    BY <2>1, <2>2, <2>3
<1>6. events' \in Seq(Notifications')
  BY <1>1, SeqMonotonic DEF InformerInv
<1>7. \A q \in Pod : lister'[q] \in Seen(q)' \cup {"unlisted"}
  BY <1>1 DEF InformerInv
<1> QED
  BY <1>4, <1>5, <1>6, <1>7 DEF InformerInv

\* The LIST: every pod is notified in the stage it is in.
LEMMA ListPodsInformer ==
  ASSUME InformerInv, ApiInv, ListPods
  PROVE  InformerInv'
<1>0. UNCHANGED <<api, board, watch>> /\ lister' = api
  BY DEF ListPods, apiVars
<1>1. \A p \in Pod : Seen(p)' = Seen(p)
  BY <1>0 DEF Seen
<1>2. Notifications' = Notifications
  BY <1>0, <1>1 DEF Notifications
<1>3. events' \in Seq(Notifications)
  <2> DEFINE S == {p \in Pod : api[p] # "gone"}
  <2>1. PICK order \in SetToSeqs(S) :
          events' = [i \in DOMAIN order |-> Notification(order[i], "none", api[order[i]])]
    BY DEF ListPods
  <2>2. Cardinality(S) \in Nat
    BY PodsAssumption, FS_Subset, FS_CardinalityType
  <2>3. DOMAIN order = 1..Cardinality(S) /\ \A i \in DOMAIN order : order[i] \in S
    BY DEF SetToSeqs
  <2>4. \A i \in 1..Cardinality(S) : Notification(order[i], "none", api[order[i]]) \in Notifications
    BY <2>3, NotificationType DEF ApiInv
  <2>5. events' \in [1..Cardinality(S) -> Notifications]
    BY <2>1, <2>3, <2>4
  <2>6. \E n \in Nat : events' \in [1..n -> Notifications]
    BY <2>2, <2>5
  <2> QED
    BY <2>6, SeqDef
<1> QED
  BY <1>0, <1>1, <1>2, <1>3 DEF InformerInv, ApiInv

\* A watch event, which may skip versions of the pod.
LEMMA WatchInformer ==
  ASSUME InformerInv, ApiInv, NEW p \in Pod, Watch(p)
  PROVE  InformerInv'
<1>0. UNCHANGED <<api, board>>
  BY DEF Watch, apiVars
<1>1. \A q \in Pod : Seen(q)' = Seen(q)
  BY <1>0 DEF Seen
<1>2. Notifications' = Notifications
  BY <1>0, <1>1 DEF Notifications
<1>3. PICK new \in {Head(watch[p]), Last(watch[p])} :
        /\ lister' = [lister EXCEPT ![p] = new]
        /\ events' = Append(events, Notification(p, lister[p], new))
        /\ watch' = [watch EXCEPT ![p] = IF new = Head(@) THEN Tail(@) ELSE <<>>]
  BY DEF Watch
<1>4. watch[p] \in Seq(Seen(p)) /\ watch[p] # <<>> /\ Seen(p) \subseteq Stages
  BY DEF Watch, InformerInv, Seen
<1>5. new \in Seen(p)
  <2>1. Len(watch[p]) \in 1..Len(watch[p])
    BY <1>4
  <2> QED
    BY <1>3, <1>4, <2>1 DEF Last
<1>6. lister[p] \in Stages \cup {"unlisted", "none"} /\ BoardOK
  BY DEF InformerInv, ApiInv
<1>7. events' \in Seq(Notifications)
  BY <1>3, <1>5, <1>6, NotificationType DEF InformerInv
<1>8. (IF new = Head(watch[p]) THEN Tail(watch[p]) ELSE <<>>) \in Seq(Seen(p))
  BY <1>4
<1>9. /\ watch' \in [Pod -> Seq(Stages)]
      /\ \A q \in Pod : watch'[q] \in Seq(Seen(q))
  BY <1>3, <1>4, <1>8, SeqMonotonic DEF InformerInv
<1>10. /\ lister' \in [Pod -> Stages \cup {"unlisted"}]
       /\ \A q \in Pod : lister'[q] \in Seen(q) \cup {"unlisted"}
  BY <1>3, <1>4, <1>5 DEF InformerInv
<1> QED
  BY <1>1, <1>2, <1>7, <1>9, <1>10 DEF InformerInv

\* Every step.
LEMMA InformerKeeps ==
  ASSUME InformerInv, ApiInv, ApiInv', Onward, [ControllerNext]_vars
  PROVE  InformerInv'
<1>1. CASE UNCHANGED informerVars
  BY <1>1, InformerStays DEF informerVars
<1>2. ASSUME NEW p \in Pod, BindUpdate(p) \/ BindBind(p) \/ PodEnds(p)
      PROVE  InformerInv'
  <2>1. \E stage \in Stages : Moves(p, stage)
    BY <1>2 DEF BindUpdate, BindBind, PodEnds, Stages
  <2>2. UNCHANGED <<lister, events>>
    BY <1>2 DEF BindUpdate, BindBind, PodEnds
  <2> QED
    BY <2>1, <2>2, MovesInformer
<1>3. ASSUME NEW p \in Pod,
             BindFails(p) \/ BindAssume(p) \/ \E b \in Board : BindChoose(p, b)
      PROVE  InformerInv'
  BY <1>1, <1>3 DEF BindFails, BindAssume, BindChoose
<1>4. CASE InformerStep
  BY <1>4, ListPodsInformer, WatchInformer DEF InformerStep
<1>5. CASE HandlePodEvent
  BY <1>5, InformerStays DEF HandlePodEvent
<1>6. CASE NodeStep \/ \E w \in Worker : WorkerStep(w)
  <2>1. UNCHANGED informerVars
    BY <1>6 DEF NodeStep, ListForNode, addNodeToCache, WorkerStep, Get, syncPod, releasePod,
                assignPod, AssignList, AssignNode, AssignAdd
  <2> QED
    BY <1>1, <2>1
<1> QED
  BY <1>1, <1>2, <1>3, <1>4, <1>5, <1>6 DEF ControllerNext, vars

-----------------------------------------------------------------------------
(***************************************************************************)
(* Handlers and workers.                                                   *)
(***************************************************************************)

\* What the lister shows on the node is a list of pods on their boards.
LEMMA ListedType ==
  ASSUME ApiInv, InformerInv
  PROVE  getActivePodInNode \in PodLists /\ NoPods \in PodLists
<1>1. getActivePodInNode \in PodLists
  <2> DEFINE S == {q \in Pod : lister[q] = "bound"}
  <2>1. getActivePodInNode = [p \in S |-> board[p]] /\ S \subseteq Pod
    BY DEF getActivePodInNode
  <2>2. \A p \in S : board[p] \in Board
    BY DEF InformerInv, Seen
  <2>3. getActivePodInNode \in PodsWith(Board)
    BY <2>1, <2>2, PodsType
  <2> QED
    BY <2>1, <2>3 DEF PodLists
<1>2. NoPods \in PodLists
  <2>1. DOMAIN NoPods = {} /\ NoPods \in [{} -> Board]
    BY DEF NoPods
  <2> QED
    BY <2>1, PodsType DEF PodLists
<1> QED
  BY <1>1, <1>2

\* One worker's record.
RunInv(r) ==
  /\ r.run.pods \in PodLists
  /\ r.run.pc = "release" => "completed" \in Seen(r.pod)
  /\ r.run.pc \in {"assign", "list", "addNode", "add"} => "bound" \in Seen(r.pod)

\* What a worker goes on with is what it has seen.
LEMMA WorkerRun ==
  ASSUME CInv, ApiInv', Onward, NEW w \in Worker, WorkerStep(w)
  PROVE  /\ \A v \in Worker : RunInv(worker[v])' /\ UNCHANGED nodeHandler
         /\ dirty' \subseteq Pod /\ processing' \subseteq Pod
<1>0. /\ QueueInv /\ HandlersInv /\ ApiInv /\ InformerInv
      /\ dirty \subseteq Pod /\ processing \subseteq Pod
  BY DEF CInv, WorkersInv, HandlersInv
<1>1. /\ \A p \in Pod : Seen(p) \subseteq Seen(p)'
      /\ PodLists \subseteq PodLists'
  BY <1>0, OnwardKeeps
<1>2. /\ \A v \in Worker : ~At(v, "free") => worker[v].pod \in Pod
      /\ \A v \in Worker : At(v, "free") => worker[v].pod = NoBoard
  BY <1>0 DEF QueueInv
<1>3. ASSUME NEW v \in Worker, worker'[v] = worker[v] PROVE RunInv(worker[v])'
  <2>1. At(v, "free") \/ worker[v].pod \in Pod
    BY <1>2
  <2> QED
    BY <1>0, <1>1, <1>3, <2>1 DEF RunInv, HandlersInv, At
<1>4. \A v \in Worker \ {w} : worker'[v] = worker[v]
  <2>1. \E r : worker' = [worker EXCEPT ![w] = r]
    BY DEF WorkerStep, Get, syncPod, releasePod, assignPod, AssignList, AssignNode, AssignAdd,
           Run, Finish
  <2> QED
    BY <1>0, <2>1 DEF QueueInv
<1>5. UNCHANGED nodeHandler
  BY DEF WorkerStep, Get, syncPod, releasePod, assignPod, AssignList, AssignNode, AssignAdd
<1>6. /\ Free.pods \in PodLists /\ Free.pc = "free"
      /\ \A pc : [Free EXCEPT !.pc = pc].pc = pc /\ [Free EXCEPT !.pc = pc].pods \in PodLists
  BY <1>0, ListedType DEF Free
<1>7. ASSUME NEW r, worker' = [worker EXCEPT ![w] = r]
      PROVE  worker'[w] = r
  BY <1>0, <1>7 DEF QueueInv
<1>8. ASSUME NEW r, worker' = [worker EXCEPT ![w].run = r]
      PROVE  worker'[w].run = r /\ worker'[w].pod = worker[w].pod
  BY <1>0, <1>8 DEF QueueInv
<1>9. CASE \E again : ~At(w, "free") /\ Finish(w, again)
  <2>1. PICK again : ~At(w, "free") /\ Finish(w, again)
    BY <1>9
  <2>2. worker'[w] = [pod |-> NoBoard, run |-> Free]
    BY <1>7, <2>1 DEF Finish
  <2>3. RunInv(worker[w])'
    BY <1>1, <1>6, <2>2 DEF RunInv
  <2>4. dirty' \subseteq Pod /\ processing' \subseteq Pod
    BY <1>0, <1>2, <2>1 DEF Finish, Done
  <2> QED
    BY <1>3, <1>4, <1>5, <2>3, <2>4
<1>10. CASE Get(w)
  <2>1. worker'[w] = [pod |-> Head(queue), run |-> [Free EXCEPT !.pc = "sync"]]
    BY <1>7, <1>10 DEF Get
  <2>2. RunInv(worker[w])'
    <3>1. worker'[w].run = [Free EXCEPT !.pc = "sync"]
      BY <2>1
    <3>2. worker'[w].run.pc = "sync" /\ worker'[w].run.pods \in PodLists
      BY <1>6, <3>1
    <3> QED
      BY <1>1, <3>2 DEF RunInv
  <2>3. Head(queue) \in dirty
    BY <1>0, <1>10 DEF Get, QueueInv
  <2>4. dirty' \subseteq Pod /\ processing' \subseteq Pod
    BY <1>0, <1>10, <2>3 DEF Get
  <2> QED
    BY <1>3, <1>4, <1>5, <2>2, <2>4
<1>11. ASSUME NEW pc, Run(w, pc), UNCHANGED podQueue, ~At(w, "free"),
              pc = "release" => "completed" \in Seen(worker[w].pod),
              pc \in {"assign", "list", "addNode", "add"} => "bound" \in Seen(worker[w].pod)
       PROVE  /\ \A v \in Worker : RunInv(worker[v])' /\ UNCHANGED nodeHandler
              /\ dirty' \subseteq Pod /\ processing' \subseteq Pod
  <2>1. worker'[w].run = [Free EXCEPT !.pc = pc] /\ worker'[w].pod = worker[w].pod
    BY <1>8, <1>11 DEF Run
  <2>2. RunInv(worker[w])'
    BY <1>1, <1>2, <1>6, <1>11, <2>1 DEF RunInv
  <2> QED
    BY <1>0, <1>3, <1>4, <1>5, <1>11, <2>2 DEF podQueue
<1>12. CASE syncPod(w)
  <2>1. ~At(w, "free") /\ worker[w].pod \in Pod
    BY <1>2, <1>12 DEF syncPod, At
  <2>2. lister[worker[w].pod] \in Seen(worker[w].pod) \cup {"unlisted"}
    BY <1>0, <2>1 DEF InformerInv
  <2>3. \/ /\ "completed" \in Seen(worker[w].pod)
           /\ Run(w, "release") /\ UNCHANGED podQueue
        \/ /\ "bound" \in Seen(worker[w].pod)
           /\ Run(w, "assign") /\ UNCHANGED podQueue
        \/ Finish(w, FALSE)
    BY <1>12, <2>2 DEF syncPod
  <2> QED
    BY <1>9, <1>11, <2>1, <2>3
<1>13. CASE releasePod(w) \/ AssignAdd(w)
  <2>1. ~At(w, "free")
    BY <1>13 DEF releasePod, AssignAdd, At
  <2> QED
    BY <1>9, <1>13, <2>1 DEF releasePod, AssignAdd
<1>14. CASE assignPod(w) \/ AssignNode(w)
  <2>1. ~At(w, "free") /\ "bound" \in Seen(worker[w].pod) /\ UNCHANGED podQueue
    BY <1>0, <1>14 DEF assignPod, AssignNode, At, HandlersInv
  <2> QED
    BY <1>11, <1>14, <2>1 DEF assignPod, AssignNode
<1>15. CASE AssignList(w)
  <2>1. ~At(w, "free") /\ "bound" \in Seen(worker[w].pod) /\ UNCHANGED podQueue
    BY <1>0, <1>15 DEF AssignList, At, HandlersInv
  <2>2. CASE worker' = [worker EXCEPT ![w].run = [pc |-> "addNode", pods |-> getActivePodInNode]]
    <3>1. /\ worker'[w].run = [pc |-> "addNode", pods |-> getActivePodInNode]
          /\ worker'[w].pod = worker[w].pod
      BY <1>8, <2>2
    <3>2. RunInv(worker[w])'
      BY <1>0, <1>1, <1>2, <2>1, <3>1, ListedType DEF RunInv
    <3> QED
      BY <1>0, <1>3, <1>4, <1>5, <2>1, <3>2 DEF podQueue
  <2> QED
    BY <1>11, <1>15, <2>1, <2>2 DEF AssignList
<1> QED
  BY <1>10, <1>12, <1>13, <1>14, <1>15 DEF WorkerStep

\* Every step.
LEMMA HandlersKeep ==
  ASSUME CInv, ApiInv', Onward, [ControllerNext]_vars
  PROVE  HandlersInv'
<1>0. /\ QueueInv /\ HandlersInv /\ ApiInv /\ InformerInv
      /\ dirty \subseteq Pod /\ processing \subseteq Pod
  BY DEF CInv, WorkersInv, HandlersInv
<1>1. /\ \A p \in Pod : Seen(p) \subseteq Seen(p)'
      /\ PodLists \subseteq PodLists'
  BY <1>0, OnwardKeeps
<1>2. ASSUME UNCHANGED worker, dirty' \subseteq Pod, processing' \subseteq Pod,
             nodeHandler' \in [pc : {"todo", "listed", "done"}, pods : PodLists]
      PROVE  HandlersInv'
  <2>1. \A w \in Worker : At(w, "free") \/ worker[w].pod \in Pod
    BY <1>0 DEF QueueInv
  <2> QED
    BY <1>0, <1>1, <1>2, <2>1 DEF HandlersInv, At
<1>3. CASE UNCHANGED <<podQueue, worker, nodeHandler>>
  BY <1>0, <1>2, <1>3 DEF HandlersInv, podQueue
<1>4. ASSUME NEW p \in Pod,
             BindUpdate(p) \/ BindBind(p) \/ BindFails(p) \/ PodEnds(p)
               \/ BindAssume(p) \/ \E b \in Board : BindChoose(p, b)
      PROVE  HandlersInv'
  BY <1>3, <1>4 DEF BindUpdate, BindBind, BindFails, PodEnds, BindAssume, BindChoose
<1>5. CASE InformerStep
  BY <1>3, <1>5 DEF InformerStep, ListPods, Watch
<1>6. CASE HandlePodEvent
  <2>1. Head(events).pod \in Pod
    <3>1. Head(events) \in Notifications
      BY <1>0, <1>6 DEF HandlePodEvent, InformerInv
    <3> QED
      BY <3>1 DEF Notifications
  <2>2. dirty' \subseteq Pod /\ processing' = processing
    BY <1>0, <1>6, <2>1 DEF HandlePodEvent, addPodToCache, updatePodInCache, deletePodFromCache,
                            Enqueue, podQueue
  <2> QED
    BY <1>0, <1>2, <1>6, <2>2 DEF HandlePodEvent, HandlersInv
<1>7. CASE NodeStep
  <2>1. UNCHANGED <<podQueue, worker>>
    BY <1>7 DEF NodeStep, ListForNode, addNodeToCache
  <2>2. \/ nodeHandler' = [pc |-> "listed", pods |-> getActivePodInNode]
        \/ nodeHandler' = [Free EXCEPT !.pc = "done"]
    BY <1>7 DEF NodeStep, ListForNode, addNodeToCache
  <2>3. nodeHandler' \in [pc : {"todo", "listed", "done"}, pods : PodLists]
    BY <1>0, <2>2, ListedType DEF Free
  <2> QED
    BY <1>0, <1>2, <2>1, <2>3 DEF podQueue
<1>8. ASSUME NEW w \in Worker, WorkerStep(w)
      PROVE  HandlersInv'
  <2>1. nodeHandler \in [pc : {"todo", "listed", "done"}, pods : PodLists']
    BY <1>0, <1>1 DEF HandlersInv
  <2> QED
    BY <1>8, <2>1, WorkerRun DEF HandlersInv, RunInv, At
<1> QED
  BY <1>3, <1>4, <1>5, <1>6, <1>7, <1>8 DEF ControllerNext, vars

-----------------------------------------------------------------------------
RunningStays ==
  \A p \in Pod : OnLedger(p) /\ api[p] = "bound" /\ ~Rebuilt => OnLedger(p)'

(***************************************************************************)
(* The calls on the cache, one action at a time.                           *)
(***************************************************************************)
LEMMA CacheCalls ==
  ASSUME CInv, ApiInv', Onward, [ControllerNext]_vars
  PROVE  [Next]_cacheVars /\ LedgerInv' /\ RunningStays
<1>0. /\ IInv /\ QueueInv /\ HandlersInv /\ ApiInv /\ InformerInv /\ LedgerInv /\ BoardOK
      /\ PodLists \subseteq PodLists'
      /\ processing \subseteq Pod
  <2>1. IInv /\ QueueInv /\ HandlersInv /\ ApiInv /\ InformerInv /\ LedgerInv
    BY DEF CInv, WorkersInv
  <2> QED
    BY <2>1, OnwardKeeps DEF HandlersInv, ApiInv
<1>1. CASE UNCHANGED cacheVars
  BY <1>0, <1>1 DEF cacheVars, LedgerInv, Cached, RunningStays, OnLedger
<1>2. ASSUME NEW p \in Pod, BindAssume(p)
      PROVE  [Next]_cacheVars /\ LedgerInv' /\ RunningStays
  <2> DEFINE b == choice[p]
  <2>1. b \in Board /\ AssumePod(p, Home, b)
    BY <1>0, <1>2 DEF BindAssume, BoardOK
  <2>2. board[p] = NoBoard /\ Covers(Capacity, Claim(b, p))
    BY <1>0, <2>1 DEF ApiInv
  <2>3. CASE AssumePodErr(p, Home, b)
    <3> HIDE DEF b
    <3> QED
      BY <1>0, <1>1, <2>1, <2>2, <2>3, AssumeFits
  <2>4. CASE ~AssumePodErr(p, Home, b)
    <3>1. board'[p] = b
      BY <1>0, <1>2, <2>4 DEF BindAssume, BoardOK
    <3> HIDE DEF b
    <3> QED
      BY <1>0, <2>1, <2>2, <3>1, AddCall DEF Next, RunningStays, StaysOn
  <2> QED
    BY <2>3, <2>4
<1>3. ASSUME NEW p \in Pod, BindFails(p)
      PROVE  [Next]_cacheVars /\ LedgerInv' /\ RunningStays
  <2>1. PICK a \in {NoBoard, board[p]} : ForgetPod(p, Home, a)
    BY <1>3 DEF BindFails
  <2>2. api[p] = "gone"
    BY <1>3 DEF BindFails
  <2> QED
    BY <1>0, <2>1, <2>2, DeleteCall DEF Next, RunningStays, StaysOn
<1>4. ASSUME NEW p \in Pod,
             BindUpdate(p) \/ BindBind(p) \/ PodEnds(p) \/ \E b \in Board : BindChoose(p, b)
      PROVE  UNCHANGED cacheVars
  BY <1>4 DEF BindUpdate, BindBind, PodEnds, BindChoose
<1>5. CASE InformerStep
  BY <1>1, <1>5 DEF InformerStep, ListPods, Watch
<1>6. CASE HandlePodEvent
  <2> DEFINE e == Head(events)
  <2>1. /\ events # <<>>
        /\ addPodToCache(e) \/ updatePodInCache(e) \/ deletePodFromCache(e)
    BY <1>6 DEF HandlePodEvent
  <2>2. e \in Notifications
    BY <1>0, <2>1 DEF InformerInv
  <2> HIDE DEF e
  <2>3. CASE addPodToCache(e) \/ updatePodInCache(e)
    BY <1>1, <2>3 DEF addPodToCache, updatePodInCache
  <2>4. CASE deletePodFromCache(e)
    <3>1. e.new = "gone" /\ DeletePod(e.pod, e.node, e.board)
      BY <2>4 DEF deletePodFromCache
    <3>2. /\ e.pod \in Pod /\ e.node \in {Home, NoNode} /\ e.board \in {board[e.pod], NoBoard}
          /\ api[e.pod] = "gone"
      BY <2>2, <3>1 DEF Notifications, Seen
    <3> QED
      BY <1>0, <3>1, <3>2, DeleteCall DEF Next, RunningStays, StaysOn
  <2> QED
    BY <2>1, <2>3, <2>4
<1>7. CASE ListForNode
  BY <1>1, <1>7 DEF ListForNode
<1>8. CASE addNodeToCache
  <2>1. /\ nodeHandler.pc = "listed" /\ AddNode(Home, Capacity, nodeHandler.pods)
        /\ nodeHandler' = [Free EXCEPT !.pc = "done"]
    BY <1>8 DEF addNodeToCache
  <2>2. nodeHandler.pods \in PodLists
    BY <1>0 DEF HandlersInv
  <2>3. Rebuilt
    BY <2>1 DEF Rebuilt, Free
  <2> QED
    BY <1>0, <2>1, <2>2, <2>3, NodeCall DEF Next, RunningStays
<1>9. ASSUME NEW w \in Worker, WorkerStep(w)
      PROVE  [Next]_cacheVars /\ LedgerInv' /\ RunningStays
  <2> DEFINE p == worker[w].pod
  <2>1. ~At(w, "free") => p \in Pod
    BY <1>0 DEF QueueInv
  <2>2. CASE Get(w) \/ syncPod(w) \/ assignPod(w) \/ AssignList(w)
    BY <1>1, <2>2 DEF Get, syncPod, assignPod, AssignList
  <2>3. CASE releasePod(w)
    <3>1. p \in Pod /\ "completed" \in Seen(p) /\ DeletePod(p, Home, board[p])
      BY <1>0, <2>1, <2>3 DEF releasePod, At, HandlersInv
    <3>2. api[p] # "bound"
      BY <3>1 DEF Seen
    <3> HIDE DEF p
    <3> QED
      BY <1>0, <3>1, <3>2, DeleteCall DEF Next, RunningStays, StaysOn
  <2>4. CASE AssignNode(w)
    <3>1. /\ At(w, "addNode") /\ AddNode(Home, Capacity, worker[w].run.pods)
          /\ worker' = [worker EXCEPT ![w].run = [Free EXCEPT !.pc = "add"]]
      BY <2>4 DEF AssignNode, Run
    <3>2. worker[w].run.pods \in PodLists
      BY <1>0 DEF HandlersInv
    <3>3. worker'[w].run.pc = "add" /\ worker[w].run.pc = "addNode"
      BY <1>0, <3>1 DEF QueueInv, Free, At
    <3>4. Rebuilt
      BY <3>1, <3>3 DEF Rebuilt
    <3> QED
      BY <1>0, <3>1, <3>2, <3>4, NodeCall DEF Next, RunningStays
  <2>5. CASE AssignAdd(w)
    <3>1. p \in Pod /\ "bound" \in Seen(p) /\ AddPod(p, Home, board[p]) /\ board' = board
      BY <1>0, <2>1, <2>5 DEF AssignAdd, At, HandlersInv, apiVars
    <3>2. board[p] \in Board /\ Covers(Capacity, Claim(board[p], p))
      BY <1>0, <3>1 DEF Seen, ApiInv
    <3> HIDE DEF p
    <3> QED
      BY <1>0, <3>1, <3>2, AddCall DEF Next, RunningStays, StaysOn
  <2> QED
    BY <1>9, <2>2, <2>3, <2>4, <2>5 DEF WorkerStep
<1> QED
  BY <1>1, <1>2, <1>3, <1>4, <1>5, <1>6, <1>7, <1>8, <1>9 DEF ControllerNext, NodeStep, vars

-----------------------------------------------------------------------------
(***************************************************************************)
(* The theorems.                                                           *)
(***************************************************************************)

\* The invariant holds when the scheduler starts, whatever an earlier process
\* left at the API server.
LEMMA ControllerInit == ASSUME Init PROVE CInv
<1>1. IInv
  BY InitInv DEF Init
<1>2. WorkersInv
  BY WorkersInit
<1>3. ApiInv
  <2>1. ASSUME NEW p \in Pod
        PROVE  /\ board[p] \in Board \cup {NoBoard} /\ api[p] \in Stages \ {"gone"}
               /\ (api[p] = "pending") = (board[p] = NoBoard)
               /\ api[p] # "pending" => Covers(Capacity, Claim(board[p], p))
    BY <2>1 DEF Init, Leftover
  <2>2. /\ api \in [Pod -> Stages] /\ bind \in [Pod -> {"no", "assumed", "done"}]
        /\ \A p \in Pod : bind[p] = "no" /\ choice[p] = NoBoard
    BY DEF Init
  <2> QED
    BY <1>2, <2>1, <2>2, AnnotationAssumption DEF ApiInv, Seen, WorkersInv
<1>4. InformerInv
  <2>1. /\ events = <<>> /\ lister = [p \in Pod |-> "unlisted"] /\ watch = [p \in Pod |-> <<>>]
    BY DEF Init
  <2>2. events \in Seq(Notifications) /\ \A p \in Pod : watch[p] \in Seq(Seen(p))
    BY <2>1
  <2>3. watch \in [Pod -> Seq(Stages)]
    BY <2>1
  <2> QED
    BY <2>1, <2>2, <2>3 DEF InformerInv
<1>5. HandlersInv
  <2>1. Free.pods \in PodLists /\ Free.pc = "free"
    BY <1>3, <1>4, ListedType DEF Free
  <2>2. \A w \in Worker : worker[w].run = Free
    BY DEF Init
  <2>3. nodeHandler \in [pc : {"todo", "listed", "done"}, pods : PodLists]
    BY <2>1 DEF Init, Free
  <2> QED
    BY <2>1, <2>2, <2>3 DEF Init, HandlersInv, At
<1>6. LedgerInv
  BY DEF Init, CacheInit, LedgerInv, Cached
<1> QED
  BY <1>1, <1>2, <1>3, <1>4, <1>5, <1>6 DEF CInv

\* Every step keeps it, and is for the cache one of its calls.
LEMMA ControllerStep ==
  ASSUME CInv, [ControllerNext]_vars
  PROVE  CInv' /\ [Next]_cacheVars /\ RunningStays
<1>1. IInv /\ LedgerInv /\ ApiInv /\ InformerInv /\ WorkersInv
  BY DEF CInv
<1>2. Onward /\ ApiInv'
  BY <1>1, ApiStep
<1>3. InformerInv' /\ HandlersInv'
  BY <1>1, <1>2, InformerKeeps, HandlersKeep
<1>4. [Next]_cacheVars /\ LedgerInv' /\ RunningStays
  BY <1>2, CacheCalls
<1>5. IInv'
  BY <1>1, <1>4, StepInv
<1>6. WorkersInv'
  BY <1>1, WorkerStepKeeps, OthersKeep
<1> QED
  BY <1>2, <1>3, <1>4, <1>5, <1>6 DEF CInv

\* The inductive invariant of the controller: the theorems below follow from it.
THEOREM CInvHolds == ControllerSpec => []CInv
<1>1. Init => CInv
  BY ControllerInit
<1>2. CInv /\ [ControllerNext]_vars => CInv'
  BY ControllerStep
<1> QED
  BY <1>1, <1>2, PTL DEF ControllerSpec

\* The controller's variables have their types, and what is queued is dirty
\* (controller.go:46-80 and 106-140).
THEOREM ControllerTypeHolds == ControllerSpec => []ControllerTypeOK
<1>1. CInv => ControllerTypeOK
  <2> SUFFICES ASSUME CInv PROVE ControllerTypeOK
    OBVIOUS
  <2>1. ToSet(queue) \subseteq dirty
    BY DEF CInv, WorkersInv, QueueInv, ToSet
  <2> QED
    BY <2>1 DEF CInv, IInv, WorkersInv, ApiInv, BoardOK, InformerInv, HandlersInv, ControllerTypeOK
<1> QED
  BY <1>1, CInvHolds, PTL

\* Handlers, workers and Bind call the cache (cache.go:162-330) with the board a
\* pod is stored with, however old what they act on is: ControllerSpec implements
\* the cache's Spec, and the theorems about the cache are about it, too.
THEOREM ControllerKeepsContract == ControllerSpec => KeepsCacheContract
<1>1. Init => CacheInit
  BY DEF Init
<1>2. CInv /\ [ControllerNext]_vars => [Next]_cacheVars
  BY ControllerStep
<1> QED
  BY <1>1, <1>2, CInvHolds, PTL DEF ControllerSpec, Spec, KeepsCacheContract

\* The cache's theorems about its caller: beside the controller the ledgers keep
\* their books and offer only what the node reports (cache.go:47-91).
THEOREM ControllerKeepsBooks == ControllerSpec => [](Accounting /\ OffersOnlyReported)
<1>1. Spec => [](Accounting /\ OffersOnlyReported)
  BY AccountingHolds, OffersOnlyReportedHolds, PTL
<1> QED
  BY <1>1, ControllerKeepsContract DEF KeepsCacheContract

\* The ledger of the node never gets into the state that addPod (cache.go:60)
\* leaves behind when a charge does not fit, and every pod on it is there with
\* the board of its annotation: what the controller calls with was read late, but
\* never wrong.
THEOREM LedgerStaysOpen == ControllerSpec => []LedgerInv
<1>1. CInv => LedgerInv
  BY DEF CInv
<1> QED
  BY <1>1, CInvHolds, PTL

\* No stale notification or sync takes a running pod off the ledger of its node
\* (controller.go:167-198 and 295-321).
THEOREM RunningStaysChargedHolds == ControllerSpec => RunningStaysCharged
<1>1. CInv /\ [ControllerNext]_vars
        => [\A p \in Pod :
              OnLedger(p) /\ api[p] = "bound" /\ api'[p] = "bound" /\ ~Rebuilt
                => OnLedger(p)']_vars
  BY ControllerStep DEF RunningStays
<1> QED
  BY <1>1, CInvHolds, PTL DEF ControllerSpec, RunningStaysCharged
=============================================================================
