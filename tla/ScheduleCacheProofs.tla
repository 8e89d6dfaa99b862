------------------------- MODULE ScheduleCacheProofs -------------------------
(***************************************************************************)
(* Proofs about ScheduleCache, for every set of nodes, boards, orins and   *)
(* pods, every request and every capacity.                                 *)
(***************************************************************************)
EXTENDS ScheduleCache, TLAPS

-----------------------------------------------------------------------------
(***************************************************************************)
(* Lemmas about board details.                                             *)
(***************************************************************************)

\* Membership in BoardDetails without the union.
LEMMA BoardDetailsType ==
  \A d : d \in BoardDetails <=>
           DOMAIN d \subseteq Board /\ d \in [DOMAIN d -> SUBSET Orin]
  BY DEF BoardDetails

\* A difference is a BoardDetails and lies within its superset.
LEMMA DifferenceType ==
  ASSUME NEW src \in BoardDetails, NEW sub
  PROVE  /\ DifferenceFromSuperset(src, sub) \in BoardDetails
         /\ DOMAIN DifferenceFromSuperset(src, sub) = DOMAIN src
         /\ Covers(src, DifferenceFromSuperset(src, sub))
  <1>1. DOMAIN src \subseteq Board /\ src \in [DOMAIN src -> SUBSET Orin]
    BY BoardDetailsType
  <1>2. /\ DOMAIN DifferenceFromSuperset(src, sub) = DOMAIN src
        /\ DifferenceFromSuperset(src, sub) \in [DOMAIN src -> SUBSET Orin]
    BY <1>1 DEF DifferenceFromSuperset
  <1>3. Covers(src, DifferenceFromSuperset(src, sub))
    BY DEF Covers, DifferenceFromSuperset
  <1> QED BY <1>1, <1>2, <1>3, BoardDetailsType

\* What is left when the claim of a pod is taken out.
LEMMA DifferenceClaim ==
  ASSUME NEW d, NEW b, NEW p
  PROVE  /\ DOMAIN DifferenceFromSuperset(d, Claim(b, p)) = DOMAIN d
         /\ \A c \in DOMAIN d :
              DifferenceFromSuperset(d, Claim(b, p))[c] =
                IF c = b THEN d[c] \ Req[p] ELSE d[c]
  <1>1. DOMAIN DifferenceFromSuperset(d, Claim(b, p)) = DOMAIN d
    BY DEF DifferenceFromSuperset
  <1>2. ASSUME NEW c \in DOMAIN d
        PROVE  DifferenceFromSuperset(d, Claim(b, p))[c] =
                 IF c = b THEN d[c] \ Req[p] ELSE d[c]
    <2>1. DifferenceFromSuperset(d, Claim(b, p))[c] = d[c] \ OrinsOf(Claim(b, p), c)
      BY <1>2 DEF DifferenceFromSuperset
    <2>2. OrinsOf(Claim(b, p), c) = IF c = b THEN Req[p] ELSE {}
      BY DEF OrinsOf, Claim
    <2>3. d[c] \ {} = d[c]
      OBVIOUS
    <2> QED BY <2>1, <2>2, <2>3
  <1> QED BY <1>1, <1>2

\* Adding orins of a board keeps the type, and stays within what covers both.
LEMMA AddType ==
  ASSUME NEW d \in BoardDetails, NEW b \in Board, NEW os \in SUBSET Orin
  PROVE  /\ Add(d, b, os) \in BoardDetails
         /\ \A t : Covers(t, d) /\ Covers(t, [c \in {b} |-> os]) => Covers(t, Add(d, b, os))
  <1>1. DOMAIN d \subseteq Board /\ d \in [DOMAIN d -> SUBSET Orin]
    BY BoardDetailsType
  <1>2. DOMAIN Add(d, b, os) = DOMAIN d \cup {b}
    BY DEF Add
  <1>3. Add(d, b, os) \in [DOMAIN d \cup {b} -> SUBSET Orin]
    BY <1>1 DEF Add, OrinsOf
  <1>4. Add(d, b, os) \in BoardDetails
    BY <1>1, <1>2, <1>3, BoardDetailsType
  <1>5. ASSUME NEW t, Covers(t, d), Covers(t, [c \in {b} |-> os])
        PROVE  Covers(t, Add(d, b, os))
    BY <1>5, <1>1 DEF Covers, Add, OrinsOf
  <1> QED BY <1>4, <1>5

\* Functions from pods to boards without the union.
LEMMA PodsType ==
  \A A, f : f \in PodsWith(A) <=> DOMAIN f \subseteq Pod /\ f \in [DOMAIN f -> A]
  BY DEF PodsWith

-----------------------------------------------------------------------------
(***************************************************************************)
(* The invariant of one ledger.  That every stored pod fits the node is    *)
(* what makes a closed ledger stay closed: what a delete takes out of      *)
(* Requested is within Total, so it was not what the node cannot cover.    *)
(***************************************************************************)
LedgerOK(ni) ==
  /\ ni \in NodeInfos
  /\ Healthy(ni) => ni.Allocatable = DifferenceFromSuperset(ni.Total, ni.Requested)
  /\ Covers(ni.Total, ni.Allocatable)
  /\ \A p \in DOMAIN ni.Pods : Covers(ni.Total, Claim(ni.Pods[p], p))

IInv ==
  /\ TypeOK
  /\ \A n \in DOMAIN nodeCache : LedgerOK(nodeCache[n])

\* The parts of the type of a node info.
LEMMA NodeInfoType ==
  ASSUME NEW ni \in NodeInfos
  PROVE  /\ DOMAIN ni.Pods \subseteq Pod /\ ni.Pods \in [DOMAIN ni.Pods -> Board]
         /\ ni.Allocatable \in BoardDetails
         /\ ni.Requested \in BoardDetails
         /\ ni.Total \in BoardDetails
  BY PodsType DEF NodeInfos

\* The request of a pod is a set of orins.
LEMMA ReqType == \A p \in Pod : Req[p] \in SUBSET Orin
  BY ReqAssumption

\* deletePod of a stored pod, with the board it was stored with.
LEMMA ReleasedOK ==
  ASSUME NEW ni, LedgerOK(ni), NEW p \in DOMAIN ni.Pods, NEW b, b = ni.Pods[p],
         Covers(ni.Requested, Claim(b, p))
  PROVE  /\ LedgerOK(Released(ni, p, b))
         /\ ~Healthy(ni) => ~Healthy(Released(ni, p, b))
         /\ DOMAIN Released(ni, p, b).Pods \subseteq DOMAIN ni.Pods
         /\ Released(ni, p, b).Total = ni.Total
  <1> DEFINE nj == Released(ni, p, b)
  <1>1. /\ ni \in NodeInfos /\ p \in Pod /\ b \in Board /\ Req[p] \in SUBSET Orin
        /\ DOMAIN ni.Pods \subseteq Pod /\ ni.Pods \in [DOMAIN ni.Pods -> Board]
        /\ ni.Allocatable \in BoardDetails /\ ni.Requested \in BoardDetails
        /\ ni.Total \in BoardDetails
    BY NodeInfoType, ReqType DEF LedgerOK
  <1>2. /\ nj.Requested = DifferenceFromSuperset(ni.Requested, Claim(b, p))
        /\ nj.Allocatable = Add(ni.Allocatable, b, Req[p])
        /\ nj.Pods = [q \in DOMAIN ni.Pods \ {p} |-> ni.Pods[q]]
        /\ nj.Total = ni.Total
    BY DEF Released, Restricted
  <1>a. nj = [Pods |-> nj.Pods, Allocatable |-> nj.Allocatable,
              Requested |-> nj.Requested, Total |-> nj.Total]
    BY DEF Released
  <1> HIDE DEF nj
  <1>3. nj \in NodeInfos
    <2>1. nj.Requested \in BoardDetails
      BY <1>1, <1>2, DifferenceType
    <2>2. nj.Allocatable \in BoardDetails
      BY <1>1, <1>2, AddType
    <2>3. nj.Pods \in PodsWith(Board)
      <3>1. DOMAIN nj.Pods \subseteq Pod /\ nj.Pods \in [DOMAIN nj.Pods -> Board]
        BY <1>1, <1>2
      <3> QED BY <3>1, PodsType
    <2> QED BY <1>1, <1>2, <1>a, <2>1, <2>2, <2>3 DEF NodeInfos
  <1>4. Covers(ni.Total, Claim(b, p))
    BY DEF LedgerOK
  <1>5. b \in DOMAIN ni.Total /\ Req[p] \subseteq ni.Total[b]
    BY <1>4 DEF Covers, Claim
  <1>6. b \in DOMAIN ni.Requested /\ Req[p] \subseteq ni.Requested[b]
    BY DEF Covers, Claim
  <1>7. /\ DOMAIN nj.Requested = DOMAIN ni.Requested
        /\ \A c \in DOMAIN ni.Requested :
             nj.Requested[c] = IF c = b THEN ni.Requested[c] \ Req[p] ELSE ni.Requested[c]
    BY <1>2, DifferenceClaim
  <1>8. Healthy(nj) => Healthy(ni)
    BY <1>2, <1>5, <1>7 DEF Healthy, Covers
  <1>9. Healthy(nj) => nj.Allocatable = DifferenceFromSuperset(nj.Total, nj.Requested)
    <2> SUFFICES ASSUME Healthy(ni)
                 PROVE  nj.Allocatable = DifferenceFromSuperset(ni.Total, nj.Requested)
      BY <1>2, <1>8
    <2>1. ni.Allocatable = DifferenceFromSuperset(ni.Total, ni.Requested)
      BY DEF LedgerOK
    <2>2. DOMAIN ni.Allocatable = DOMAIN ni.Total
      BY <2>1 DEF DifferenceFromSuperset
    <2>3. \A c \in DOMAIN ni.Total :
            (IF c = b THEN OrinsOf(ni.Allocatable, b) \cup Req[p] ELSE ni.Allocatable[c])
              = ni.Total[c] \ OrinsOf(nj.Requested, c)
      <3> SUFFICES ASSUME NEW c \in DOMAIN ni.Total
                   PROVE  (IF c = b THEN OrinsOf(ni.Allocatable, b) \cup Req[p]
                                    ELSE ni.Allocatable[c])
                            = ni.Total[c] \ OrinsOf(nj.Requested, c)
        OBVIOUS
      <3>1. ni.Allocatable[c] = ni.Total[c] \ OrinsOf(ni.Requested, c)
        BY <2>1 DEF DifferenceFromSuperset
      <3>2. CASE c = b
        <4>1. OrinsOf(ni.Allocatable, b) = ni.Allocatable[c]
          BY <2>2, <3>2 DEF OrinsOf
        <4>2. OrinsOf(nj.Requested, c) = OrinsOf(ni.Requested, c) \ Req[p]
          BY <1>6, <1>7, <3>2 DEF OrinsOf
        <4> QED BY <1>5, <3>1, <3>2, <4>1, <4>2
      <3>3. CASE c # b
        <4>1. OrinsOf(nj.Requested, c) = OrinsOf(ni.Requested, c)
          BY <1>7, <3>3 DEF OrinsOf
        <4> QED BY <3>1, <3>3, <4>1
      <3> QED BY <3>2, <3>3
    <2>4. DOMAIN ni.Allocatable \cup {b} = DOMAIN ni.Total
      BY <1>5, <2>2
    <2> QED BY <1>2, <2>3, <2>4 DEF DifferenceFromSuperset, Add
  <1>10. Covers(nj.Total, nj.Allocatable)
    <2>1. Covers(ni.Total, ni.Allocatable)
      BY DEF LedgerOK
    <2>2. Covers(ni.Total, [c \in {b} |-> Req[p]])
      BY <1>4 DEF Claim
    <2>3. Covers(ni.Total, Add(ni.Allocatable, b, Req[p]))
      BY <1>1, <2>1, <2>2, AddType
    <2> QED BY <1>2, <2>3
  <1>11. \A q \in DOMAIN nj.Pods : Covers(nj.Total, Claim(nj.Pods[q], q))
    BY <1>2 DEF LedgerOK
  <1> USE DEF nj
  <1> QED BY <1>2, <1>3, <1>8, <1>9, <1>10, <1>11 DEF LedgerOK

\* deletePod of any pod, when its annotation is the board it was stored with.
LEMMA DeletePodOK ==
  ASSUME NEW ni, LedgerOK(ni), NEW p, NEW a,
         a \in Board /\ p \in DOMAIN ni.Pods => a = ni.Pods[p]
  PROVE  /\ LedgerOK(deletePod(ni, p, a))
         /\ ~Healthy(ni) => ~Healthy(deletePod(ni, p, a))
         /\ DOMAIN deletePod(ni, p, a).Pods \subseteq DOMAIN ni.Pods
         /\ deletePod(ni, p, a).Total = ni.Total
  <1>1. CASE a \in Board /\ ~deletePodErr(ni, p, a)
    <2>1. p \in DOMAIN ni.Pods /\ a = ni.Pods[p] /\ Covers(ni.Requested, Claim(a, p))
      BY <1>1, AnnotationAssumption DEF deletePodErr
    <2>2. deletePod(ni, p, a) = Released(ni, p, a)
      BY <1>1 DEF deletePod
    <2> QED BY <2>1, <2>2, ReleasedOK
  <1>2. CASE ~(a \in Board /\ ~deletePodErr(ni, p, a))
    BY <1>2 DEF deletePod
  <1> QED BY <1>1, <1>2

\* The charge of a pod is a charge more: what was not covered is not covered.
LEMMA ChargedOK ==
  ASSUME NEW ni, LedgerOK(ni), NEW p \in Pod, NEW b \in Board
  PROVE  /\ Charged(ni, p, b) \in NodeInfos
         /\ ~Healthy(ni) => ~Healthy(Charged(ni, p, b))
         /\ ~Healthy(Charged(ni, p, b)) => LedgerOK(Charged(ni, p, b))
         /\ Healthy(Charged(ni, p, b)) => LedgerOK(Stored(Charged(ni, p, b), p, b))
  <1> DEFINE nc == Charged(ni, p, b)
             ns == Stored(nc, p, b)
  <1>1. /\ ni \in NodeInfos /\ Req[p] \in SUBSET Orin
        /\ DOMAIN ni.Pods \subseteq Pod /\ ni.Pods \in [DOMAIN ni.Pods -> Board]
        /\ ni.Allocatable \in BoardDetails /\ ni.Requested \in BoardDetails
        /\ ni.Total \in BoardDetails
    BY NodeInfoType, ReqType DEF LedgerOK
  <1>2. /\ nc.Requested = Add(ni.Requested, b, Req[p])
        /\ nc.Allocatable = ni.Allocatable /\ nc.Pods = ni.Pods /\ nc.Total = ni.Total
    BY DEF Charged
  <1>3. nc.Requested \in BoardDetails
    BY <1>1, <1>2, AddType
  <1>4. nc \in NodeInfos
    BY <1>1, <1>3, PodsType DEF Charged, NodeInfos
  <1>5. /\ b \in DOMAIN nc.Requested /\ Req[p] \subseteq nc.Requested[b]
        /\ DOMAIN ni.Requested \subseteq DOMAIN nc.Requested
        /\ \A c \in DOMAIN ni.Requested : ni.Requested[c] \subseteq nc.Requested[c]
    BY <1>2 DEF Add, OrinsOf
  <1>6. Healthy(nc) => Healthy(ni)
    BY <1>2, <1>5 DEF Healthy, Covers
  <1>7. ~Healthy(nc) => LedgerOK(nc)
    BY <1>2, <1>4 DEF LedgerOK
  <1>8. ASSUME Healthy(nc)
        PROVE  LedgerOK(ns)
    <2>1. /\ ns.Pods = [q \in DOMAIN ni.Pods \cup {p} |-> IF q = p THEN b ELSE ni.Pods[q]]
          /\ ns.Allocatable = DifferenceFromSuperset(ni.Total, nc.Requested)
          /\ ns.Requested = nc.Requested /\ ns.Total = ni.Total
          /\ ns = [Pods |-> ns.Pods, Allocatable |-> ns.Allocatable,
                   Requested |-> ns.Requested, Total |-> ns.Total]
      BY <1>2 DEF Stored
    <2>2. ns.Allocatable \in BoardDetails /\ Covers(ns.Total, ns.Allocatable)
      BY <1>1, <2>1, DifferenceType
    <2>3. ns.Pods \in PodsWith(Board)
      <3>1. DOMAIN ns.Pods \subseteq Pod /\ ns.Pods \in [DOMAIN ns.Pods -> Board]
        BY <1>1, <2>1
      <3> QED BY <3>1, PodsType
    <2>4. ns \in NodeInfos
      <3> HIDE DEF ns, nc
      <3> QED BY <1>1, <1>3, <2>1, <2>2, <2>3 DEF NodeInfos
    <2>5. Covers(ni.Total, Claim(b, p))
      BY <1>2, <1>5, <1>8 DEF Healthy, Covers, Claim
    <2>6. \A q \in DOMAIN ns.Pods : Covers(ns.Total, Claim(ns.Pods[q], q))
      BY <2>1, <2>5 DEF LedgerOK
    <2> QED BY <2>1, <2>2, <2>4, <2>6 DEF LedgerOK
  <1> QED BY <1>4, <1>6, <1>7, <1>8

\* addPod of any pod: the ledger stays in order, and a closed one stays closed.
LEMMA AddPodOK ==
  ASSUME NEW ni, LedgerOK(ni), NEW p \in Pod, NEW a,
         a \in Board /\ p \in DOMAIN ni.Pods => a = ni.Pods[p]
  PROVE  /\ LedgerOK(addPod(ni, p, a))
         /\ ~Healthy(ni) => /\ ~Healthy(addPod(ni, p, a))
                            /\ DOMAIN addPod(ni, p, a).Pods \subseteq DOMAIN ni.Pods
  <1>1. CASE a \notin Board \/ EvictErr(ni, p, a)
    <2>1. addPod(ni, p, a) = ni
      BY <1>1 DEF addPod, addPodErr
    <2> QED BY <2>1
  <1>2. CASE a \in Board /\ ~EvictErr(ni, p, a)
    <2> DEFINE base == Evicted(ni, p, a)
    <2>1. /\ LedgerOK(base)
          /\ ~Healthy(ni) => ~Healthy(base)
          /\ DOMAIN base.Pods \subseteq DOMAIN ni.Pods
      BY DeletePodOK DEF Evicted
    <2> HIDE DEF base
    <2>2. Charge(ni, p, a) = Charged(base, p, a)
      BY DEF Charge, base
    <2>3. DOMAIN Charged(base, p, a).Pods = DOMAIN base.Pods
      BY DEF Charged
    <2>4. CASE addPodErr(ni, p, a)
      <3>1. addPod(ni, p, a) = Charged(base, p, a) /\ ~Healthy(Charged(base, p, a))
        BY <1>2, <2>2, <2>4 DEF addPod, addPodErr
      <3> QED BY <1>2, <2>1, <2>3, <3>1, ChargedOK
    <2>5. CASE ~addPodErr(ni, p, a)
      <3>1. /\ addPod(ni, p, a) = Stored(Charged(base, p, a), p, a)
            /\ Healthy(Charged(base, p, a))
        BY <1>2, <2>2, <2>5 DEF addPod, addPodErr
      <3>2. Healthy(ni)
        BY <1>2, <2>1, <3>1, ChargedOK
      <3> QED BY <1>2, <2>1, <3>1, <3>2, ChargedOK
    <2> QED BY <2>4, <2>5
  <1> QED BY <1>1, <1>2

-----------------------------------------------------------------------------
(***************************************************************************)
(* Node infos built from a capacity and a list of pods.                    *)
(***************************************************************************)

\* The sum of requests is a BoardDetails, and covered when every claim is.
LEMMA RequestOfType ==
  ASSUME NEW pods \in PodsWith(Board)
  PROVE  /\ RequestOf(pods) \in BoardDetails
         /\ \A t : Covers(t, RequestOf(pods)) <=>
                     \A p \in DOMAIN pods : Covers(t, Claim(pods[p], p))
  <1>1. DOMAIN pods \subseteq Pod /\ pods \in [DOMAIN pods -> Board]
    BY PodsType
  <1>2. DOMAIN RequestOf(pods) = {pods[p] : p \in DOMAIN pods}
    BY DEF RequestOf
  <1>3. \A b \in DOMAIN RequestOf(pods) :
          RequestOf(pods)[b] = UNION {Req[p] : p \in {q \in DOMAIN pods : pods[q] = b}}
    BY DEF RequestOf
  <1>4. RequestOf(pods) \in BoardDetails
    <2>1. DOMAIN RequestOf(pods) \subseteq Board
      BY <1>1, <1>2
    <2>2. \A b \in DOMAIN RequestOf(pods) : RequestOf(pods)[b] \in SUBSET Orin
      BY <1>1, <1>3, ReqType
    <2>3. RequestOf(pods) \in [DOMAIN RequestOf(pods) -> SUBSET Orin]
      BY <1>2, <2>2 DEF RequestOf
    <2> QED BY <2>1, <2>3, BoardDetailsType
  <1>5. ASSUME NEW t, Covers(t, RequestOf(pods)), NEW p \in DOMAIN pods
        PROVE  Covers(t, Claim(pods[p], p))
    BY <1>2, <1>3, <1>5 DEF Covers, Claim
  <1>6. ASSUME NEW t, \A p \in DOMAIN pods : Covers(t, Claim(pods[p], p))
        PROVE  Covers(t, RequestOf(pods))
    <2>1. \A p \in DOMAIN pods : pods[p] \in DOMAIN t /\ Req[p] \subseteq t[pods[p]]
      BY <1>6 DEF Covers, Claim
    <2> QED BY <1>2, <1>3, <2>1 DEF Covers
  <1> QED BY <1>4, <1>5, <1>6

\* A part of the pods that carry a board.
LEMMA RestrictedType ==
  ASSUME NEW pods \in PodsWith(Annotation), NEW S,
         S \subseteq {p \in DOMAIN pods : pods[p] \in Board}
  PROVE  /\ Restricted(pods, S) \in PodsWith(Board)
         /\ DOMAIN Restricted(pods, S) = S
         /\ \A p \in S : Restricted(pods, S)[p] = pods[p]
  <1>1. DOMAIN pods \subseteq Pod
    BY PodsType
  <1>2. DOMAIN Restricted(pods, S) \subseteq Pod
        /\ Restricted(pods, S) \in [DOMAIN Restricted(pods, S) -> Board]
    BY <1>1 DEF Restricted
  <1> QED BY <1>2, PodsType DEF Restricted

Placed(pods) == {p \in DOMAIN pods : pods[p] \in Board}

\* What NewNodeInfo builds: a ledger in order, charged for every listed pod.
LEMMA NewNodeInfoOK ==
  ASSUME NEW total \in BoardDetails, NEW pods \in PodsWith(Annotation),
         NEW ni \in NewNodeInfo(total, pods)
  PROVE  /\ LedgerOK(ni)
         /\ ni.Total = total
         /\ ni.Requested = RequestOf(Restricted(pods, Placed(pods)))
  <1> DEFINE placed == Placed(pods)
             fits == {p \in placed : Covers(total, Claim(pods[p], p))}
             charged == RequestOf(Restricted(pods, placed))
  <1>1. PICK S \in (IF fits = placed THEN {placed} ELSE SUBSET fits) :
          ni = [Pods |-> Restricted(pods, S),
                Allocatable |-> DifferenceFromSuperset(total, RequestOf(Restricted(pods, S))),
                Requested |-> charged,
                Total |-> total]
    BY DEF NewNodeInfo, Placed
  <1>2. S \subseteq fits /\ S \subseteq placed
    BY <1>1
  <1>3. /\ ni.Pods = Restricted(pods, S)
        /\ ni.Allocatable = DifferenceFromSuperset(total, RequestOf(Restricted(pods, S)))
        /\ ni.Requested = charged
        /\ ni.Total = total
    BY <1>1
  <1>4. /\ Restricted(pods, S) \in PodsWith(Board)
        /\ DOMAIN Restricted(pods, S) = S
        /\ \A p \in S : Restricted(pods, S)[p] = pods[p]
    BY <1>2, RestrictedType DEF Placed
  <1>5. /\ Restricted(pods, placed) \in PodsWith(Board)
        /\ DOMAIN Restricted(pods, placed) = placed
        /\ \A p \in placed : Restricted(pods, placed)[p] = pods[p]
    BY RestrictedType DEF Placed
  <1>6. charged \in BoardDetails
    BY <1>5, RequestOfType
  <1>7. ni.Allocatable \in BoardDetails /\ Covers(total, ni.Allocatable)
    BY <1>3, DifferenceType
  <1>8. ni \in NodeInfos
    BY <1>1, <1>3, <1>4, <1>6, <1>7 DEF NodeInfos
  <1>9. Healthy(ni) => ni.Allocatable = DifferenceFromSuperset(ni.Total, ni.Requested)
    <2> SUFFICES ASSUME Healthy(ni)
                 PROVE  S = placed
      BY <1>3
    <2>1. \A p \in placed : Covers(total, Claim(pods[p], p))
      BY <1>3, <1>5, RequestOfType DEF Healthy
    <2>2. fits = placed
      BY <2>1
    <2> QED BY <1>1, <2>2
  <1>10. \A p \in DOMAIN ni.Pods : Covers(ni.Total, Claim(ni.Pods[p], p))
    BY <1>2, <1>3, <1>4
  <1> QED BY <1>3, <1>7, <1>8, <1>9, <1>10 DEF LedgerOK

\* What UpdateNode builds from the two.
LEMMA UpdatedNodeInfoOK ==
  ASSUME NEW newNi, LedgerOK(newNi), NEW oldNi, LedgerOK(oldNi)
  PROVE  LedgerOK(UpdatedNodeInfo(newNi, oldNi))
  <1> DEFINE ni == UpdatedNodeInfo(newNi, oldNi)
  <1>1. /\ newNi \in NodeInfos /\ newNi.Pods \in PodsWith(Board)
        /\ newNi.Total \in BoardDetails /\ oldNi.Requested \in BoardDetails
    BY DEF LedgerOK, NodeInfos
  <1>2. /\ ni.Pods = newNi.Pods /\ ni.Total = newNi.Total /\ ni.Requested = oldNi.Requested
        /\ ni.Allocatable = IF Covers(newNi.Total, oldNi.Requested)
                            THEN DifferenceFromSuperset(newNi.Total, oldNi.Requested)
                            ELSE NewBoardDetails
        /\ ni = [Pods |-> ni.Pods, Allocatable |-> ni.Allocatable,
                 Requested |-> ni.Requested, Total |-> ni.Total]
    BY DEF UpdatedNodeInfo
  <1> HIDE DEF ni
  <1>3. DOMAIN NewBoardDetails = {} /\ NewBoardDetails \in [{} -> SUBSET Orin]
    BY DEF NewBoardDetails
  <1>4. NewBoardDetails \in BoardDetails /\ Covers(newNi.Total, NewBoardDetails)
    BY <1>3, BoardDetailsType DEF Covers
  <1>5. ni.Allocatable \in BoardDetails /\ Covers(ni.Total, ni.Allocatable)
    BY <1>1, <1>2, <1>4, DifferenceType
  <1>6. ni \in NodeInfos
    BY <1>1, <1>2, <1>5 DEF NodeInfos
  <1>7. Healthy(ni) => ni.Allocatable = DifferenceFromSuperset(ni.Total, ni.Requested)
    BY <1>2 DEF Healthy
  <1>8. \A p \in DOMAIN ni.Pods : Covers(ni.Total, Claim(ni.Pods[p], p))
    BY <1>2 DEF LedgerOK
  <1>9. LedgerOK(ni)
    BY <1>5, <1>6, <1>7, <1>8 DEF LedgerOK
  <1> QED BY <1>9 DEF ni

-----------------------------------------------------------------------------
(***************************************************************************)
(* The actions.                                                            *)
(***************************************************************************)

\* Replacing one node info by one in order keeps the cache in order.
LEMMA SetNodeOK ==
  ASSUME IInv, NEW n \in Node, NEW ni, LedgerOK(ni), SetNode(n, ni)
  PROVE  /\ DOMAIN nodeCache' \subseteq Node
         /\ nodeCache' \in [DOMAIN nodeCache' -> NodeInfos]
         /\ \A m \in DOMAIN nodeCache' : LedgerOK(nodeCache'[m])
  BY DEF IInv, TypeOK, SetNode, LedgerOK

\* A step about a pod keeps the invariant and leaves closed ledgers closed.
LEMMA PodStep ==
  ASSUME IInv, NEW p \in Pod, NEW n \in Node \cup {NoNode}, NEW a \in Annotation,
         Consistent(p, n, a),
         AddPod(p, n, a) \/ DeletePod(p, n, a) \/ AssumePod(p, n, a) \/ ForgetPod(p, n, a)
  PROVE  IInv' /\ ~(\E m \in DOMAIN nodeCache : Reopened(m))
  <1> DEFINE Closed(ni, nj) ==
        ~Healthy(ni) => ~Healthy(nj) /\ DOMAIN nj.Pods \subseteq DOMAIN ni.Pods
  <1>1. podMaps' \subseteq Pod /\ assumePods' \subseteq Pod /\ releasedPod' \subseteq Pod
    BY DEF IInv, TypeOK, AddPod, DeletePod, AssumePod, ForgetPod
  <1>2. CASE UNCHANGED nodeCache
    BY <1>1, <1>2 DEF IInv, TypeOK, Reopened
  <1>3. ASSUME NEW ni, Cached(n), n \in Node, LedgerOK(ni), Closed(nodeCache[n], ni),
               SetNode(n, ni)
        PROVE  IInv' /\ ~(\E m \in DOMAIN nodeCache : Reopened(m))
    <2>1. IInv'
      BY <1>1, <1>3, SetNodeOK DEF IInv, TypeOK
    <2>2. ASSUME NEW m \in DOMAIN nodeCache
          PROVE  ~Reopened(m)
      BY <1>3 DEF SetNode, Reopened
    <2> QED BY <2>1, <2>2
  <1>4. CASE Cached(n) /\ SetNode(n, addPod(nodeCache[n], p, a))
    <2>1. n \in Node /\ LedgerOK(nodeCache[n])
      BY <1>4 DEF IInv, TypeOK, Cached
    <2>2. a \in Board /\ p \in DOMAIN nodeCache[n].Pods => a = nodeCache[n].Pods[p]
      BY <1>4 DEF Consistent
    <2>3. LedgerOK(addPod(nodeCache[n], p, a)) /\ Closed(nodeCache[n], addPod(nodeCache[n], p, a))
      BY <2>1, <2>2, AddPodOK
    <2> QED BY <1>3, <1>4, <2>1, <2>3
  <1>5. CASE Cached(n) /\ SetNode(n, deletePod(nodeCache[n], p, a))
    <2>1. n \in Node /\ LedgerOK(nodeCache[n])
      BY <1>5 DEF IInv, TypeOK, Cached
    <2>2. a \in Board /\ p \in DOMAIN nodeCache[n].Pods => a = nodeCache[n].Pods[p]
      BY <1>5 DEF Consistent
    <2>3. /\ LedgerOK(deletePod(nodeCache[n], p, a))
          /\ Closed(nodeCache[n], deletePod(nodeCache[n], p, a))
      BY <2>1, <2>2, DeletePodOK
    <2> QED BY <1>3, <1>5, <2>1, <2>3
  <1>6. CASE AddPod(p, n, a)
    BY <1>2, <1>4, <1>6 DEF AddPod, Ignored
  <1>7. CASE DeletePod(p, n, a)
    BY <1>2, <1>5, <1>7 DEF DeletePod, Ignored
  <1>8. CASE AssumePod(p, n, a)
    BY <1>2, <1>4, <1>8 DEF AssumePod
  <1>9. CASE ForgetPod(p, n, a)
    BY <1>2, <1>5, <1>9 DEF ForgetPod
  <1> QED BY <1>6, <1>7, <1>8, <1>9

\* A call about a node replaces one ledger by one in order, or drops it.
LEMMA NodeNextStep ==
  ASSUME IInv, NodeNext
  PROVE  IInv'
  <1>1. PICK n \in Node :
          \/ \E total \in Totals, pods \in ListedPods : AddNode(n, total, pods)
          \/ \E oldTotal, newTotal \in Totals, pods \in ListedPods :
               UpdateNode(n, oldTotal, newTotal, pods)
          \/ DeleteNode(n)
    BY DEF NodeNext
  <1>2. ASSUME NEW total \in Totals, NEW pods \in ListedPods, NEW ni \in NewNodeInfo(total, pods)
        PROVE  LedgerOK(ni)
    <2>1. pods \in PodsWith(Annotation) /\ total \in BoardDetails
      BY PodsType, TotalsAssumption DEF ListedPods, Annotation
    <2> QED BY <1>2, <2>1, NewNodeInfoOK
  <1>3. podMaps' \subseteq Pod /\ assumePods' \subseteq Pod /\ releasedPod' \subseteq Pod
    BY <1>1 DEF IInv, TypeOK, AddNode, UpdateNode, DeleteNode
  <1>4. ASSUME NEW ni, LedgerOK(ni), SetNode(n, ni)
        PROVE  IInv'
    BY <1>3, <1>4, SetNodeOK DEF IInv, TypeOK
  <1>5. ASSUME NEW total \in Totals, NEW pods \in ListedPods, AddNode(n, total, pods)
        PROVE  IInv'
    BY <1>2, <1>4, <1>5 DEF AddNode
  <1>6. ASSUME NEW oldTotal \in Totals, NEW newTotal \in Totals, NEW pods \in ListedPods,
               UpdateNode(n, oldTotal, newTotal, pods)
        PROVE  IInv'
    <2>1. CASE UNCHANGED nodeCache
      BY <1>3, <2>1 DEF IInv, TypeOK
    <2>2. ASSUME NEW newNi \in NewNodeInfo(newTotal, pods),
                 NEW oldNi \in NewNodeInfo(oldTotal, pods),
                 SetNode(n, UpdatedNodeInfo(newNi, oldNi))
          PROVE  IInv'
      <3>1. LedgerOK(newNi) /\ LedgerOK(oldNi)
        BY <1>2
      <3>2. LedgerOK(UpdatedNodeInfo(newNi, oldNi))
        BY <3>1, UpdatedNodeInfoOK
      <3> QED BY <1>4, <2>2, <3>2
    <2> QED BY <1>6, <2>1, <2>2 DEF UpdateNode
  <1>7. CASE DeleteNode(n)
    BY <1>3, <1>7 DEF IInv, TypeOK, DeleteNode
  <1> QED BY <1>1, <1>5, <1>6, <1>7

-----------------------------------------------------------------------------
(***************************************************************************)
(* The theorems.                                                           *)
(***************************************************************************)

\* The invariant holds of the empty cache NewScheduleCache makes.
LEMMA InitInv == ASSUME CacheInit PROVE IInv
  BY DEF CacheInit, IInv, TypeOK

\* No call on the cache breaks the invariant.
LEMMA StepInv == ASSUME IInv, [Next]_cacheVars PROVE IInv'
  <1>1. CASE PodNext
    BY <1>1, PodStep DEF PodNext
  <1>2. CASE NodeNext
    BY <1>2, NodeNextStep
  <1>3. CASE UNCHANGED cacheVars
    BY <1>3 DEF cacheVars, IInv, TypeOK
  <1> QED BY <1>1, <1>2, <1>3 DEF Next

\* Every ledger of the cache (cache.go:162) is in order after any sequence of
\* calls of its interface: the inductive invariant of the theorems below.
THEOREM InvHolds == Spec => []IInv
  <1>1. CacheInit => IInv
    BY InitInv
  <1>2. IInv /\ [Next]_cacheVars => IInv'
    BY StepInv
  <1> QED BY <1>1, <1>2, PTL DEF Spec

\* The maps of the cache (cache.go:162) hold node infos of known nodes and
\* UIDs of known pods.
THEOREM TypeCorrect == Spec => []TypeOK
  <1>1. IInv => TypeOK
    BY DEF IInv
  <1> QED BY <1>1, InvHolds, PTL

\* On every ledger the node can cover, allocatable and requested split the
\* total: the question deletePod leaves open at cache.go:109.
THEOREM AccountingHolds == Spec => []Accounting
  <1>1. IInv => Accounting
    BY DEF IInv, LedgerOK, Accounting
  <1> QED BY <1>1, InvHolds, PTL

\* No ledger offers the allocator an orin its node does not report, whatever
\* addPod (cache.go:55) and UpdateNode (cache.go:261) left behind.
THEOREM OffersOnlyReportedHolds == Spec => []OffersOnlyReported
  <1>1. IInv => OffersOnlyReported
    BY DEF IInv, LedgerOK, OffersOnlyReported
  <1> QED BY <1>1, InvHolds, PTL

\* A ledger that failed the check of addPod (cache.go:60) is not repaired, and
\* stores no new pod, until its node is added, updated or deleted.
THEOREM ClosedLedgerHolds == Spec => ClosedLedgerStaysClosed
  <1>1. IInv /\ [Next]_cacheVars
          => [(\E n \in DOMAIN nodeCache : Reopened(n)) => ~PodNext]_cacheVars
    <2> SUFFICES ASSUME IInv, PodNext
                 PROVE  ~(\E n \in DOMAIN nodeCache : Reopened(n))
      OBVIOUS
    <2> QED BY PodStep DEF PodNext
  <1> QED BY <1>1, InvHolds, PTL DEF Spec, ClosedLedgerStaysClosed
=============================================================================
