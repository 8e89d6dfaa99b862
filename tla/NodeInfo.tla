------------------------------ MODULE NodeInfo ------------------------------
(***************************************************************************)
(* NodeInfo (src/pkg/scheduler/manager/cache.go): the ledger of one node.  *)
(* Total is what the node's capacity reports, Requested what the pods have *)
(* been charged, Allocatable what the allocator may hand out, and Pods the *)
(* pods of the node.  A pod object matters only through its UID and its    *)
(* bind annotation, so Pods maps a pod to the board it was stored with.    *)
(*                                                                         *)
(* addPod and deletePod change the ledger in place and may fail half way:  *)
(* each is two operators, the ledger it leaves behind and whether it       *)
(* returned an error.                                                      *)
(***************************************************************************)
EXTENDS Topo

CONSTANTS Pod,       \* pod UIDs
          Req,       \* Req[p]: the orins pod p asks for (BuildRequestOrinSet)
          NoBoard,   \* a pod without the bind annotation
          BadBoard   \* a bind annotation that does not parse as a number

ASSUME ReqAssumption == Req \in [Pod -> SUBSET Orin]
ASSUME AnnotationAssumption == NoBoard \notin Board /\ BadBoard \notin Board

Annotation == Board \cup {NoBoard, BadBoard}

\* Sets of pods with the annotation each of them carries.
PodsWith(A) == UNION {[S -> A] : S \in SUBSET Pod}

NodeInfos == [Pods : PodsWith(Board), Allocatable : BoardDetails,
              Requested : BoardDetails, Total : BoardDetails]

-----------------------------------------------------------------------------
Claim(b, p) == [c \in {b} |-> Req[p]]

\* A pod without an annotation is no error, and neither is a bad annotation.
deletePodErr(ni, p, a) ==
  /\ a # NoBoard
  /\ \/ p \notin DOMAIN ni.Pods
     \/ a \in Board /\ ~Covers(ni.Requested, Claim(a, p))

Restricted(pods, S) == [p \in S |-> pods[p]]

\* Mutant: deletePod without its third part.
ReleasedWithoutAllocatable(ni, p, b) ==
  [Pods |-> Restricted(ni.Pods, DOMAIN ni.Pods \ {p}),
   Allocatable |-> ni.Allocatable,
   Requested |-> DifferenceFromSuperset(ni.Requested, Claim(b, p)),
   Total |-> ni.Total]

Released(ni, p, b) ==
  [Pods |-> Restricted(ni.Pods, DOMAIN ni.Pods \ {p}),
   Allocatable |-> Add(ni.Allocatable, b, Req[p]),
   Requested |-> DifferenceFromSuperset(ni.Requested, Claim(b, p)),
   Total |-> ni.Total]

deletePod(ni, p, a) ==
  IF a \in Board /\ ~deletePodErr(ni, p, a) THEN Released(ni, p, a) ELSE ni

\* A pod that is already stored is deleted and added again.
EvictErr(ni, p, a) == p \in DOMAIN ni.Pods /\ deletePodErr(ni, p, a)
Evicted(ni, p, a) == IF p \in DOMAIN ni.Pods THEN deletePod(ni, p, a) ELSE ni

\* The charge is made before it is checked, and stays when the check fails.
Charged(ni, p, b) ==
  [Pods |-> ni.Pods, Allocatable |-> ni.Allocatable,
   Requested |-> Add(ni.Requested, b, Req[p]), Total |-> ni.Total]

\* Mutant: addPod without its third part.
StoredWithoutAllocatable(ni, p, b) ==
  [Pods |-> [q \in DOMAIN ni.Pods \cup {p} |-> IF q = p THEN b ELSE ni.Pods[q]],
   Allocatable |-> ni.Allocatable, Requested |-> ni.Requested, Total |-> ni.Total]

Stored(ni, p, b) ==
  [Pods |-> [q \in DOMAIN ni.Pods \cup {p} |-> IF q = p THEN b ELSE ni.Pods[q]],
   Allocatable |-> DifferenceFromSuperset(ni.Total, ni.Requested),
   Requested |-> ni.Requested, Total |-> ni.Total]

Healthy(ni) == Covers(ni.Total, ni.Requested)

Charge(ni, p, b) == Charged(Evicted(ni, p, b), p, b)

addPodErr(ni, p, a) ==
  a \in Board /\ (EvictErr(ni, p, a) \/ ~Healthy(Charge(ni, p, a)))

\* Mutant: the error of ParseInt is dropped.
addPodUnparsed(ni, p, a) ==
  CASE a = NoBoard \/ EvictErr(ni, p, a) -> ni
    [] a # NoBoard /\ ~EvictErr(ni, p, a) -> Charge(ni, p, a)

\* Mutant: only the claim of the pod is checked against the total.
addPodChecksClaim(ni, p, a) ==
  CASE a \notin Board \/ EvictErr(ni, p, a) -> ni
    [] a \in Board /\ ~EvictErr(ni, p, a) /\ ~Covers(ni.Total, Claim(a, p)) -> Charge(ni, p, a)
    [] a \in Board /\ ~EvictErr(ni, p, a) /\ Covers(ni.Total, Claim(a, p)) ->
         Stored(Charge(ni, p, a), p, a)

\* Mutant: a charge that fails the check is undone.
addPodUndone(ni, p, a) ==
  IF a \notin Board \/ addPodErr(ni, p, a) THEN ni ELSE Stored(Charge(ni, p, a), p, a)

addPod(ni, p, a) ==
  CASE a \notin Board \/ EvictErr(ni, p, a) -> ni
    [] a \in Board /\ ~EvictErr(ni, p, a) /\ addPodErr(ni, p, a) -> Charge(ni, p, a)
    [] a \in Board /\ ~addPodErr(ni, p, a) -> Stored(Charge(ni, p, a), p, a)

-----------------------------------------------------------------------------
\* The sum of the requests of a set of pods on boards.
RequestOf(pods) ==
  [b \in {pods[p] : p \in DOMAIN pods} |->
     UNION {Req[p] : p \in {q \in DOMAIN pods : pods[q] = b}}]

(***************************************************************************)
(* NewNodeInfo adds the pods in the order of the lister, a Go map's.  One  *)
(* pod that does not fit fails every pod after it: either all the pods are *)
(* stored, or any part of those that fit the node on their own, the pods   *)
(* that happened to come before the first failure.  MCAlgorithms checks    *)
(* this closed form against the loop.                                      *)
(***************************************************************************)
NewNodeInfo(total, pods) ==
  LET placed == {p \in DOMAIN pods : pods[p] \in Board}
      fits == {p \in placed : Covers(total, Claim(pods[p], p))}
      kept == IF fits = placed THEN {placed} ELSE SUBSET fits
  IN  {[Pods |-> Restricted(pods, S),
        Allocatable |-> DifferenceFromSuperset(total, RequestOf(Restricted(pods, S))),
        Requested |-> RequestOf(Restricted(pods, placed)),
        Total |-> total] : S \in kept}
=============================================================================
