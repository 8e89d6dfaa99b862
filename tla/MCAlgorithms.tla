---------------------------- MODULE MCAlgorithms ----------------------------
(***************************************************************************)
(* The algorithms of the project on one path through the system: from the  *)
(* configuration file of a node over the capacity the node reports to the  *)
(* ledger the scheduler builds for it, and to the board its allocator      *)
(* chooses.  A step writes one more entry into the file or lists one more  *)
(* pod.  The closed forms of NodeInfo and Allocator are compared with the  *)
(* loops of the code; a Go map is ranged over in any order, so each loop   *)
(* is a fold over some order of the keys.                                  *)
(*                                                                         *)
(* Integers are small (16 bits, 5 places), so orins 6 and 7 are beyond     *)
(* what a decimal map can hold, as 20 and 21 are in the code; 0 is below.  *)
(***************************************************************************)
EXTENDS NodeInfo, Allocator, NodeReport, SequencesExt

CONSTANTS b1, b2, p1, p2, p3,
          PodOrins,     \* the orins of a file for which pods are listed
          MaxBoards,    \* bound: entries of the file
          MaxSocs       \* bound: orins of an entry

MCReq == p1 :> {1} @@ p2 :> {1, 2} @@ p3 :> {}

MCBeyond == {-(2^(Bits - 1)), 2^(Bits - 1) - 1}

VARIABLES config,   \* the file
          pods      \* the pods the lister shows, with their annotations

total == TotalOf(patchNodeExtraResource(config, CHOOSE x \in Beyond : TRUE))

Init == config = <<>> /\ pods = [p \in {} |-> NoBoard]

Configured == UNION {GetBoardOrins(config, b) : b \in GetBoards(config)}

Configure ==
  /\ DOMAIN pods = {}
  /\ \/ \E b \in Board : /\ Len(config) < MaxBoards
                         /\ config' = Append(config, [id |-> b, socs |-> <<>>])
     \/ \E o \in Orin :
          LET i == Len(config) IN
          /\ i > 0 /\ Len(config[i].socs) < MaxSocs
          /\ config' = [config EXCEPT ![i].socs = Append(@, [id |-> o, attr |-> <<i, o>>])]
  /\ UNCHANGED pods

ListPod ==
  /\ Configured \subseteq PodOrins
  /\ \E p \in Pod \ DOMAIN pods, a \in Board \cup {BadBoard} : pods' = pods @@ (p :> a)
  /\ UNCHANGED config

Next == Configure \/ ListPod

Spec == Init /\ [][Next]_<<config, pods>>

-----------------------------------------------------------------------------
EmptyNodeInfo == [Pods |-> [p \in {} |-> NoBoard], Allocatable |-> total,
                  Requested |-> NewBoardDetails, Total |-> total]

\* cache.go:361-365: addPod on one pod after the other, errors are only logged.
AddedInOrder(s) == FoldLeft(LAMBDA ni, p : addPod(ni, p, pods[p]), EmptyNodeInfo, s)

(***************************************************************************)
(* The operator NewNodeInfo gives exactly the node infos the loop of       *)
(* NewNodeInfo (cache.go:326-370) can build from some order of the pods,   *)
(* those in which one pod that does not fit shuts out the pods after it    *)
(* included.                                                               *)
(***************************************************************************)
LoopBuildsClosedForm ==
  NewNodeInfo(total, pods) = {AddedInOrder(s) : s \in SetToSeqs(DOMAIN pods)}

\* allocator.go:38-48; no score is as high as the first one, math.MaxInt.
Scan(orinRequest, s) ==
  LET Better(best, b) ==
        IF /\ orinRequest \subseteq total[b]
           /\ best = BoardIDNotFount \/ Cardinality(total[b]) < Cardinality(total[best])
        THEN b ELSE best
  IN  FoldLeft(Better, BoardIDNotFount, s)

(***************************************************************************)
(* Allocate returns exactly the boards that the loop of BinpackAllocator   *)
(* (allocator.go:33-60) can choose: of the boards the whole request fits,  *)
(* none that leaves more orins unused than another.                        *)
(***************************************************************************)
ScanChoosesAllocate ==
  \A orinRequest \in SUBSET PodOrins :
    Allocate(total, orinRequest) = {Scan(orinRequest, s) : s \in SetToSeqs(DOMAIN total)}

(***************************************************************************)
(* The two reports of a node agree: when its orins are those a decimal map *)
(* can hold, the scheduler's Total says of every board what the device     *)
(* classes offered to the kubelet say (orin.go:50-61, 205-210), also when  *)
(* a board or an orin is repeated in the file.                             *)
(***************************************************************************)
ReportMatchesClasses ==
  Configured \subseteq StartBit..(StartBit + Places - 1) =>
    \A beyond \in Beyond :
      TotalOf(patchNodeExtraResource(config, beyond))
        = [b \in GetBoards(config) |-> {o \in Orin : b \in Devices(config, o)}]

(***************************************************************************)
(* Whatever the file says, and whatever a float that does not fit becomes  *)
(* (decimalmap.go:46), the scheduler never believes in an orin the board   *)
(* does not have: sums that wrap round either do not parse, which drops    *)
(* the board, or lack the orins that did not fit.                          *)
(***************************************************************************)
ReportNeverInvents ==
  \A beyond \in Beyond :
    LET reported == TotalOf(patchNodeExtraResource(config, beyond))
    IN  \A b \in DOMAIN reported : reported[b] \subseteq GetBoardOrins(config, b)
=============================================================================
