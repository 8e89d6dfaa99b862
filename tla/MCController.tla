---------------------------- MODULE MCController ----------------------------
(***************************************************************************)
(* A node with one board of two orins, and two pods: either they need one  *)
(* orin each, or one needs both and they exclude each other.               *)
(***************************************************************************)
EXTENDS Controller, TLC

CONSTANTS b1, o1, o2, p1, p2, n1

MCReq == p1 :> {o1} @@ p2 :> {o2}
MCOverlappingReq == p1 :> {o1} @@ p2 :> {o1, o2}
MCCapacity == b1 :> {o1, o2}
MCTotals == {MCCapacity}

\* The workers are alike; no liveness is checked with them.
Workers == Permutations(Worker)
=============================================================================
