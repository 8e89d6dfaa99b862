--------------------------- MODULE MCScheduleCache ---------------------------
(***************************************************************************)
(* A node with two boards.  p1 and p2 overlap in one orin, so that ledgers *)
(* with overlapping charges occur; the capacities grow, shrink and lose a  *)
(* board.                                                                  *)
(***************************************************************************)
EXTENDS ScheduleCache, TLC

CONSTANTS b1, b2, o1, o2, p1, p2, n1

MCReq == p1 :> {o1} @@ p2 :> {o1, o2}

MCTotals == {b1 :> {o1, o2} @@ b2 :> {o1, o2}, b1 :> {o1, o2}, b1 :> {o1} @@ b2 :> {o2}}
=============================================================================
