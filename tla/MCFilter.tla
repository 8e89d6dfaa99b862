------------------------------ MODULE MCFilter ------------------------------
(***************************************************************************)
(* Three candidates and two workers, so that a worker serves two of them;  *)
(* a node is full, has one fitting board or two boards of different fill,  *)
(* or is not in the cache.  The scores are 0, 3, 2, -1, -2 and 0.          *)
(***************************************************************************)
EXTENDS Filter, TLC

CONSTANTS b1, b2, o1, o2, o3, n1, n2, n3

MCCandidates == <<n1, n2, n3>>
MCLedgers == {b1 :> {}, b1 :> {o1}, b1 :> {o1} @@ b2 :> {o1},
              b1 :> {o1, o2} @@ b2 :> Orin, b1 :> Orin @@ b2 :> Orin}
=============================================================================
