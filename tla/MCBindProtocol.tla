--------------------------- MODULE MCBindProtocol ---------------------------
(***************************************************************************)
(* One node of up to two boards of one orin, and two pods that both need   *)
(* that orin: they fit the node only on different boards.                  *)
(***************************************************************************)
EXTENDS BindProtocol, TLC

CONSTANTS b1, b2, o1

MCReq == [p \in Pod |-> {o1}]

MCTotals == {b1 :> {o1} @@ b2 :> {o1}, b1 :> {o1}}
=============================================================================
