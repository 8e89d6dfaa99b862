----------------------------- MODULE MCNodeAgent -----------------------------
(***************************************************************************)
(* A node with a board of two orins and a board of one.  p1 asks for two   *)
(* orins, p2 for one of them.                                              *)
(***************************************************************************)
EXTENDS NodeAgent, TLC

CONSTANTS b1, b2, p1, p2, m1, m2

MCReq == p1 :> {1, 2} @@ p2 :> {1}

MCNames == p1 :> m1 @@ p2 :> m2
MCSharedName == p1 :> m1 @@ p2 :> m1

Board1 == [id |-> b1, socs |-> <<[id |-> 1, attr |-> <<b1, 1>>], [id |-> 2, attr |-> <<b1, 2>>]>>]
Board2 == [id |-> b2, socs |-> <<[id |-> 1, attr |-> <<b2, 1>>]>>]

MCConfig == <<Board1, Board2>>
MCBeyond == {-(2^(Bits - 1)), 2^(Bits - 1) - 1}
=============================================================================
