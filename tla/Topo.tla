-------------------------------- MODULE Topo --------------------------------
(***************************************************************************)
(* Package topo (src/pkg/scheduler/manager/topo/mazuinfo.go): the maps     *)
(* from board to orins that every ledger of the scheduler is made of.      *)
(* A BoardDetails is a partial function from boards to sets of orins; the  *)
(* OrinInfo stored under an orin only repeats the board it is stored under *)
(* and is left out.  The Go maps are shared and changed in place; no two   *)
(* ledgers that are changed later share a map (Requested is dropped with   *)
(* its node info, Allocatable is fresh at every board that can be          *)
(* released), so values stand for them.                                    *)
(***************************************************************************)
EXTENDS FiniteSets

CONSTANTS Board,    \* the boards of a node
          Orin      \* the orins of a board

BoardDetails == UNION {[D -> SUBSET Orin] : D \in SUBSET Board}

NewBoardDetails == [b \in {} |-> {}]

\* What a read of a missing key of a Go map gives.
OrinsOf(d, b) == IF b \in DOMAIN d THEN d[b] ELSE {}

Equal(src, dst) ==
  /\ DOMAIN src = DOMAIN dst
  /\ \A b \in DOMAIN src : src[b] = dst[b]

\* DifferenceFromSuperset returns an error exactly when Covers is false.
Covers(src, sub) ==
  /\ DOMAIN sub \subseteq DOMAIN src
  /\ \A b \in DOMAIN sub : sub[b] \subseteq src[b]

DifferenceFromSuperset(src, sub) ==
  [b \in DOMAIN src |-> src[b] \ OrinsOf(sub, b)]

\* BoardDetails.Add, with an OrinDetails built by OrinDetails.Add.
Add(d, b, os) ==
  [c \in DOMAIN d \cup {b} |-> IF c = b THEN OrinsOf(d, b) \cup os ELSE d[c]]
=============================================================================
