------------------------------ MODULE Placement ------------------------------
(***************************************************************************)
(* What the scheduler extender promises its users (README.md of the        *)
(* repository): a pod is placed at most once, on a node and on one board   *)
(* of it, for good, and while it lives it has the orins of its request on  *)
(* that board to itself.  BindProtocol implements it where the requests    *)
(* for a node come one at a time (BindPlacementProofs names all the        *)
(* hypotheses), and NodeAgent builds on it: there the pods of a node are   *)
(* placed like this.                                                       *)
(***************************************************************************)
EXTENDS Naturals

CONSTANTS Pod, Node, Board,
          Req,       \* Req[p]: the orins pod p asks for
          NoPlace    \* a pod that is not placed

ASSUME NoPlaceAssumption == NoPlace \notin Node \X Board

VARIABLES placed,   \* the node and the board of each pod
          ended     \* the pods that have completed, or were deleted

placementVars == <<placed, ended>>

PlacementInit == placed = [p \in Pod |-> NoPlace] /\ ended = {}

Holders(n, b) == {p \in Pod \ ended : placed[p] = <<n, b>>}

Place(p, n, b) ==
  /\ p \notin ended /\ placed[p] = NoPlace
  /\ \A q \in Holders(n, b) : Req[p] \cap Req[q] = {}
  /\ placed' = [placed EXCEPT ![p] = <<n, b>>]
  /\ UNCHANGED ended

End(p) ==
  /\ p \notin ended
  /\ ended' = ended \cup {p}
  /\ UNCHANGED placed

PlacementNext ==
  \E p \in Pod : End(p) \/ \E n \in Node, b \in Board : Place(p, n, b)

PlacementSpec == PlacementInit /\ [][PlacementNext]_placementVars
=============================================================================
