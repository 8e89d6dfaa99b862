------------------------------ MODULE Allocator ------------------------------
(***************************************************************************)
(* BinpackAllocator (src/pkg/scheduler/manager/allocator.go), the only     *)
(* policy of AllocatorMap.  The request has to fit one board; among the    *)
(* boards it fits, one with the fewest free orins is chosen.  The loop     *)
(* ranges over a Go map, so among equals the choice is arbitrary: Allocate *)
(* is the set of the boards it may return.                                 *)
(***************************************************************************)
EXTENDS Integers, FiniteSets

CONSTANTS BoardIDNotFount,   \* no board fits, -1 in the code
          EmptyScore         \* the score of a node without a free orin, 100

ASSUME EmptyScoreAssumption == EmptyScore \in Int

Fitting(canAlloc, orinRequest) ==
  {b \in DOMAIN canAlloc : orinRequest \subseteq canAlloc[b]}

\* Mutant: the comparison of the scores is turned round.
AllocateLoosest(canAlloc, orinRequest) ==
  LET fits == Fitting(canAlloc, orinRequest)
      Loosest(b) == \A c \in fits : Cardinality(canAlloc[b]) >= Cardinality(canAlloc[c])
  IN  IF fits = {} THEN {BoardIDNotFount} ELSE {b \in fits : Loosest(b)}

Allocate(canAlloc, orinRequest) ==
  LET fits == Fitting(canAlloc, orinRequest)
      Tightest(b) == \A c \in fits : Cardinality(canAlloc[b]) <= Cardinality(canAlloc[c])
  IN  IF fits = {} THEN {BoardIDNotFount} ELSE {b \in fits : Tightest(b)}

\* The score of the node, once the board is known: negative when the node has
\* more than EmptyScore free orins.
NodeScore(canAlloc, board) ==
  IF board = BoardIDNotFount THEN 0
  ELSE EmptyScore - Cardinality(UNION {{b} \X canAlloc[b] : b \in DOMAIN canAlloc})
=============================================================================
