----------------------------- MODULE NodeReport -----------------------------
(***************************************************************************)
(* What a node tells the rest of the cluster of its boards, twice: the     *)
(* device plugin patches the node's capacity with one decimal map per      *)
(* board (orin.go:198-219), from which the scheduler makes the ledger's    *)
(* Total (cache.go:334-356), and it offers the kubelet one device per      *)
(* board for each class of orins (orin.go:85-103).                         *)
(***************************************************************************)
EXTENDS Provider, DecimalMap

\* Mutant: only the first entry of a board in the file is reported.
patchFirstEntry(config, beyond) ==
  [b \in GetBoards(config) |->
     LET first == CHOOSE i \in DOMAIN config :
                    config[i].id = b /\ \A k \in DOMAIN config : config[k].id = b => i <= k
     IN  BuildDecimalMap({config[first].socs[j].id : j \in DOMAIN config[first].socs}, beyond)]

\* Mutant: every board is reported with the orins of all of them.
patchAllOrins(config, beyond) ==
  [b \in GetBoards(config) |-> BuildDecimalMap(DOMAIN GetOrinClasses(config), beyond)]

\* The capacity of the node, without superedge.io/device-board, always 1024.
patchNodeExtraResource(config, beyond) ==
  [b \in GetBoards(config) |-> BuildDecimalMap(GetBoardOrins(config, b), beyond)]

\* NewNodeInfo leaves a board out when its number does not parse.
TotalOf(capacity) ==
  [b \in {c \in DOMAIN capacity : Parses(capacity[c])} |-> Parse(capacity[b])]

\* The devices of a class, "<board>-<orin>" in the code.
Devices(config, o) ==
  LET classes == GetOrinClasses(config)
  IN  IF o \in DOMAIN classes THEN classes[o] ELSE {}
=============================================================================
