------------------------------ MODULE Provider ------------------------------
(***************************************************************************)
(* FileDeviceProvider (src/pkg/device/provider/file.go): look-ups in the   *)
(* configuration of a node's boards, a file that is read once.  It is a    *)
(* sequence of boards [id, socs], the socs of a board a sequence of        *)
(* [id, attr]; neither IDs nor the orins of a board need be unique.  attr  *)
(* stands for the IP and the name of an orin.                              *)
(***************************************************************************)
EXTENDS Naturals, Sequences, FiniteSets

CONSTANT NoAttr   \* the empty map: an orin that is not configured

GetBoards(config) == {config[i].id : i \in DOMAIN config}

\* The entries of one board, in every part of the file that has its ID.
SocsOf(config, b) ==
  UNION {{i} \X DOMAIN config[i].socs : i \in {k \in DOMAIN config : config[k].id = b}}

Soc(config, at) == config[at[1]].socs[at[2]]

GetBoardOrins(config, b) == {Soc(config, at).id : at \in SocsOf(config, b)}

GetOrinClasses(config) ==
  LET ids == UNION {GetBoardOrins(config, b) : b \in GetBoards(config)}
  IN  [o \in ids |-> {b \in GetBoards(config) : o \in GetBoardOrins(config, b)}]

\* Of several entries the last one stays in the map.
GetOrinAttrs(config, b, o) ==
  LET entries == {at \in SocsOf(config, b) : Soc(config, at).id = o}
      Later(x, y) == x[1] > y[1] \/ (x[1] = y[1] /\ x[2] >= y[2])
  IN  IF entries = {} THEN NoAttr
      ELSE Soc(config, CHOOSE x \in entries : \A y \in entries : Later(x, y)).attr
=============================================================================
