SPECIFICATION ControllerSpec
CONSTANTS
  b1 = b1  o1 = o1  o2 = o2  p1 = p1  p2 = p2  n1 = n1
  Board = {b1}
  Orin = {o1, o2}
  Pod = {p1, p2}
  Node = {n1}
  Home = n1
  NoNode = NoNode
  NoBoard = NoBoard
  BadBoard = BadBoard
  Req <- MCReq
  Totals <- MCTotals
  Capacity <- MCCapacity
  Worker = {w1}
  Overlaps = {}
  Relists = FALSE
PROPERTIES BoundBecomesKnown CompletedIsReleased
\* in the end every pod is gone and everything is handled
CHECK_DEADLOCK FALSE
