SPECIFICATION BindSpec
CONSTANTS
  b1 = b1  b2 = b2  o1 = o1
  Board = {b1, b2}
  Orin = {o1}
  Pod = {p1}
  Node = {n1}
  Binder = {t1, t2}
  NoNode = NoNode
  NoBoard = NoBoard
  BoardIDNotFount = NoBoard
  EmptyScore = 100
  BadBoard = BadBoard
  NoPod = NoPod
  Current = Current
  Req <- MCReq
  Totals <- MCTotals
  Attempts = 2
  MaxCalls = 2
  MaxNodeUpdates = 1
  Faults = {"update", "updateReply", "bind", "bindReply"}
  Requests = {"bound", "pod", "node"}
  Leftover = {NoBoard, b1}
  Settled = FALSE
INVARIANTS BindTypeOK  OneWriterPerPod BoundIsKnown
PROPERTIES  BindReturns
CHECK_DEADLOCK FALSE
