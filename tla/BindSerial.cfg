SPECIFICATION BindSpec
CONSTANTS
  b1 = b1  b2 = b2  o1 = o1
  Board = {b1, b2}
  Orin = {o1}
  Pod = {p1, p2}
  Node = {n1}
  Binder = {t1}
  NoNode = NoNode
  NoBoard = NoBoard
  BoardIDNotFount = NoBoard
  EmptyScore = 100
  BadBoard = BadBoard
  NoPod = NoPod
  Current = Current
  Req <- MCReq
  Totals <- MCTotals
  Attempts = 2
  MaxCalls = 2
  MaxNodeUpdates = 2
  Faults = {"get", "update", "updateReply", "bind"}
  Requests = {}
  Leftover = {NoBoard}
  Settled = TRUE
PROPERTIES ImplementsPlacement KeepsCacheContract
CHECK_DEADLOCK FALSE
