SPECIFICATION Spec
CONSTANTS
  b1 = b1  b2 = b2  o1 = o1  o2 = o2  p1 = p1  p2 = p2  n1 = n1
  Board = {b1, b2}
  Orin = {o1, o2}
  Pod = {p1, p2}
  Node = {n1}
  NoNode = NoNode
  NoBoard = NoBoard
  BadBoard = BadBoard
  Req <- MCReq
  Totals <- MCTotals
INVARIANTS TypeOK Accounting OffersOnlyReported
PROPERTY ClosedLedgerStaysClosed
