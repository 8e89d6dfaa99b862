SPECIFICATION Spec
CONSTANTS
  b1 = b1  b2 = b2  p1 = p1  p2 = p2  p3 = p3
  Board = {b1, b2}
  Orin = {0, 1, 2, 5, 6, 7}
  Pod = {p1, p2, p3}
  NoBoard = NoBoard
  NoAttr = NoAttr
  BoardIDNotFount = NoBoard
  EmptyScore = 100
  BadBoard = BadBoard
  Req <- MCReq
  Bits = 16
  Places = 5
  StartBit = 1
  Beyond <- MCBeyond
  PodOrins = {1, 2}
  MaxBoards = 2
  MaxSocs = 2
INVARIANTS LoopBuildsClosedForm ScanChoosesAllocate ReportMatchesClasses ReportNeverInvents
\* every pod is listed in the last states
CHECK_DEADLOCK FALSE
