SPECIFICATION Spec
CONSTANTS
  b1 = b1  b2 = b2  o1 = o1  o2 = o2  o3 = o3  n1 = n1  n2 = n2  n3 = n3
  Board = {b1, b2}
  Orin = {o1, o2, o3}
  BoardIDNotFount = BoardIDNotFount
  EmptyScore = 4
  Candidates <- MCCandidates
  Worker = {w1, w2}
  NoName = NoName
  NotCached = NotCached
  Ledgers <- MCLedgers
  OrinRequest = {o1}
  MaxChanges = 1
INVARIANT EveryCandidateAnswered
PROPERTIES NormalizeKeepsOrder RequestAnswered
\* the request is answered once
CHECK_DEADLOCK FALSE
