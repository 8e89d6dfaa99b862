SPECIFICATION Spec
CONSTANTS
  b1 = b1  b2 = b2  p1 = p1  p2 = p2  m1 = m1  m2 = m2
  Board = {b1, b2}
  Pod = {p1, p2}
  Node = {n1}
  Req <- MCReq
  NoPlace = NoPlace
  NoBoard = NoBoard
  NoAttr = NoAttr
  NoPod = NoPod
  Torn = Torn
  Name = {m1, m2}
  NameOf <- MCNames
  Config <- MCConfig
  Count = 1
  Call = {t1, t2}
  Prompt = TRUE
  MaxTroubles = 1
  Bits = 16
  Places = 5
  StartBit = 1
  Beyond <- MCBeyond
INVARIANTS AgentTypeOK SeesOwnBoard OrinsNotShared
PROPERTY PodStarts
\* the system rests when every pod has run
CHECK_DEADLOCK FALSE
