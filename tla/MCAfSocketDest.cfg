CONSTANTS
  short = short
  m1 = m1
  m2 = m2
  Message = {short, m1, m2}
  Size <- MCSize
  Fifo = 2
  Id = {g1, g2, g3}
  Socket = {s1, s2}
  None = None
SPECIFICATION FairSpec
INVARIANTS
  OneActivity
  SocketsOwned
  InOrder
PROPERTY Delivered
