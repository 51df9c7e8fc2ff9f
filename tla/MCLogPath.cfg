CONSTANTS
  m1 = m1
  m2 = m2
  m3 = m3
  r1 = r1
  r2 = r2
  d1 = d1
  d2 = d2
  w1 = w1
  w2 = w2
  tty = tty
  Msg = {m1, m2, m3}
  Reader = {r1, r2}
  Driver = {d1, d2}
  Dest = {w1, w2, tty}
  Terminal = {tty}
  Group = {"g1", "g2", "g3"}
  DriverOf <- MCDriverOf
  InitWindow <- MCInitWindow
  Fifo <- MCFifo
  Members <- MCMembers
  Route <- MCRoute
SPECIFICATION FairSpec
INVARIANTS
  TypeOK
  WindowConserved
  RefsCounted
  AwaitedIffHeld
  BlocksNested
PROPERTIES
  LedgerSpec
  EventuallySettled
