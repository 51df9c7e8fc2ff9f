CONSTANTS
  m1 = m1
  m2 = m2
  m3 = m3
  m4 = m4
  m5 = m5
  tcp1 = tcp1
  tcp2 = tcp2
  file = file
  tcp = tcp
  kmsg = kmsg
  net = net
  disk = disk
  Msg = {m1, m2, m3, m4, m5}
  Reader = {tcp1, tcp2, file}
  Driver = {tcp, kmsg}
  Dest = {net, disk}
  Terminal = {}
  Group = {"central", "local"}
  SingleRead = {file}
  RoomFor = 4
  DriverOf <- MCDriverOf
  InitWindow <- MCInitWindow
  FetchLimit <- MCFetchLimit
  Fifo <- MCFifo
  Members <- MCMembers
  Route <- MCRoute
SPECIFICATION FCFairSpec
INVARIANTS
  WindowFloor
  NoDropWhenRoomForOvershoot
PROPERTY SourcesResume
