CONSTANTS
  Inode = {i1, i2}
  MaxSize = 3
  LineLength = 2
  Missing = Missing
  NoReader = NoReader
  NoValue = NoValue
  File = {f1, f2}
  NoFile = NoFile
  NoPartial = NoPartial
  FileFifo = 1
  TimeReap = 2
  TimeReopen = 1
  MaxMessages = 2
  MaxReloads = 1
  MaxConnections = 2
  MaxFd = 5
  NoFd = NoFd
  NoDriver = NoDriver
  MaxSdReloads = 3
  Pid = {p1, p2, p3}
  NoPid = NoPid
  MaxHups = 2
  MaxExits = 3
  MarkFreq = {0, 2}
  MaxSeconds = 5
  MaxInternal = 2
  MaxMarkReloads = 2
  Addr = {a1, a2}
  HostName = {n1}
  Failed = Failed
  CacheSize = {1, 2}
  dns_cache_expire = 1
  dns_cache_expire_failed = 0
  MaxNow = 2
  MaxHostsChanges = 2
  MaxParams = 1
  Group = {"g1"}
  Writer = {"w1", "w2"}
  SharingWriter = {"w1", "w2"}
  CounterOf <- Count
  NoCounter = NoCounter
  MaxGenerations = 3
  TicksPerSecond = 2
  flush_timeout = 3
  FlushLines = {0, 1, 3}
  LwFifo = 3
SPECIFICATION Spec
INVARIANTS ReadOnce FileInOrder SourceSocketsOwned ConnectionsLimited OneProgram CacheConsistent CountersReferenced
PROPERTIES Followed IdleClosed WrittenToProgram InternalLeaves HeldBackFlushed
CHECK_DEADLOCK FALSE
