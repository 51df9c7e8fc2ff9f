CONSTANTS
  SourceDriver = {"s1", "s2", "s3"}
  DestDriver = {"d1", "d2"}
  PersistKey <- MCPersistKey
  Config <- MCConfig
  PersistedWriter = {w1, w2}
  NoWriter = NoWriter
  MaxPos = 2
  MaxGenerationsMade = 3
  MaxLoads = 3
SPECIFICATION ReloadSpec
INVARIANT OldConfigurationWorks
CHECK_DEADLOCK FALSE
