SPECIFICATION RecordingSpec
CONSTANTS
  NumBuffers = 2
  PoolSize = 2
  MaxEncodes = 5
  MaxRecords = 2
  Configs <- MCConfigs
  Containers <- MCSources
CHECK_DEADLOCK FALSE
INVARIANTS LeaksOnlyOnFailure FilesPlayable
PROPERTIES ImplementsCodec EncodeReturns
