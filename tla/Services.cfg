\* One machine per behaviour; see MCServices for the definitions.
CONSTANTS
  Operations = {"test-source", "test-target", "scan-tables", "full", "incremental"}
  Tunnelled = {"source", "target"}
  FixedPort = {"source"}
  MaxOperations = 3
  MaxTroubles = 2
  IncTables = {1, 2}
  TableName <- Names
  Keyless = {}
  IncRows = {1, 2}
  WindowChoices <- SomeWindows
  IncBatchSize = 1
  IncCommitInterval = 2
  MaxStamp = 2
  MaxRuns = 2
  MaxIncFaults = 1
  GateTables = {1, 2}
  MaxGateSteps = 3
  Columns = {1, 2, 3}
  KeyColumn = 1
  SourceChoices <- SomeSources
  TargetChoices <- FewTargets
  MistypedChoices <- FewMistyped
  SettingChoices <- FewSettings
  Lengths = {20, 36}
  Precisions = {0, 3}
  MaxHops = 2
  Contents <- SomeContents
  Requests <- SomeChoices
  SampleSize = 1
  MaxLosses = 2
  MaxWrites = 1
  Catalogs <- SomeCatalogs
  MaxDdl = 1
  TestTables = {1, 2}
  Unkeyed = {2}
  Growing = {1}
  FixedRows = 1
  Sizes = {0, 2}
  MaxSelfTests = 3
  MaxTestFaults = 2
  SourceTables = {"t"}
  SourceColumns = {1, 2}
  TargetColumns = {1, 2}
  Schemas = {"a", "b"}
  MaxSettingSteps = 4
  ReadTables <- SomeReadTables
  FetchSize = 1
  MaxStops = 2
SPECIFICATION Spec
INVARIANTS
  ResourcesAreReleased
  TunnelsAreUsed
  OneWorker
  CompletedWindowsAreCopied
  OnlyFailedTablesLoseRows
  OverwritesAreListed
  DestructionIsReviewed
  CleanPlansCopy
  LossIsAnnounced
  CreatedTypesSettle
  SmallTablesAreCompared
  FaithfulCopyMatches
  LostConnectionsAreRetried
  QuietScansAreFaithful
  SelfTestKeepsItsWord
  GridIsUsed
  ResumedReadIsWhole
PROPERTIES
  OperationsEnd
CHECK_DEADLOCK FALSE
