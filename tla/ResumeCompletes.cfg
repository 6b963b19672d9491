\* Every kind of fault, tables without a key, an operator who keeps resuming.
CONSTANTS
  TableCount = 2
  RowCount <- Rows21
  Keyed = {}
  Unresolved = {}
  BatchSize <- Batches11
  CommitInterval = 1
  ParallelTableCount = 1
  CheckpointResume = TRUE
  Policy = "skip"
  TargetDbms = "mysql"
  Modes = {"migrate", "resume"}
  Faults <- AllFaults
  MaxFaults = 2
  MaxRestarts = 1
SPECIFICATION ResumingSpec
PROPERTY ResumeCompletes
