\* One connection for all tables, every batch committed before the next one.
CONSTANTS
  TableCount = 2
  RowCount <- Rows32
  Keyed = {2}
  Unresolved = {}
  BatchSize <- Batches22
  CommitInterval = 2
  ParallelTableCount = 1
  CheckpointResume = TRUE
  Policy = "skip"
  TargetDbms = "mysql"
  Modes = {"migrate", "resume", "retry"}
  Faults <- Contained
  MaxFaults = 3
  MaxRestarts = 2
SPECIFICATION Spec
INVARIANTS
  TypeOK
  CheckpointNeverAhead
  CompletedMeansCopied
  DuplicatesArePaidFor
  CompletedRerunIsSkipped
PROPERTIES
  ProgressIsKept
  CompletedIsFinal
  KeepsPromise
