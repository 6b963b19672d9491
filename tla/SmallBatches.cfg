\* large_row_batch_size below commit_interval, and one failing write.
CONSTANTS
  TableCount = 2
  RowCount <- Rows32
  Keyed = {}
  Unresolved = {}
  BatchSize <- Batches11
  CommitInterval = 2
  ParallelTableCount = 1
  CheckpointResume = TRUE
  Policy = "skip"
  TargetDbms = "mysql"
  Modes = {"migrate", "resume"}
  Faults = {"write"}
  MaxFaults = 1
  MaxRestarts = 1
SPECIFICATION Spec
INVARIANT CompletedMeansCopied
