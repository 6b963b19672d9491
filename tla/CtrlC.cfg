\* One Ctrl+C.
CONSTANTS
  TableCount = 2
  RowCount <- Rows32
  Keyed = {}
  Unresolved = {}
  BatchSize <- Batches22
  CommitInterval = 2
  ParallelTableCount = 1
  CheckpointResume = TRUE
  Policy = "skip"
  TargetDbms = "mysql"
  Modes = {"migrate", "resume"}
  Faults = {"interrupt"}
  MaxFaults = 1
  MaxRestarts = 1
SPECIFICATION Spec
INVARIANT CheckpointNeverAhead
