\* A table with a primary key, and one checkpoint that cannot be saved after its commit.
CONSTANTS
  TableCount = 2
  RowCount <- Rows21
  Keyed = {1}
  Unresolved = {}
  BatchSize <- Batches11
  CommitInterval = 1
  ParallelTableCount = 1
  CheckpointResume = TRUE
  Policy = "skip"
  TargetDbms = "mysql"
  Modes = {"migrate", "resume"}
  Faults = {"checkpoint"}
  MaxFaults = 1
  MaxRestarts = 1
SPECIFICATION ResumingSpec
PROPERTY ResumeCompletes
