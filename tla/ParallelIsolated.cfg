\* Two workers with a connection each; table 1 has several batches per commit.
\* A first resume is the first run: MaxRestarts = 0 leaves migrate-data out.
CONSTANTS
  TableCount = 2
  RowCount <- Rows31
  Keyed = {}
  Unresolved = {}
  BatchSize <- Batches12
  CommitInterval = 2
  ParallelTableCount = 2
  CheckpointResume = TRUE
  Policy = "skip"
  TargetDbms = "mysql"
  Modes = {"resume", "retry"}
  Faults = {"read", "write", "cancel"}
  MaxFaults = 3
  MaxRestarts = 0
SPECIFICATION FairSpec
INVARIANT NoDuplicates
PROPERTY RunEnds
