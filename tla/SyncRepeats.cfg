\* Any source and target of three keys, repeated migrate-data, every kind of fault.
CONSTANTS
  KeyCount = 3
  Versions = {1, 2}
  Absent = 0
  BatchSize = 2
  CommitInterval = 2
  Modes = {"migrate"}
  Faults <- AllFaults
  MaxFaults = 1
  MaxChanges = 1
SPECIFICATION RepeatingSpec
INVARIANTS
  TypeOK
  CompletedSyncMirrors
PROPERTIES
  SavedBatchesAreMirrored
  EveryRowIsOldOrNew
  RepeatedSyncMirrors
