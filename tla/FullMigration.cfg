\* Two source tables and a target-only one, five policies, three commands, one fault.
CONSTANTS
  Source = {1, 2}
  TargetOnly = {3}
  RowCount = 2
  Graphs <- BothGraphs
  Policies <- SomePolicies
  Commands <- SomeCommands
  Scopes <- AllAndOne
  Guards <- ReviewedOnly
  MaxCommands = 3
  MaxFaults = 1
SPECIFICATION Spec
INVARIANTS
  AuditTellsTheTruth
  SuccessLeavesTables
PROPERTIES
  OnlyReloadsUncover
  ProtectedTargetIsKept
CHECK_DEADLOCK FALSE
