\* Columns that the plan leaves alone, when their row is inserted or synced.
CONSTANTS
  Columns = {1, 2, 3}
  KeyColumn = 1
  SourceChoices <- SomeSources
  TargetChoices <- SomeTargets
  MistypedChoices <- OneMistyped
  SettingChoices <- SomeSettings
SPECIFICATION ColumnSpec
PROPERTIES
  UnwrittenColumnsKeepTheirValues
CHECK_DEADLOCK FALSE
