SPECIFICATION Spec
CONSTANTS
  Months = 2
  MaxRecords = 2
  MaxStarts = 3
INVARIANTS
  SettingsKept
  TitleFirst
  TotalCoversRows
PROPERTIES
  LinesKept
CHECK_DEADLOCK FALSE
