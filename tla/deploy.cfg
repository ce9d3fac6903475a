CONSTANTS
  MaxRelease = 2
  MaxEdition = 2
  ClientCount <- Counts
  MaxAttempts = 2
SPECIFICATION Spec
INVARIANTS
  TypeOK
  SchemaCoversCode
  MigratedOnce
  DoneIsCurrent
PROPERTY
  SurvivesReboot
