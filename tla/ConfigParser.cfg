\* Configurations of two lines, read into a buffer of old statements.
CONSTANTS
  Upper <- UpperDef
  DropboxPath <- RootDef
  Configurations <- ConfigurationsDef
  BufferSize = 6
  Garbage <- GarbageDef
  Probes <- ProbesDef
SPECIFICATION Spec
CHECK_DEADLOCK FALSE
INVARIANTS
  FilteredAsMeant
  DamageContained
PROPERTIES
  Finishes
