\* Two threads meet the configuration file, which is edited twice, and race
\* through ReadSettings.
CONSTANTS
  t1 = t1
  t2 = t2
  draft = draft
  backup = backup
  note = note
  Readers = {t1, t2}
  Loader = t1
  Files = {draft, note}
  Versions <- RaceVersions
  MaxClock = 2
  MaxDepth = 2
SPECIFICATION FairSpec
CHECK_DEADLOCK FALSE
INVARIANTS
  ReentryStopped
  WholeVersion
  UpToDate
  FilteredByRule
PROPERTIES
  ReloadEnds
