\* The installer, other programs and Dropbox; every call may fail.
CONSTANTS
  Char <- CharDef
  Ours <- OursDef
  Others <- OthersDef
  Stale <- StaleDef
SPECIFICATION Spec
INVARIANTS
  OthersKept
  OneWay
PROPERTIES
  LaunchedFiltered
VIEW View
