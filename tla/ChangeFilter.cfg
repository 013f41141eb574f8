\* One watch by the emulation thread and one by a caller, over a directory of
\* the Dropbox drive and one without a drive.
CONSTANTS
  reader = reader
  emulator = emulator
  Callers = {reader}
  Upper <- UpperDef
  DropboxPath <- DropboxPathDef
  LogicalDrives <- LogicalDrivesDef
  Directories <- BothDirectories
  Files <- FilesDef
  Flags = {"hidden"}
  filterExpr <- FilterExprDef
  filterExcpExpr <- NoRules
  EarlierAnswer <- EarlierDef
  BufferLength = 2
  MaxChanges = 2
SPECIFICATION FairSpec
CHECK_DEADLOCK FALSE
INVARIANTS
  TypeOK
  HiddenNotTold
  VisibleTold
  MapUnharmed
PROPERTIES
  WalksEnd
