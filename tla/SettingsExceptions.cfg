\* A file is asked about while the rules are being read.
CONSTANTS
  t1 = t1
  t2 = t2
  draft = draft
  backup = backup
  note = note
  Readers = {t1}
  Loader = t1
  Files = {draft, backup, note}
  Versions <- TwoVersions
  MaxClock = 2
  MaxDepth = 3
SPECIFICATION Spec
CHECK_DEADLOCK FALSE
INVARIANTS
  ExceptionsHonoured
