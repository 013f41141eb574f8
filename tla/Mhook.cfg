\* Two functions are hooked and unhooked while two threads call them.
CONSTANTS
  t1 = t1
  t2 = t2
  findFirst = findFirst
  findNext = findNext
  Functions <- FunctionsDef
  Threads = {t1, t2}
  Hookable = {findFirst, findNext}
  MaxHooks = 2
  MaxTries = 1
  NoThread = NoThread
SPECIFICATION FairSpec
CHECK_DEADLOCK FALSE
INVARIANTS
  CheckedNeverLost
  CheckedNeverRecurses
  NoneForgotten
  TableCounted
PROPERTIES
  ThreadsGoOn
