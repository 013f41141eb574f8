\* Two threads, two handle values, a directory that is filtered as a whole.
CONSTANTS
  t1 = t1
  t2 = t2
  h1 = h1
  h2 = h2
  work = work
  temp = temp
  dot = dot
  tmp = tmp
  doc = doc
  bak = bak
  Threads = {t1, t2}
  Handles = {h1, h2}
  Dirs = {work, temp}
  Names = {dot, tmp, doc, bak}
  Listing <- ListingDef
  Dots = {dot}
  Filtered <- FilteredDef
  NoDir = NoDir
  NoPath = NoPath
SPECIFICATION FairSpec
INVARIANTS
  HandleKnowsDirectory
  VisibleGiven
PROPERTIES
  CallsReturn
