\* Two requests; no symmetry, the properties are temporal.
CONSTANTS
  r1 = r1
  r2 = r2
  r3 = r3
  Requests = {r1, r2}
  Count = 2
  NoRequest = NoRequest
SPECIFICATION FairSpec
PROPERTIES
  ServedUnlessStarved
  FreeSlotFound
