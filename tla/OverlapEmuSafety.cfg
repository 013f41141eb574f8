\* Three requests compete for two slots: the pool runs dry, a caller sleeps.
CONSTANTS
  r1 = r1
  r2 = r2
  r3 = r3
  Requests = {r1, r2, r3}
  Count = 2
  NoRequest = NoRequest
SPECIFICATION Spec
SYMMETRY RequestSymmetry
INVARIANTS
  TypeOK
  SlotOwnership
  OneAnswer
  AnswerIntact
PROPERTIES
  WorkedSlotStable
  DeliveredStable
  ImplementsWatchService
