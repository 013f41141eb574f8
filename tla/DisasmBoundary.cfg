\* Sequences of instructions, a fence among them.
CONSTANTS
  Texts <- SeveralTexts
  Filler = 195
  dwMinLen = 5
SPECIFICATION Spec
INVARIANTS
  EndsOnBoundary
