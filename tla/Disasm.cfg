\* About 55000 machine codes: every opcode with every prefix, every form of
\* addressing, every row of every group, long runs of prefixes, and sequences
\* of three to five instructions.  What follows the code is a RET.
CONSTANTS
  Texts <- TextsDef
  Filler = 195
  dwMinLen = 5
SPECIFICATION Spec
INVARIANTS
  TypeOK
  WholeInstructions
  StopsAtBranches
  SkipFits
  AssertionsHold
  LockedWritesMemory
PROPERTIES
  SkipAdvances
