\* What is left when "UnInstall done." is shown.
CONSTANTS
  Char <- CharDef
  Ours <- OursDef
  Others <- OthersDef
  Stale <- StaleDef
SPECIFICATION Spec
INVARIANTS
  UninstalledWhenSaid
