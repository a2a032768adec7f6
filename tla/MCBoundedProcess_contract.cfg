SPECIFICATION FairSpec

CONSTANTS
  MaxMembers = 4
  MaxPolls = 2
  MaxInterrupts = 2

INVARIANTS
  TypeOK
  QuiescentMeansDead
  CleanExitUntouched

PROPERTIES
  KeepsContract

CHECK_DEADLOCK FALSE
