SPECIFICATION Spec

CONSTANTS
  MaxMembers = 2
  MaxPolls = 1
  MaxInterrupts = 0

PROPERTIES
  ProbeFallsBack

CHECK_DEADLOCK FALSE
