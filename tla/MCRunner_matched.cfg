SPECIFICATION Spec

CONSTANTS
  NumItems = 2
  Shape <- MatchedShapes
  KeepWorkspace = FALSE
  MaxAttempts = 2
  MaxFaults = 1

INVARIANTS
  MatchedInputsIdentical

CHECK_DEADLOCK FALSE
