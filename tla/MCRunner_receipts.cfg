SPECIFICATION Spec

CONSTANTS
  NumItems = 1
  Shape <- OneShape
  KeepWorkspace = FALSE
  MaxAttempts = 2
  MaxFaults = 1

INVARIANTS
  CompletedRunHasReceipts

CHECK_DEADLOCK FALSE
