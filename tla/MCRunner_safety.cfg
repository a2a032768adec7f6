SPECIFICATION FairSpec

CONSTANTS
  NumItems = 2
  Shape <- MixedShapes
  KeepWorkspace = TRUE
  MaxAttempts = 2
  MaxFaults = 1

INVARIANTS
  TypeOK
  ReceiptFaithful
  SealedBytesAgree
  PassIsEarned
  SpendRecorded
  WasteCostsFaults
  CompletionIsFinal
  CompletedRunCoversMatrix

PROPERTIES
  DriftStopsMatrix
  NoImplicitRetry
  ResumableRun

CHECK_DEADLOCK FALSE
