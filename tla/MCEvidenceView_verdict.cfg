SPECIFICATION Spec

CONSTANTS
  Receipts = {r1, r2}
  Outcomes = {"pass", "input-drift"}
  Judgments = {"supported", "not-supported"}
  ReviewIds = {a, b}
  None = None

SYMMETRY Names

INVARIANTS
  TypeOK
  SupportedExactly

PROPERTIES
  EditedReceiptNeedsReview
  ConflictIsSticky

CHECK_DEADLOCK FALSE
