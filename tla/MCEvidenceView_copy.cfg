SPECIFICATION Spec

CONSTANTS
  Receipts = {r1}
  Outcomes = {"pass"}
  Judgments = {"supported", "not-supported"}
  ReviewIds = {a}
  None = None

PROPERTIES
  CopiesAreOneEvidence

CHECK_DEADLOCK FALSE
