--------------------------- MODULE MCEvidenceView ---------------------------
(* Values for TLC.  Receipts and review files are interchangeable. *)
EXTENDS EvidenceView, TLC

Names == Permutations(Receipts) \cup Permutations(ReviewIds)
=============================================================================
