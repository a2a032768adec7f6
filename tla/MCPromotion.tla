---------------------------- MODULE MCPromotion ----------------------------
(* Values for TLC: two directories, a record in each, and the temporary     *)
(* file of one of them.  A migration brings the case.                       *)
EXTENDS Promotion

CONSTANTS case, review, temporary

MCLabDirectories == <<"cases", "reviews">>
MCDirOf == [f \in Records |-> IF f = case THEN "cases" ELSE "reviews"]
MCStaged ==
  [m \in Migrations |-> [f \in Records |-> IF f = case THEN "one" ELSE None]]
MCContents == Versions \cup {"invalid"}
=============================================================================
