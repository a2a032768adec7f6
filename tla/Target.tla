------------------------------- MODULE Target -------------------------------
(***************************************************************************)
(* What run_attempt relies on when it starts a process group in a          *)
(* workspace: the group may write as long as nobody has proven it dead.    *)
(* The call ends, and a proof that it returns is final: after "quiescent"  *)
(* not one byte of the workspace changes.  "misjudged" is the answer that  *)
(* the caller takes for such a proof although ps had failed unnoticed;     *)
(* Runner assumes that it does not occur.                                  *)
(***************************************************************************)
EXTENDS Naturals

Answers == {"quiescent", "unproven", "misjudged"}

VARIABLES
  phase,   \* "live", then one of the answers for good
  tree     \* the bytes of the workspace: every write flips it

vars == <<phase, tree>>

Init == phase = "live" /\ tree = 0

Write ==
  /\ phase # "quiescent"
  /\ tree' = 1 - tree
  /\ UNCHANGED phase

Settle ==
  /\ phase = "live"
  /\ phase' \in Answers
  /\ UNCHANGED tree

Next == Write \/ Settle

Spec == Init /\ [][Next]_vars

\* The call ends.
FairSpec == Spec /\ WF_vars(Settle)
=============================================================================
