------------------------------ MODULE AtomicLab ------------------------------
(***************************************************************************)
(* What `fieldlab init` and `fieldlab migrate-v1` promise of a directory:  *)
(* it becomes a lab once, in one step, made by one of them and with all    *)
(* its directories; nobody makes it a second time.                         *)
(***************************************************************************)
CONSTANTS Makers, Directories, None

VARIABLE lab   \* None, or who made it and the directories it has

Init == lab = None

Publish(m) ==
  /\ lab = None
  /\ lab' = [maker |-> m, dirs |-> Directories]

Next == \E m \in Makers : Publish(m)

Spec == Init /\ [][Next]_lab
=============================================================================
