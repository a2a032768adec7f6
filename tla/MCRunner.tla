------------------------------ MODULE MCRunner ------------------------------
(* Values for TLC: a matrix of two items. *)
EXTENDS Runner

\* One case with a command assertion and declared review material, one that
\* only asks for a human review.
MixedShapes ==
  <<[material |-> TRUE, commands |-> 1, deterministic |-> TRUE, review |-> TRUE],
    [material |-> FALSE, commands |-> 0, deterministic |-> FALSE, review |-> TRUE]>>

\* A single item with two command assertions.
OneShape ==
  <<[material |-> TRUE, commands |-> 2, deterministic |-> TRUE, review |-> TRUE]>>

\* A matched pair: the same case for a control and for a subject.
MatchedShapes ==
  [i \in 1 .. 2 |->
     [material |-> FALSE, commands |-> 0, deterministic |-> TRUE, review |-> FALSE]]

=============================================================================
