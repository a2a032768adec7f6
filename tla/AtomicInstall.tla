---------------------------- MODULE AtomicInstall ----------------------------
(***************************************************************************)
(* What docs/INSTALLATION.md promises of scripts/install.py: the installed *)
(* set is replaced as a whole or not at all, and nothing is replaced that  *)
(* Field Lab does not recognise.                                           *)
(***************************************************************************)
EXTENDS Naturals

CONSTANTS
  NumControllers,   \* controller Skills
  Releases,         \* what the sources can install
  None, Foreign,    \* a missing target, and somebody else's content
  Modes             \* the values of --cli-only that are used

Targets == 1 .. NumControllers + 2

VARIABLES
  installed,
  torn        \* a run was stopped where it could not undo what it had done

Selected(cliOnly) == IF cliOnly THEN 1 .. 2 ELSE Targets

Init == installed \in [Targets -> Releases \cup {None}] /\ torn = FALSE

Install ==
  \E r \in Releases, cliOnly \in Modes :
    /\ \A t \in Selected(cliOnly) : installed[t] # Foreign
    /\ installed' = [t \in Targets |-> IF t \in Selected(cliOnly) THEN r
                                       ELSE installed[t]]
    /\ UNCHANGED torn

\* The owner removes a target or puts something else in its place.
OwnerEdits ==
  \E t \in Targets, content \in {None, Foreign} :
    /\ installed' = [installed EXCEPT ![t] = content]
    /\ UNCHANGED torn

\* From then on nothing is promised of the set.
Tear ==
  /\ torn' = TRUE
  /\ installed' \in [Targets -> Releases \cup {None, Foreign}]

Next == Install \/ OwnerEdits \/ Tear

Spec == Init /\ [][Next]_<<installed, torn>>
=============================================================================
