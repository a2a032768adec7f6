---------------------------- MODULE RunnerProofs ----------------------------
(***************************************************************************)
(* Theorems about Runner, for every matrix, bound and number of faults.    *)
(*                                                                         *)
(* The safety invariants of Runner are not inductive: they say nothing of  *)
(* an attempt whose runner stands between two writes.  IInv adds what      *)
(* holds there: AtPoint ties the locals of run_attempt and the directory   *)
(* it works in to the point the process has reached, and Fresh says which  *)
(* directories a process may still open.                                   *)
(***************************************************************************)
EXTENDS Runner, TLAPS

USE NumItemsAssumption, MaxAttemptsAssumption, KeepAssumption,
    MaxFaultsAssumption, ShapeAssumption

\* Points of run_attempt: before the receipt is written, and all of them.
PreflightPoints == {"preflight-metadata", "preflight-verification",
                    "preflight-receipt"}
FilePoints == {"preflight-verification", "preflight-receipt"}
SealingPoints == {"seal-diff", "seal-tree", "material", "evidence-failure",
                  "assertions", "commands", "completed", "receipt"}
CheckPoints == {"assertions", "commands", "completed", "receipt"}
InvokedPoints == {"launch", "wait", "termination"} \cup SealingPoints
OpenPoints == {"metadata", "prepare", "invoke"} \cup PreflightPoints
                \cup InvokedPoints
AttemptPoints == OpenPoints \cup {"cleanup", "record", "stop"}

Here == att[slot]

AtPoint ==
  /\ pc \in AttemptPoints => item \in Items /\ slot[1] = item
  /\ pc \in AttemptPoints => Here.state # "absent"
  /\ pc \in OpenPoints => ~Sealed(slot)
  /\ pc \in OpenPoints \ (FilePoints \cup {"receipt"}) =>
       Here.state \in {"bare", "running"} /\ Here.outcome \in {None, "pending"}
  /\ pc \in PreflightPoints => mem.preflight \in PreflightStates
  /\ pc \in FilePoints =>
       Here.state = mem.preflight /\ Here.outcome = mem.preflight
  /\ pc \in OpenPoints \ InvokedPoints => ~Here.invoked /\ Here.target = None
  /\ pc \in OpenPoints \ CheckPoints => Here.material = None
  /\ pc \in InvokedPoints => Here.invoked
  /\ pc \in {"invoke"} \cup InvokedPoints =>
       Here.mount = "planned" /\ Here.workspace \in Trees
  /\ pc \in SealingPoints =>
       Here.target = "quiescent" /\ mem.process \in Processes
  /\ pc = "seal-tree" => mem.diff = Here.workspace
  /\ pc \in CheckPoints \cup {"material"} =>
       /\ mem.tree = Here.workspace
       /\ Here.diff = Here.workspace
  /\ pc \in CheckPoints =>
       Here.material = IF Shape[item].material THEN Here.workspace ELSE None
  /\ pc \in {"completed", "receipt"} =>
       Here.tree = Here.workspace /\ Here.verdict = Verdict
  /\ pc = "receipt" =>
       Here.state = "completed" /\ Here.outcome = Outcome(item)
  /\ pc = "stop" => Here.state \in PreflightStates
  /\ pc = "raise" => mem.error \in Errors

\* An attempt that failed to terminate or to construct its evidence has no
\* receipt; a failed capture leaves no material.
Unsealed(a) ==
  /\ a.state \in {"bare", "running", "termination-failed", "evidence-failed"}
       => ~a.receipt.sealed
  /\ a.state = "evidence-failed" => a.material = None

FailedAttemptUnsealed == \A s \in Slots : Unsealed(att[s])

\* What is true of every attempt directory, wherever the process is.
LocalInv(a, i) ==
  /\ Faithful(a)
  /\ SameBytes(a, i)
  /\ Earned(a)
  /\ Counted(a)
  /\ Unsealed(a)
  /\ a.state = "absent" =>
       /\ a.outcome = None /\ ~a.receipt.sealed /\ ~a.invoked
       /\ a.target = None /\ a.material = None

Used == {t \in Slots : att[t].state # "absent"}
Done == {t \in Slots : att[t].state = "completed"}

\* Directories that a process may still open are unused.
Fresh ==
  /\ runDir \/ Used = {}
  /\ pc # "idle" \/ summary.state # None => runDir
  /\ pc # "idle" /\ ~resume =>
       \A t \in Used : t[1] < item \/ (t[1] = item /\ pc \notin {"summary", "loop"})
  /\ pc \in AttemptPoints => \A t \in Used : t[1] = item => t[2] <= slot[2]
  /\ pc \in OpenPoints => slot \in Used /\ \A t \in Done : t[1] = item => t = slot
  /\ \A s \in Done, t \in Used : t[1] = s[1] => t[2] <= s[2]

IInv ==
  /\ TypeOK
  /\ AtPoint
  /\ \A s \in Slots : LocalInv(att[s], s[1])
  /\ Fresh

-----------------------------------------------------------------------------
(* The frame: what follows once the effect on one attempt is known *)

USE DEF None, AttemptPoints, OpenPoints, InvokedPoints, CheckPoints,
        SealingPoints, FilePoints, PreflightPoints

\* What every step may assume of the variables it reads.
LEMMA Known ==
  ASSUME IInv
  PROVE  /\ slot \in Slots /\ att \in [Slots -> Attempts]
         /\ att[slot] \in Attempts /\ LocalInv(att[slot], slot[1])
         /\ mem \in Locals /\ item \in 1 .. NumItems + 1
         /\ subjectNow \in Inputs /\ caseNow \in Inputs
         /\ overlaps \in SUBSET Items
BY DEF IInv, TypeOK

\* Replacing one attempt directory by a good one keeps all of them good.
LEMMA FrameAttempt ==
  ASSUME IInv, NEW s \in Slots, NEW b \in Attempts,
         att' = [att EXCEPT ![s] = b], LocalInv(b, s[1])
  PROVE  /\ att' \in [Slots -> Attempts]
         /\ att'[s] = b
         /\ \A t \in Slots : t # s => att'[t] = att[t]
         /\ \A t \in Slots : LocalInv(att[t], t[1])'
<1>1. att' \in [Slots -> Attempts] /\ att'[s] = b
  BY Known
<1>2. \A t \in Slots : t # s => att'[t] = att[t]
  BY Known
<1>3. \A t \in Slots : LocalInv(att[t], t[1])'
  BY <1>1, <1>2 DEF IInv
<1> QED BY <1>1, <1>2, <1>3

\* A step of run_attempt opens no directory and completes at most its own.
LEMMA FrameFresh ==
  ASSUME IInv, pc \in AttemptPoints, UNCHANGED <<runFiles, locals>>,
         pc' \in AttemptPoints \cup {"raise"},
         pc' \in OpenPoints => pc \in OpenPoints,
         Used' = Used, Done' \in {Done, Done \cup {slot}},
         Done' # Done => pc \in OpenPoints
  PROVE  Fresh'
<1>1. slot[1] = item /\ slot \in Slots
  BY DEF IInv, AtPoint, TypeOK
<1>2. CASE Done' = Done
  BY <1>2 DEF Fresh, IInv, runFiles, locals
<1>3. CASE Done' # Done
  <2>1. \A t \in Used : t[1] = item => t[2] <= slot[2]
    BY DEF IInv, Fresh
  <2>2. \A s \in Done', t \in Used' : t[1] = s[1] => t[2] <= s[2]
    BY <1>1, <1>3, <2>1 DEF IInv, Fresh, Done, Used
  <2> QED BY <1>1, <1>3, <2>1, <2>2 DEF Fresh, IInv, runFiles, locals
<1> QED BY <1>2, <1>3

\* The types that a step of run_attempt cannot disturb.
LEMMA FrameType ==
  ASSUME IInv, att' \in [Slots -> Attempts], mem' \in Locals,
         UNCHANGED <<sources, runFiles, locals>>, faults' \in 0 .. MaxFaults,
         pc' \in AttemptPoints \cup {"raise"}
  PROVE  TypeOK'
BY DEF IInv, TypeOK, sources, runFiles, locals

\* Steps of run_attempt that write the attempt directory.
LEMMA WritingStep ==
  ASSUME IInv, NEW b \in Attempts, LocalInv(b, slot[1]),
         att' = [att EXCEPT ![slot] = b],
         b.state # "absent", b.state = "completed" \/ att[slot].state # "completed",
         pc \in OpenPoints \/ b.state = att[slot].state,
         pc \in AttemptPoints, pc' \in AttemptPoints \cup {"raise"},
         pc' \in OpenPoints => pc \in OpenPoints,
         UNCHANGED <<sources, runFiles, locals>>,
         mem' \in Locals, faults' \in 0 .. MaxFaults,
         att'[slot] = b => AtPoint'
  PROVE  IInv'
<1>1. /\ att' \in [Slots -> Attempts]
      /\ att'[slot] = b
      /\ \A t \in Slots : t # slot => att'[t] = att[t]
      /\ \A t \in Slots : LocalInv(att[t], t[1])'
  BY Known, FrameAttempt
<1>2. att[slot].state = "absent" => pc \notin OpenPoints
  BY DEF IInv, AtPoint, Here
<1>3. Used' = Used /\ Done' \in {Done, Done \cup {slot}} /\ (Done' # Done => pc \in OpenPoints)
  BY <1>1, <1>2, Known DEF Used, Done
<1>4. Fresh' /\ TypeOK'
  BY <1>1, <1>3, FrameFresh, FrameType
<1> QED BY <1>1, <1>4 DEF IInv

\* Steps of run_attempt that change its locals only.
LEMMA ReadingStep ==
  ASSUME IInv, att' = att,
         pc \in AttemptPoints, pc' \in AttemptPoints \cup {"raise"},
         pc' \in OpenPoints => pc \in OpenPoints,
         UNCHANGED <<sources, runFiles, locals>>,
         mem' \in Locals, faults' \in 0 .. MaxFaults, AtPoint'
  PROVE  IInv'
<1>1. Used' = Used /\ Done' = Done
  BY DEF Used, Done
<1>2. Fresh' /\ TypeOK'
  BY <1>1, Known, FrameFresh, FrameType
<1> QED BY <1>2 DEF IInv

-----------------------------------------------------------------------------
(* One lemma per action *)

\* Removing a workspace or keeping it leaves a well-typed one.
LEMMA RetainedTree ==
  ASSUME NEW w \in OptTrees
  PROVE  Retained(w) \in OptTrees
BY DEF Retained, OptTrees

\* The first metadata.json.
LEMMA StepWriteMetadata == ASSUME IInv, WriteMetadata PROVE IInv'
<1> DEFINE b == [att[slot] EXCEPT !.state = "running", !.outcome = "pending",
                                  !.inputs = caseNow]
<1>1. pc = "metadata" /\ pc' = "prepare" /\ att' = [att EXCEPT ![slot] = b]
  BY Known DEF WriteMetadata, Goto
<1>2. b.state # "absent" /\ att[slot].state # "completed"
  BY <1>1, Known DEF IInv, AtPoint, Here, Attempts, PreflightStates
<1>3. b \in Attempts
  BY Known DEF Attempts, AttemptStates, Outcomes, OptInputs
<1>4. LocalInv(b, slot[1])
  BY <1>1, <1>2, Known DEF IInv, AtPoint, Here, Sealed, LocalInv, Attempts,
    Faithful, SameBytes, Earned, Counted, Unsealed, PreflightStates
<1>5. att'[slot] = b => AtPoint'
  BY <1>1, Known DEF WriteMetadata, Goto, locals, IInv, AtPoint, Here, Sealed,
    Attempts, PreflightStates
<1>6. mem' \in Locals /\ faults' \in 0 .. MaxFaults
  BY Known DEF WriteMetadata, IInv, TypeOK
<1> HIDE DEF b
<1> QED
  BY <1>1, <1>2, <1>3, <1>4, <1>5, <1>6, Known, WritingStep DEF WriteMetadata,
    Goto

\* The metadata.json of a failed preflight.
LEMMA StepWritePreflightMetadata == ASSUME IInv, WritePreflightMetadata PROVE IInv'
<1> DEFINE b == [att[slot] EXCEPT !.state = mem.preflight,
                                  !.outcome = mem.preflight]
<1>1. /\ pc = "preflight-metadata" /\ pc' = "preflight-verification"
      /\ att' = [att EXCEPT ![slot] = b]
  BY Known DEF WritePreflightMetadata, Goto
<1>2. b.state # "absent" /\ att[slot].state # "completed"
  BY <1>1, Known DEF IInv, AtPoint, Here, Attempts, PreflightStates
<1>3. b \in Attempts
  BY Known DEF Attempts, Locals, AttemptStates, Outcomes, PreflightStates,
    AtPoint, IInv, WritePreflightMetadata, Goto
<1>4. LocalInv(b, slot[1])
  BY <1>1, <1>2, Known DEF IInv, AtPoint, Here, Sealed, LocalInv, Attempts,
    Faithful, SameBytes, Earned, Counted, Unsealed, PreflightStates
<1>5. att'[slot] = b => AtPoint'
  BY <1>1, Known DEF WritePreflightMetadata, Goto, locals, IInv, AtPoint,
    Here, Sealed, Attempts, PreflightStates
<1>6. mem' \in Locals /\ faults' \in 0 .. MaxFaults
  BY Known DEF WritePreflightMetadata, IInv, TypeOK
<1> HIDE DEF b
<1> QED
  BY <1>1, <1>2, <1>3, <1>4, <1>5, <1>6, Known, WritingStep DEF
    WritePreflightMetadata, Goto

\* The verification.json of a failed preflight.
LEMMA StepWritePreflightVerification == ASSUME IInv, WritePreflightVerification PROVE IInv'
<1> DEFINE b == [att[slot] EXCEPT !.verdict = "failed"]
<1>1. /\ pc = "preflight-verification" /\ pc' = "preflight-receipt"
      /\ att' = [att EXCEPT ![slot] = b]
  BY Known DEF WritePreflightVerification, Goto
<1>2. b.state # "absent" /\ att[slot].state # "completed"
  BY <1>1, Known DEF IInv, AtPoint, Here, Attempts, PreflightStates
<1>3. b \in Attempts
  BY Known DEF Attempts, Verdicts
<1>4. LocalInv(b, slot[1])
  BY <1>1, <1>2, Known DEF IInv, AtPoint, Here, Sealed, LocalInv, Attempts,
    Faithful, SameBytes, Earned, Counted, Unsealed, PreflightStates
<1>5. att'[slot] = b => AtPoint'
  BY <1>1, Known DEF WritePreflightVerification, Goto, locals, IInv, AtPoint,
    Here, Sealed, Attempts, PreflightStates
<1>6. mem' \in Locals /\ faults' \in 0 .. MaxFaults
  BY Known DEF WritePreflightVerification, IInv, TypeOK
<1> HIDE DEF b
<1> QED
  BY <1>1, <1>2, <1>3, <1>4, <1>5, <1>6, Known, WritingStep DEF
    WritePreflightVerification, Goto

\* The receipt of a failed preflight.
LEMMA StepWritePreflightReceipt == ASSUME IInv, WritePreflightReceipt PROVE IInv'
<1> DEFINE b == [att[slot] EXCEPT !.receipt = SealReceipt(mem.preflight)]
<1>1. /\ pc = "preflight-receipt" /\ pc' = "cleanup"
      /\ att' = [att EXCEPT ![slot] = b]
  BY Known DEF WritePreflightReceipt, Goto
<1>2. b.state # "absent" /\ att[slot].state # "completed"
  BY <1>1, Known DEF IInv, AtPoint, Here, Attempts, PreflightStates
<1>3. b \in Attempts
  BY Known DEF Attempts, Receipts, SealReceipt, Locals, Outcomes
<1>4. LocalInv(b, slot[1])
  BY <1>1, <1>2, Known DEF IInv, AtPoint, Here, Sealed, LocalInv, Attempts,
    Faithful, SameBytes, Earned, Counted, Unsealed, PreflightStates,
    SealReceipt
<1>5. att'[slot] = b => AtPoint'
  BY <1>1, Known DEF WritePreflightReceipt, Goto, locals, IInv, AtPoint, Here,
    Sealed, Attempts, PreflightStates
<1>6. mem' \in Locals /\ faults' \in 0 .. MaxFaults
  BY Known DEF WritePreflightReceipt, IInv, TypeOK
<1> HIDE DEF b
<1> QED
  BY <1>1, <1>2, <1>3, <1>4, <1>5, <1>6, Known, WritingStep DEF
    WritePreflightReceipt, Goto

\* The invocation is counted.
LEMMA StepCommitInvocation == ASSUME IInv, CommitInvocation PROVE IInv'
<1> DEFINE b == [att[slot] EXCEPT !.invoked = TRUE]
<1>1. pc = "invoke" /\ pc' = "launch" /\ att' = [att EXCEPT ![slot] = b]
  BY Known DEF CommitInvocation, Goto
<1>2. b.state # "absent" /\ att[slot].state # "completed"
  BY <1>1, Known DEF IInv, AtPoint, Here, Attempts, PreflightStates
<1>3. b \in Attempts
  BY Known DEF Attempts
<1>4. LocalInv(b, slot[1])
  BY <1>1, <1>2, Known DEF IInv, AtPoint, Here, Sealed, LocalInv, Attempts,
    Faithful, SameBytes, Earned, Counted, Unsealed, PreflightStates
<1>5. att'[slot] = b => AtPoint'
  BY <1>1, Known DEF CommitInvocation, Goto, locals, IInv, AtPoint, Here,
    Sealed, Attempts, PreflightStates
<1>6. mem' \in Locals /\ faults' \in 0 .. MaxFaults
  BY Known DEF CommitInvocation, IInv, TypeOK
<1> HIDE DEF b
<1> QED
  BY <1>1, <1>2, <1>3, <1>4, <1>5, <1>6, Known, WritingStep DEF
    CommitInvocation, Goto

\* The target is started after it was counted.
LEMMA StepLaunchTarget == ASSUME IInv, LaunchTarget PROVE IInv'
<1> DEFINE b == [att[slot] EXCEPT !.target = "live"]
<1>1. pc = "launch" /\ pc' = "wait" /\ att' = [att EXCEPT ![slot] = b]
  BY Known DEF LaunchTarget, Goto
<1>2. b.state # "absent" /\ att[slot].state # "completed"
  BY <1>1, Known DEF IInv, AtPoint, Here, Attempts, PreflightStates
<1>3. b \in Attempts
  BY Known DEF Attempts
<1>4. LocalInv(b, slot[1])
  BY <1>1, <1>2, Known DEF IInv, AtPoint, Here, Sealed, LocalInv, Attempts,
    Faithful, SameBytes, Earned, Counted, Unsealed, PreflightStates
<1>5. att'[slot] = b => AtPoint'
  BY <1>1, Known DEF LaunchTarget, Goto, locals, IInv, AtPoint, Here, Sealed,
    Attempts, PreflightStates
<1>6. mem' \in Locals /\ faults' \in 0 .. MaxFaults
  BY Known DEF LaunchTarget, IInv, TypeOK
<1> HIDE DEF b
<1> QED
  BY <1>1, <1>2, <1>3, <1>4, <1>5, <1>6, Known, WritingStep DEF LaunchTarget,
    Goto

\* The group of the target is proven dead.
LEMMA StepTargetQuiescent == ASSUME IInv, TargetQuiescent PROVE IInv'
<1> DEFINE b == [att[slot] EXCEPT !.target = "quiescent"]
<1>1. pc = "wait" /\ pc' = "seal-diff" /\ att' = [att EXCEPT ![slot] = b]
  BY Known DEF TargetQuiescent, Goto
<1>2. b.state # "absent" /\ att[slot].state # "completed"
  BY <1>1, Known DEF IInv, AtPoint, Here, Attempts, PreflightStates
<1>3. b \in Attempts
  BY Known DEF Attempts
<1>4. LocalInv(b, slot[1])
  BY <1>1, <1>2, Known DEF IInv, AtPoint, Here, Sealed, LocalInv, Attempts,
    Faithful, SameBytes, Earned, Counted, Unsealed, PreflightStates
<1>5. att'[slot] = b => AtPoint'
  BY <1>1, Known DEF TargetQuiescent, Goto, locals, IInv, AtPoint, Here,
    Sealed, Attempts, PreflightStates
<1>6. mem' \in Locals /\ faults' \in 0 .. MaxFaults
  BY Known DEF TargetQuiescent, IInv, TypeOK, Locals
<1> HIDE DEF b
<1> QED
  BY <1>1, <1>2, <1>3, <1>4, <1>5, <1>6, Known, WritingStep DEF
    TargetQuiescent, Goto

\* It is not.
LEMMA StepTargetUnproven == ASSUME IInv, TargetUnproven PROVE IInv'
<1> DEFINE b == [att[slot] EXCEPT !.target = "unproven"]
<1>1. pc = "wait" /\ pc' = "termination" /\ att' = [att EXCEPT ![slot] = b]
  BY Known DEF TargetUnproven, Goto, NotQuiescent
<1>2. b.state # "absent" /\ att[slot].state # "completed"
  BY <1>1, Known DEF IInv, AtPoint, Here, Attempts, PreflightStates
<1>3. b \in Attempts
  BY Known DEF Attempts
<1>4. LocalInv(b, slot[1])
  BY <1>1, <1>2, Known DEF IInv, AtPoint, Here, Sealed, LocalInv, Attempts,
    Faithful, SameBytes, Earned, Counted, Unsealed, PreflightStates
<1>5. att'[slot] = b => AtPoint'
  BY <1>1, Known DEF TargetUnproven, Goto, NotQuiescent, locals, IInv,
    AtPoint, Here, Sealed, Attempts, PreflightStates
<1>6. mem' \in Locals /\ faults' \in 0 .. MaxFaults
  BY Known DEF TargetUnproven, IInv, TypeOK, Locals, Fault, Processes
<1> HIDE DEF b
<1> QED
  BY <1>1, <1>2, <1>3, <1>4, <1>5, <1>6, Known, WritingStep DEF
    TargetUnproven, Goto, NotQuiescent

\* The metadata of a failed termination.
LEMMA StepWriteTerminationFailure == ASSUME IInv, WriteTerminationFailure PROVE IInv'
<1> DEFINE b == [att[slot] EXCEPT !.state = "termination-failed",
        !.outcome = "termination-failure", !.process = mem.process]
<1>1. pc = "termination" /\ pc' = "raise" /\ att' = [att EXCEPT ![slot] = b]
  BY Known DEF WriteTerminationFailure, Raise
<1>2. b.state # "absent" /\ att[slot].state # "completed"
  BY <1>1, Known DEF IInv, AtPoint, Here, Attempts, PreflightStates
<1>3. b \in Attempts
  BY Known DEF Attempts, Locals, AttemptStates, Outcomes
<1>4. LocalInv(b, slot[1])
  BY <1>1, <1>2, Known DEF IInv, AtPoint, Here, Sealed, LocalInv, Attempts,
    Faithful, SameBytes, Earned, Counted, Unsealed, PreflightStates
<1>5. att'[slot] = b => AtPoint'
  BY <1>1, Known DEF WriteTerminationFailure, Raise, locals, IInv, AtPoint,
    Here, Sealed, Attempts, PreflightStates
<1>6. mem' \in Locals /\ faults' \in 0 .. MaxFaults
  BY Known DEF WriteTerminationFailure, IInv, TypeOK, Raise, Locals, Errors
<1> HIDE DEF b
<1> QED
  BY <1>1, <1>2, <1>3, <1>4, <1>5, <1>6, Known, WritingStep DEF
    WriteTerminationFailure, Raise

\* The diff is read from a quiescent workspace.
LEMMA StepCaptureDiff == ASSUME IInv, CaptureDiff PROVE IInv'
<1>1. pc = "seal-diff" /\ pc' = "seal-tree" /\ att' = att
  BY DEF CaptureDiff, Goto
<1>2. mem' \in Locals /\ faults' \in 0 .. MaxFaults
  BY Known DEF CaptureDiff, IInv, TypeOK, Locals, Attempts
<1>3. AtPoint'
  BY <1>1, Known DEF CaptureDiff, Goto, locals, IInv, AtPoint, Here, Sealed,
    Attempts, PreflightStates
<1> QED
  BY <1>1, <1>2, <1>3, ReadingStep DEF CaptureDiff, Goto

\* The tree is digested and the diff written.
LEMMA StepDigestTree == ASSUME IInv, DigestTree PROVE IInv'
<1> DEFINE b == [att[slot] EXCEPT !.diff = mem.diff]
<1>1. pc = "seal-tree" /\ pc' = "material" /\ att' = [att EXCEPT ![slot] = b]
  BY Known DEF DigestTree, Goto
<1>2. b.state # "absent" /\ att[slot].state # "completed"
  BY <1>1, Known DEF IInv, AtPoint, Here, Attempts, PreflightStates
<1>3. b \in Attempts
  BY Known DEF Attempts, Locals
<1>4. LocalInv(b, slot[1])
  BY <1>1, <1>2, Known DEF IInv, AtPoint, Here, Sealed, LocalInv, Attempts,
    Faithful, SameBytes, Earned, Counted, Unsealed, PreflightStates
<1>5. att'[slot] = b => AtPoint'
  BY <1>1, Known DEF DigestTree, Goto, locals, IInv, AtPoint, Here, Sealed,
    Attempts, PreflightStates
<1>6. mem' \in Locals /\ faults' \in 0 .. MaxFaults
  BY Known DEF DigestTree, IInv, TypeOK, Locals, Attempts
<1> HIDE DEF b
<1> QED
  BY <1>1, <1>2, <1>3, <1>4, <1>5, <1>6, Known, WritingStep DEF DigestTree,
    Goto

\* The review material cannot be captured.
LEMMA StepMaterialFails == ASSUME IInv, MaterialFails PROVE IInv'
<1>1. pc = "material" /\ pc' = "evidence-failure" /\ att' = att
  BY DEF MaterialFails, Goto
<1>2. mem' \in Locals /\ faults' \in 0 .. MaxFaults
  BY Known DEF MaterialFails, IInv, TypeOK, Fault
<1>3. AtPoint'
  BY <1>1, Known DEF MaterialFails, Goto, locals, IInv, AtPoint, Here, Sealed,
    Attempts, PreflightStates
<1> QED
  BY <1>1, <1>2, <1>3, ReadingStep DEF MaterialFails, Goto

\* The metadata of a failed capture.
LEMMA StepWriteEvidenceFailure == ASSUME IInv, WriteEvidenceFailure PROVE IInv'
<1> DEFINE b == [att[slot] EXCEPT !.state = "evidence-failed", !.outcome = "error",
        !.process = mem.process,
                        !.workspace = Retained(att[slot].workspace)]
<1>1. pc = "evidence-failure" /\ pc' = "raise" /\ att' = [att EXCEPT ![slot] = b]
  BY Known DEF WriteEvidenceFailure, Raise
<1>2. b.state # "absent" /\ att[slot].state # "completed"
  BY <1>1, Known DEF IInv, AtPoint, Here, Attempts, PreflightStates
<1>3. b \in Attempts
  BY Known, RetainedTree DEF Attempts, Locals, AttemptStates, Outcomes
<1>4. LocalInv(b, slot[1])
  BY <1>1, <1>2, Known DEF IInv, AtPoint, Here, Sealed, LocalInv, Attempts,
    Faithful, SameBytes, Earned, Counted, Unsealed, PreflightStates
<1>5. att'[slot] = b => AtPoint'
  BY <1>1, Known DEF WriteEvidenceFailure, Raise, locals, IInv, AtPoint, Here,
    Sealed, Attempts, PreflightStates
<1>6. mem' \in Locals /\ faults' \in 0 .. MaxFaults
  BY Known DEF WriteEvidenceFailure, IInv, TypeOK, Raise, Locals, Errors
<1> HIDE DEF b
<1> QED
  BY <1>1, <1>2, <1>3, <1>4, <1>5, <1>6, Known, WritingStep DEF
    WriteEvidenceFailure, Raise

\* Assertions are evaluated on the sealed tree.
LEMMA StepEvaluateAssertions == ASSUME IInv, EvaluateAssertions PROVE IInv'
<1>1. pc = "assertions" /\ pc' = "commands" /\ att' = att
  BY DEF EvaluateAssertions, Goto
<1>2. mem' \in Locals /\ faults' \in 0 .. MaxFaults
  BY Known DEF EvaluateAssertions, IInv, TypeOK, Locals
<1>3. AtPoint'
  BY <1>1, Known DEF EvaluateAssertions, Goto, locals, IInv, AtPoint, Here,
    Sealed, Attempts, PreflightStates
<1> QED
  BY <1>1, <1>2, <1>3, ReadingStep DEF EvaluateAssertions, Goto

\* verification.json.
LEMMA StepWriteVerification == ASSUME IInv, WriteVerification PROVE IInv'
<1> DEFINE b == [att[slot] EXCEPT !.verdict = Verdict, !.tree = mem.tree]
<1>1. pc = "commands" /\ pc' = "completed" /\ att' = [att EXCEPT ![slot] = b]
  BY Known DEF WriteVerification, Goto
<1>2. b.state # "absent" /\ att[slot].state # "completed"
  BY <1>1, Known DEF IInv, AtPoint, Here, Attempts, PreflightStates
<1>3. b \in Attempts
  BY Known DEF Attempts, Locals, Verdict, Verdicts
<1>4. LocalInv(b, slot[1])
  BY <1>1, <1>2, Known DEF IInv, AtPoint, Here, Sealed, LocalInv, Attempts,
    Faithful, SameBytes, Earned, Counted, Unsealed, PreflightStates
<1>5. att'[slot] = b => AtPoint'
  BY <1>1, Known DEF WriteVerification, Goto, locals, IInv, AtPoint, Here,
    Sealed, Attempts, PreflightStates, Verdict
<1>6. mem' \in Locals /\ faults' \in 0 .. MaxFaults
  BY Known DEF WriteVerification, IInv, TypeOK
<1> HIDE DEF b
<1> QED
  BY <1>1, <1>2, <1>3, <1>4, <1>5, <1>6, Known, WritingStep DEF
    WriteVerification, Goto

\* The attempt is completed.
LEMMA StepWriteCompleted == ASSUME IInv, WriteCompleted PROVE IInv'
<1> DEFINE b == [att[slot] EXCEPT !.state = "completed", !.outcome = Outcome(item),
                                  !.process = mem.process]
<1>1. pc = "completed" /\ pc' = "receipt" /\ att' = [att EXCEPT ![slot] = b]
  BY Known DEF WriteCompleted, Goto
<1>2. b.state # "absent" /\ att[slot].state # "completed"
  BY <1>1, Known DEF IInv, AtPoint, Here, Attempts, PreflightStates
<1>3. b \in Attempts
  BY Known DEF Attempts, Locals, Outcome, Outcomes, VerifiedOutcome,
    AttemptStates, Verdict
<1>4. LocalInv(b, slot[1])
  <2>1. /\ att[slot].mount = "planned" /\ att[slot].target = "quiescent"
        /\ att[slot].tree = att[slot].diff /\ att[slot].verdict = Verdict
        /\ att[slot].invoked /\ ~att[slot].receipt.sealed
        /\ mem.process \in Processes
    BY <1>1 DEF IInv, AtPoint, Here, Sealed
  <2>2. Outcome(item) = "pass" => mem.process = "exited" /\ Verdict = "supported"
    BY <2>1 DEF Outcome, VerifiedOutcome, Verdict, Processes
  <2>3. /\ b.state = "completed" /\ b.outcome = Outcome(item)
        /\ b.process = mem.process /\ b.mount = att[slot].mount
        /\ b.target = att[slot].target /\ b.tree = att[slot].tree
        /\ b.diff = att[slot].diff /\ b.verdict = att[slot].verdict
        /\ b.invoked = att[slot].invoked /\ b.receipt = att[slot].receipt
    BY Known DEF Attempts
  <2> HIDE DEF b
  <2>4. Faithful(b) /\ SameBytes(b, slot[1]) /\ Unsealed(b)
    BY <2>1, <2>3 DEF Faithful, SameBytes, Unsealed
  <2>5. Earned(b) /\ Counted(b)
    BY <2>1, <2>2, <2>3 DEF Earned, Counted, PreflightStates
  <2> QED BY <2>3, <2>4, <2>5 DEF LocalInv
<1>5. att'[slot] = b => AtPoint'
  BY <1>1, Known DEF WriteCompleted, Goto, locals, IInv, AtPoint, Here,
    Sealed, Attempts, PreflightStates, Outcome, VerifiedOutcome, Verdict
<1>6. mem' \in Locals /\ faults' \in 0 .. MaxFaults
  BY Known DEF WriteCompleted, IInv, TypeOK
<1> HIDE DEF b
<1> QED
  BY <1>1, <1>2, <1>3, <1>4, <1>5, <1>6, Known, WritingStep DEF
    WriteCompleted, Goto

\* The receipt of a completed attempt.
LEMMA StepWriteReceipt == ASSUME IInv, WriteReceipt PROVE IInv'
<1> DEFINE b == [att[slot] EXCEPT !.receipt = SealReceipt(Outcome(item))]
<1>1. pc = "receipt" /\ pc' = "cleanup" /\ att' = [att EXCEPT ![slot] = b]
  BY Known DEF WriteReceipt, Goto
<1>2. b.state = att[slot].state /\ b.state = "completed"
  BY <1>1, Known DEF IInv, AtPoint, Here, Attempts
<1>3. b \in Attempts
  BY Known DEF Attempts, Receipts, SealReceipt, Outcome, Outcomes,
    VerifiedOutcome, Verdict
<1>4. LocalInv(b, slot[1])
  <2>1. /\ att[slot].outcome = Outcome(item) /\ att[slot].target = "quiescent"
        /\ att[slot].workspace \in Trees /\ slot[1] = item
        /\ att[slot].tree = att[slot].workspace
        /\ att[slot].diff = att[slot].workspace
        /\ att[slot].material = IF Shape[item].material THEN att[slot].workspace
                                                        ELSE None
    BY <1>1 DEF IInv, AtPoint, Here
  <2>2. /\ b.state = att[slot].state /\ b.outcome = att[slot].outcome
        /\ b.verdict = att[slot].verdict /\ b.tree = att[slot].tree
        /\ b.diff = att[slot].diff /\ b.material = att[slot].material
        /\ b.workspace = att[slot].workspace /\ b.target = att[slot].target
        /\ b.invoked = att[slot].invoked /\ b.mount = att[slot].mount
        /\ b.process = att[slot].process
        /\ b.receipt = SealReceipt(Outcome(item))
    BY Known DEF Attempts
  <2> HIDE DEF b
  <2>3. Faithful(b) /\ Unsealed(b)
    BY <1>2, <2>1, <2>2 DEF Faithful, Unsealed, SealReceipt
  <2>4. SameBytes(b, slot[1])
    BY <2>1, <2>2 DEF SameBytes, SealReceipt, Trees
  <2>5. Earned(b) /\ Counted(b)
    BY <2>2, Known DEF LocalInv, Earned, Counted
  <2> QED BY <1>2, <2>3, <2>4, <2>5 DEF LocalInv
<1>5. att'[slot] = b => AtPoint'
  BY <1>1, Known DEF WriteReceipt, Goto, locals, IInv, AtPoint, Here, Sealed,
    Attempts, PreflightStates
<1>6. mem' \in Locals /\ faults' \in 0 .. MaxFaults
  BY Known DEF WriteReceipt, IInv, TypeOK
<1> HIDE DEF b
<1> QED
  BY <1>1, <1>2, <1>3, <1>4, <1>5, <1>6, Known, WritingStep DEF WriteReceipt,
    Goto

\* The worker workspace is removed unless the plan keeps it.
LEMMA StepRemoveWorkspace == ASSUME IInv, RemoveWorkspace PROVE IInv'
<1> DEFINE b == [att[slot] EXCEPT !.workspace = Retained(att[slot].workspace)]
<1>1. pc = "cleanup" /\ pc' = "record" /\ att' = [att EXCEPT ![slot] = b]
  BY Known DEF RemoveWorkspace, Goto
<1>2. b.state = att[slot].state /\ b.state # "absent"
  BY <1>1, Known DEF IInv, AtPoint, Here, Attempts
<1>3. b \in Attempts
  BY Known, RetainedTree DEF Attempts
<1>4. LocalInv(b, slot[1])
  BY <1>1, <1>2, Known DEF IInv, AtPoint, Here, Sealed, LocalInv, Attempts,
    Faithful, SameBytes, Earned, Counted, Unsealed, PreflightStates, Retained
<1>5. att'[slot] = b => AtPoint'
  BY <1>1, Known DEF RemoveWorkspace, Goto, locals, IInv, AtPoint, Here,
    Sealed, Attempts, PreflightStates
<1>6. mem' \in Locals /\ faults' \in 0 .. MaxFaults
  BY Known DEF RemoveWorkspace, IInv, TypeOK
<1> HIDE DEF b
<1> QED
  BY <1>1, <1>2, <1>3, <1>4, <1>5, <1>6, Known, WritingStep DEF
    RemoveWorkspace, Goto

\* The subject and the fixture are copied, and the mount compared.
LEMMA StepPrepareWorkspace == ASSUME IInv, PrepareWorkspace PROVE IInv'
<1>1. PICK mount \in Inputs :
        /\ att' = [att EXCEPT ![slot].fixture = caseNow, ![slot].mount = mount,
                              ![slot].workspace = "base"]
        /\ \/ mount = "planned" /\ Goto("prepare", "invoke") /\ UNCHANGED mem
           \/ /\ mount # "planned" /\ Goto("prepare", "preflight-metadata")
              /\ mem' = [mem EXCEPT !.preflight = "input-drift"]
        /\ UNCHANGED faults
  <2>1. Delivered(item) \subseteq Inputs
    BY DEF Delivered, Inputs
  <2> QED BY <2>1, Zenon DEF PrepareWorkspace
<1> DEFINE b == [att[slot] EXCEPT !.fixture = caseNow, !.mount = mount,
                                  !.workspace = "base"]
<1>2. pc = "prepare" /\ att' = [att EXCEPT ![slot] = b]
  BY <1>1, Known DEF Goto
<1>3. b.state # "absent" /\ att[slot].state # "completed"
  BY <1>2, Known DEF IInv, AtPoint, Here, Attempts
<1>4. b \in Attempts
  BY Known DEF Attempts, OptInputs, OptTrees, Trees
<1>5. LocalInv(b, slot[1])
  BY <1>2, <1>3, Known DEF IInv, AtPoint, Here, Sealed, LocalInv, Attempts,
    Faithful, SameBytes, Earned, Counted, Unsealed, PreflightStates
<1>6. pc' \in {"invoke", "preflight-metadata"} /\ mem' \in Locals
  BY <1>1, Known DEF Goto, Locals, PreflightStates
<1>7. att'[slot] = b => AtPoint'
  BY <1>1, <1>2, Known DEF Goto, locals, IInv, AtPoint, Here, Sealed, Attempts,
    Locals, PreflightStates, Trees
<1>8. UNCHANGED <<sources, runFiles, locals>> /\ faults' \in 0 .. MaxFaults
  BY <1>1 DEF Goto, IInv, TypeOK
<1> HIDE DEF b
<1> QED
  BY <1>2, <1>3, <1>4, <1>5, <1>6, <1>7, <1>8, Known, WritingStep

\* Preparing the workspace fails half-way.
LEMMA StepPrepareFails == ASSUME IInv, PrepareFails PROVE IInv'
<1>1. PICK tree \in {None, "base"} :
        att' = [att EXCEPT ![slot].workspace = tree]
  BY DEF PrepareFails
<1> DEFINE b == [att[slot] EXCEPT !.workspace = tree]
<1>2. pc = "prepare" /\ pc' = "preflight-metadata" /\ att' = [att EXCEPT ![slot] = b]
  BY <1>1, Known DEF PrepareFails, Goto
<1>3. b.state # "absent" /\ att[slot].state # "completed"
  BY <1>2, Known DEF IInv, AtPoint, Here, Attempts
<1>4. b \in Attempts
  BY Known DEF Attempts, OptTrees, Trees
<1>5. LocalInv(b, slot[1])
  BY <1>2, <1>3, Known DEF IInv, AtPoint, Here, Sealed, LocalInv, Attempts,
    Faithful, SameBytes, Earned, Counted, Unsealed, PreflightStates
<1>6. mem' \in Locals /\ faults' \in 0 .. MaxFaults
  BY Known DEF PrepareFails, Fault, Locals, PreflightStates, IInv, TypeOK
<1>7. att'[slot] = b => AtPoint'
  BY <1>2, Known DEF PrepareFails, Goto, locals, IInv, AtPoint, Here,
    Sealed, Attempts, Locals, PreflightStates
<1>8. UNCHANGED <<sources, runFiles, locals>>
  BY DEF PrepareFails, Goto
<1> HIDE DEF b
<1> QED
  BY <1>2, <1>3, <1>4, <1>5, <1>6, <1>7, <1>8, Known, WritingStep

\* The declared review material is installed as one set.
LEMMA StepSealMaterial == ASSUME IInv, SealMaterial PROVE IInv'
<1> DEFINE b == IF Shape[item].material
                THEN [att[slot] EXCEPT !.material = att[slot].workspace]
                ELSE att[slot]
<1>1. pc = "material" /\ pc' = "assertions" /\ att' = [att EXCEPT ![slot] = b]
  BY Known DEF SealMaterial, Goto
<1>2. b.state # "absent" /\ att[slot].state # "completed"
  BY <1>1, Known DEF IInv, AtPoint, Here, Attempts
<1>3. b \in Attempts
  BY Known DEF Attempts
<1>4. LocalInv(b, slot[1])
  BY <1>1, <1>2, Known DEF IInv, AtPoint, Here, Sealed, LocalInv, Attempts,
    Faithful, SameBytes, Earned, Counted, Unsealed, PreflightStates
<1>5. att'[slot] = b => AtPoint'
  BY <1>1, Known DEF SealMaterial, Goto, locals, IInv, AtPoint, Here, Sealed,
    Attempts
<1>6. mem' \in Locals /\ faults' \in 0 .. MaxFaults
  BY Known DEF SealMaterial, IInv, TypeOK
<1> HIDE DEF b
<1> QED
  BY <1>1, <1>2, <1>3, <1>4, <1>5, <1>6, Known, WritingStep DEF SealMaterial, Goto

\* A command assertion is run in a copy.
LEMMA StepRunCommand == ASSUME IInv, RunCommand PROVE IInv'
<1>1. PICK p \in BOOLEAN, m \in BOOLEAN :
        mem' = [mem EXCEPT !.passed = p, !.mutated = m,
                           !.commands = mem.commands + 1]
  <2>1. PICK passed \in BOOLEAN, mutated \in BOOLEAN :
          mem' = [mem EXCEPT !.passed = mem.passed /\ passed,
                             !.mutated = mem.mutated \/ mutated,
                             !.commands = mem.commands + 1]
    BY DEF RunCommand
  <2>2. (mem.passed /\ passed) \in BOOLEAN /\ (mem.mutated \/ mutated) \in BOOLEAN
    OBVIOUS
  <2> QED BY <2>1, <2>2
<1>2. mem' \in Locals
  <2>1. [mem EXCEPT !.passed = p] \in Locals
    BY Known DEF Locals
  <2>2. \A n \in Locals : [n EXCEPT !.mutated = m] \in Locals
    BY DEF Locals
  <2>3. \A n \in Locals, c \in Nat : [n EXCEPT !.commands = c] \in Locals
    BY DEF Locals
  <2>4. mem.commands + 1 \in Nat
    BY Known DEF Locals
  <2> QED BY <1>1, <2>1, <2>2, <2>3, <2>4, Zenon
<1>3. mem'.tree = mem.tree /\ mem'.process = mem.process
  BY <1>1, Known DEF Locals
<1>4. AtPoint'
  BY <1>3 DEF RunCommand, CommandsLeft, locals, IInv, AtPoint, Here, Sealed
<1> QED
  BY <1>2, <1>4, ReadingStep DEF RunCommand, CommandsLeft, IInv, TypeOK

\* An exception leaves run_attempt and no file is written on the way.
LEMMA RaisingStep ==
  ASSUME IInv, NEW error \in Errors, Raise(error), att' = att,
         pc \in AttemptPoints, Fault
  PROVE  IInv'
<1>1. mem' \in Locals /\ mem'.error = error
  BY Known DEF Raise, Locals
<1>2. AtPoint'
  BY <1>1 DEF Raise, AtPoint
<1> QED BY <1>1, <1>2, ReadingStep DEF Raise, Fault, IInv, TypeOK

\* git fails.
LEMMA StepGitFails == ASSUME IInv, GitFails PROVE IInv'
BY RaisingStep DEF GitFails, CommandsLeft, Errors

\* An interrupt in a command assertion whose group survives.
LEMMA StepInterruptCommand == ASSUME IInv, InterruptCommand PROVE IInv'
BY RaisingStep DEF InterruptCommand, CommandsLeft, Errors

\* An interrupt while the target runs: its group is terminated, or not.
LEMMA StepInterruptTarget == ASSUME IInv, InterruptTarget PROVE IInv'
<1>1. PICK state \in {"quiescent", "unproven"}, error \in {"interrupt", "cleanup"} :
        att' = [att EXCEPT ![slot].target = state] /\ Raise(error)
  BY DEF InterruptTarget
<1> DEFINE b == [att[slot] EXCEPT !.target = state]
<1>2. pc = "wait" /\ pc' = "raise" /\ att' = [att EXCEPT ![slot] = b]
  BY <1>1, Known DEF InterruptTarget, Raise
<1>3. b.state # "absent" /\ att[slot].state # "completed"
  BY <1>2, Known DEF IInv, AtPoint, Here, Attempts
<1>4. b \in Attempts
  BY Known DEF Attempts
<1>5. LocalInv(b, slot[1])
  BY <1>2, <1>3, Known DEF IInv, AtPoint, Here, Sealed, LocalInv, Attempts,
    Faithful, SameBytes, Earned, Counted, Unsealed, PreflightStates
<1>6. mem' \in Locals /\ mem'.error \in Errors /\ faults' \in 0 .. MaxFaults
  BY <1>1, Known DEF InterruptTarget, Raise, Fault, Locals, Errors, IInv, TypeOK
<1>7. AtPoint'
  BY <1>2, <1>6 DEF AtPoint
<1>8. UNCHANGED <<sources, runFiles, locals>>
  BY <1>1 DEF Raise
<1> HIDE DEF b
<1> QED
  BY <1>2, <1>3, <1>4, <1>5, <1>6, <1>7, <1>8, Known, WritingStep

-----------------------------------------------------------------------------
(* Steps of run_plan and of the environment *)

\* What the frame of these steps has in common: no attempt directory changes.
LEMMA FrameSlots ==
  ASSUME IInv, att' = att
  PROVE  /\ \A t \in Slots : LocalInv(att[t], t[1])'
         /\ Used' = Used /\ Done' = Done /\ att' \in [Slots -> Attempts]
BY Known DEF Used, Done, IInv

\* Items and attempt indices are numbers, for the solver.
LEMMA Numbers ==
  ASSUME IInv
  PROVE  item \in Nat /\ \A t \in Used : t[1] \in Nat /\ t[2] \in Nat
BY Known DEF Used, Slots, Items

\* The locals of a new process are well typed.
LEMMA NoLocalsType == NoLocals \in Locals
BY DEF NoLocals, Locals, OptTrees

\* A new run directory.
LEMMA StepStartFresh == ASSUME IInv, StartFresh PROVE IInv'
<1>1. att' = att /\ pc = "idle" /\ pc' = "summary" /\ UNCHANGED locals
  BY DEF StartFresh
<1>2. TypeOK' /\ AtPoint'
  BY <1>1, FrameSlots DEF StartFresh, TypeOK, AtPoint, IInv, sources, locals
<1>3. Fresh'
  BY <1>1, FrameSlots DEF StartFresh, Fresh, IInv, locals
<1> QED BY <1>1, <1>2, <1>3, FrameSlots DEF IInv

\* A resumed run.
LEMMA StepStartResume == ASSUME IInv, StartResume PROVE IInv'
<1>1. att' = att /\ pc = "idle" /\ pc' = "summary" /\ resume' = TRUE
  BY DEF StartResume
<1>2. TypeOK' /\ AtPoint'
  BY <1>1, FrameSlots DEF StartResume, TypeOK, AtPoint, IInv, sources, runFiles
<1>3. Fresh'
  BY <1>1, FrameSlots DEF StartResume, Fresh, IInv, runFiles
<1> QED BY <1>1, <1>2, <1>3, FrameSlots DEF IInv

\* The first summary.json of a process.
LEMMA StepWriteRunning == ASSUME IInv, WriteRunning PROVE IInv'
<1>1. att' = att /\ pc = "summary" /\ pc' = "loop" /\ UNCHANGED locals
  BY DEF WriteRunning
<1>2. summary' \in [state: SummaryStates \cup {None}, attempts: SUBSET Entries]
  BY DEF WriteRunning, SummaryStates
<1>3. TypeOK' /\ AtPoint'
  BY <1>1, <1>2, FrameSlots DEF WriteRunning, TypeOK, AtPoint, IInv, sources, locals
<1>4. Fresh'
  BY <1>1, FrameSlots DEF WriteRunning, Fresh, IInv, locals
<1> QED BY <1>1, <1>3, <1>4, FrameSlots DEF IInv

\* The entry a process copies from an attempt directory.
LEMMA EntryType ==
  ASSUME IInv, NEW s \in Slots
  PROVE  Entry(s) \in Entries
<1>1. att[s] \in Attempts
  BY Known
<1> QED BY <1>1 DEF Entry, Entries, Attempts

\* _completed_attempt finds the one completed attempt of the item.
LEMMA CompletedAttemptSlot ==
  ASSUME IInv, NEW i \in Items, CompletedSlots(i) # {}
  PROVE  CompletedAttempt(i) \in CompletedSlots(i)
<1>1. PICK s \in CompletedSlots(i) : TRUE
  OBVIOUS
<1>2. s \in Done /\ \A t \in CompletedSlots(i) : t \in Used /\ t[1] = s[1]
  BY <1>1 DEF CompletedSlots, Done, Used
<1>3. \A t \in CompletedSlots(i) : t[2] <= s[2]
  BY <1>2 DEF IInv, Fresh
<1> QED BY <1>1, <1>3 DEF CompletedAttempt

\* A completed item is skipped.
LEMMA StepSkipCompleted == ASSUME IInv, SkipCompleted PROVE IInv'
<1>1. /\ att' = att /\ pc = "loop" /\ pc' = "loop" /\ item \in Items
      /\ item' = item + 1 /\ resume
  BY DEF SkipCompleted, Skips
<1>2. Entry(CompletedAttempt(item)) \in Entries
  BY <1>1, CompletedAttemptSlot, EntryType DEF SkipCompleted, Skips, CompletedSlots
<1>3. TypeOK' /\ AtPoint'
  BY <1>1, <1>2, FrameSlots DEF SkipCompleted, TypeOK, AtPoint, IInv, sources,
    runFiles, Items
<1>4. Fresh'
  BY <1>1, FrameSlots DEF SkipCompleted, Fresh, IInv, runFiles
<1> QED BY <1>1, <1>3, <1>4, FrameSlots DEF IInv

\* A new attempt directory above all the directories of the item.
LEMMA StepBeginAttempt == ASSUME IInv, BeginAttempt PROVE IInv'
<1>1. PICK s \in Slots :
        /\ IsNextAttempt(s, item) /\ slot' = s
        /\ att' = [att EXCEPT ![s].state = "bare", ![s].prompt = caseNow]
  BY DEF BeginAttempt
<1> DEFINE b == [att[s] EXCEPT !.state = "bare", !.prompt = caseNow]
<1>2. /\ pc = "loop" /\ pc' = "metadata" /\ item \in Items /\ s[1] = item
      /\ att' = [att EXCEPT ![s] = b] /\ att[s].state = "absent"
  <2>1. s[2] \in s[2] .. MaxAttempts /\ s = <<s[1], s[2]>>
    BY DEF Slots
  <2> QED BY <1>1, <2>1, Known DEF BeginAttempt, IsNextAttempt
<1>3. LocalInv(att[s], s[1]) /\ att[s] \in Attempts
  BY Known DEF IInv
<1>4. b \in Attempts
  <2> DEFINE c == [att[s] EXCEPT !.state = "bare"]
  <2>1. c \in Attempts
    BY <1>3 DEF Attempts, AttemptStates
  <2>2. b = [c EXCEPT !.prompt = caseNow]
    OBVIOUS
  <2> HIDE DEF c, b
  <2> QED BY <2>1, <2>2, Known DEF Attempts, OptInputs
<1>5. LocalInv(b, s[1])
  BY <1>3, <1>2 DEF LocalInv, Attempts, Faithful, SameBytes, Earned, Counted,
    Unsealed, PreflightStates
<1>6. /\ b.state = "bare" /\ b.outcome = None /\ ~b.receipt.sealed
      /\ ~b.invoked /\ b.target = None /\ b.material = None
  BY <1>3, <1>2 DEF LocalInv, Attempts
<1> HIDE DEF b
<1>7. /\ att' \in [Slots -> Attempts] /\ att'[s] = b
      /\ \A t \in Slots : t # s => att'[t] = att[t]
      /\ \A t \in Slots : LocalInv(att[t], t[1])'
  BY <1>2, <1>4, <1>5, FrameAttempt
<1>8. Used' = Used \cup {s} /\ Done' = Done
  BY <1>2, <1>6, <1>7 DEF Used, Done
<1>9. mem' \in Locals
  BY NoLocalsType DEF BeginAttempt
<1>10. TypeOK'
  BY <1>1, <1>2, <1>7, <1>9 DEF BeginAttempt, TypeOK, IInv, sources, runFiles
<1>11. AtPoint'
  BY <1>1, <1>2, <1>6, <1>7 DEF BeginAttempt, AtPoint, Here, Sealed
<1>12. \A t \in Used : t[1] = item => t[2] < s[2]
  <2> SUFFICES ASSUME NEW t \in Used, t[1] = item, ~(t[2] < s[2]) PROVE FALSE
    OBVIOUS
  <2>1. t = <<item, t[2]>> /\ t[2] \in s[2] .. MaxAttempts
    BY DEF Used, Slots
  <2> QED BY <1>1, <2>1 DEF IsNextAttempt, Used
<1>13. s \in Slots /\ item \in Nat /\ \A t \in Used : t[1] \in Nat /\ t[2] \in Nat
  BY Numbers
<1>14. \A t \in Done : t[1] # item
  <2>1. CASE resume
    BY <2>1 DEF BeginAttempt, Skips, CompletedSlots, Done
  <2>2. CASE ~resume
    <3>1. Done \subseteq Used
      BY DEF Done, Used
    <3>2. \A t \in Used : t[1] < item
      BY <1>2, <2>2 DEF IInv, Fresh
    <3> QED BY <1>13, <3>1, <3>2
  <2> QED BY <2>1, <2>2
<1>15. Fresh'
  <2>1. /\ UNCHANGED <<runDir, summary, item, resume>> /\ slot' = s /\ runDir
    BY <1>1, <1>2 DEF BeginAttempt, runFiles, IInv, Fresh
  <2>2. \A u \in Done', t \in Used' : t[1] = u[1] => t[2] <= u[2]
    BY <1>2, <1>8, <1>14 DEF IInv, Fresh
  <2>3. \A t \in Used' : t[1] = item => t[2] <= s[2]
    BY <1>8, <1>12, <1>13 DEF Slots
  <2>4. ~resume => \A t \in Used' : t[1] < item \/ t[1] = item
    BY <1>2, <1>8 DEF IInv, Fresh
  <2> QED BY <1>2, <1>8, <1>14, <2>1, <2>2, <2>3, <2>4 DEF Fresh
<1> QED BY <1>7, <1>10, <1>11, <1>15 DEF IInv

\* The finished attempt is listed; a failed preflight stops the loop.
LEMMA StepRecordAttempt == ASSUME IInv, RecordAttempt PROVE IInv'
<1>1. /\ att' = att /\ pc = "record" /\ UNCHANGED <<runDir, slot, resume>>
      /\ item \in Items /\ slot[1] = item
      /\ \/ pc' = "loop" /\ item' = item + 1
         \/ pc' = "stop" /\ item' = item /\ att[slot].state \in PreflightStates
  BY DEF RecordAttempt, StopsMatrix, IInv, AtPoint
<1>2. appended' \in SUBSET Entries
  BY EntryType, Known DEF RecordAttempt, IInv, TypeOK
<1>3. summary' \in [state: SummaryStates \cup {None}, attempts: SUBSET Entries]
  BY <1>2 DEF RecordAttempt, IInv, TypeOK
<1>4. TypeOK'
  BY <1>1, <1>2, <1>3, FrameSlots DEF RecordAttempt, TypeOK, IInv, sources, Items
<1>5. AtPoint'
  BY <1>1 DEF AtPoint, IInv, Here, PreflightStates
<1>6. Fresh'
  <2>1. CASE pc' = "loop"
    BY <1>1, <2>1, FrameSlots, Numbers DEF Fresh, IInv
  <2>2. CASE pc' = "stop"
    BY <1>1, <2>2, FrameSlots DEF Fresh, IInv
  <2> QED BY <1>1, <2>1, <2>2
<1> QED BY <1>1, <1>4, <1>5, <1>6, FrameSlots DEF IInv

\* The process ends, whatever the summary is left with.
LEMMA ExitingStep ==
  ASSUME IInv, Exit, pc # "idle", faults' \in 0 .. MaxFaults,
         summary' \in [state: SummaryStates \cup {None}, attempts: SUBSET Entries]
  PROVE  IInv'
<1>1. mem' \in Locals /\ item' \in 1 .. NumItems + 1 /\ slot' \in Slots
  BY NoLocalsType DEF Exit, FirstSlot, Slots, Items
<1>2. TypeOK'
  BY <1>1, FrameSlots DEF Exit, TypeOK, IInv, sources
<1>3. AtPoint' /\ Fresh'
  BY FrameSlots DEF Exit, AtPoint, Fresh, IInv
<1> QED BY <1>2, <1>3, FrameSlots DEF IInv, Exit

\* The run ends with the state of the failed preflight.
LEMMA StepStopRun == ASSUME IInv, StopRun PROVE IInv'
<1>1. att[slot].state \in SummaryStates
  BY DEF StopRun, IInv, AtPoint, Here, SummaryStates
<1> QED BY <1>1, ExitingStep DEF StopRun, IInv, TypeOK

\* The run is completed.
LEMMA StepFinishRun == ASSUME IInv, FinishRun PROVE IInv'
BY ExitingStep DEF FinishRun, IInv, TypeOK, SummaryStates

\* An except clause writes the last summary.
LEMMA StepHandleError == ASSUME IInv, HandleError PROVE IInv'
<1>1. SummaryState(mem.error) \in SummaryStates
  BY DEF HandleError, IInv, AtPoint, Errors, SummaryState, SummaryStates
<1> QED BY <1>1, ExitingStep DEF HandleError, IInv, TypeOK

\* The process dies.
LEMMA StepCrash == ASSUME IInv, Crash PROVE IInv'
BY ExitingStep DEF Crash, Fault, IInv, TypeOK

\* An interrupt outside process.py.
LEMMA StepInterrupt == ASSUME IInv, Interrupt PROVE IInv'
<1>1. mem' \in Locals /\ mem'.error \in Errors
  BY Known DEF Interrupt, Raise, Locals, Errors
<1>2. AtPoint'
  BY <1>1 DEF Interrupt, Raise, AtPoint
<1>3. TypeOK'
  BY <1>1, FrameSlots DEF Interrupt, Raise, Fault, TypeOK, IInv, sources,
    runFiles, locals
<1>4. Fresh'
  <2>1. /\ att' = att /\ pc' = "raise" /\ pc # "idle"
        /\ UNCHANGED <<runFiles, locals>>
    BY DEF Interrupt, Raise
  <2> QED BY <2>1, FrameSlots DEF Fresh, IInv, runFiles, locals
<1> QED BY <1>2, <1>3, <1>4, FrameSlots DEF Interrupt, IInv

\* A surviving target writes into the workspace of any attempt.
LEMMA StepTargetWrites ==
  ASSUME IInv, NEW s \in Slots, TargetWrites(s)
  PROVE  IInv'
<1>1. PICK tree \in {"edited", "later"} :
        att' = [att EXCEPT ![s].workspace = tree]
  BY DEF TargetWrites
<1> DEFINE b == [att[s] EXCEPT !.workspace = tree]
<1>2. att[s] \in Attempts /\ LocalInv(att[s], s[1])
  BY Known DEF IInv
<1>3. att' = [att EXCEPT ![s] = b] /\ att[s].target \in {"live", "unproven"}
  BY <1>1, Known DEF TargetWrites
<1>4. b \in Attempts
  BY <1>2 DEF Attempts, OptTrees, Trees
<1>5. LocalInv(b, s[1])
  BY <1>2, <1>3 DEF LocalInv, Attempts, Faithful, SameBytes, Earned, Counted,
    Unsealed
<1>6. /\ b.state = att[s].state /\ b.workspace \in Trees
      /\ b = [att[s] EXCEPT !.workspace = b.workspace]
  BY <1>2 DEF Attempts, Trees
<1> HIDE DEF b
<1>7. /\ att' \in [Slots -> Attempts] /\ att'[s] = b
      /\ \A t \in Slots : t # s => att'[t] = att[t]
      /\ \A t \in Slots : LocalInv(att[t], t[1])'
  BY <1>3, <1>4, <1>5, FrameAttempt
<1>8. Used' = Used /\ Done' = Done
  BY <1>6, <1>7 DEF Used, Done
<1>9. UNCHANGED <<sources, runFiles, pc, locals, mem, faults>>
  BY DEF TargetWrites
<1>10. TypeOK'
  BY <1>7, <1>9 DEF TypeOK, IInv, sources, runFiles, locals
<1>11. Fresh'
  BY <1>8, <1>9 DEF Fresh, IInv, runFiles, locals
<1>13. AtPoint'
  <2>1. CASE slot # s
    BY <1>7, <1>9, <2>1, Known DEF IInv, AtPoint, Here, Sealed, locals,
      Verdict, Outcome, VerifiedOutcome
  <2>2. CASE slot = s
    <3>1. pc \notin SealingPoints
      BY <1>3, <2>2 DEF IInv, AtPoint, Here
    <3> QED
      BY <1>2, <1>6, <1>7, <1>9, <2>2, <3>1 DEF IInv, AtPoint, Here, Sealed,
        locals, Attempts
  <2> QED BY <2>1, <2>2
<1> QED BY <1>7, <1>10, <1>11, <1>13 DEF IInv

\* Somebody edits or restores the sources of the lab.
LEMMA StepSources ==
  ASSUME IInv, EditSources \/ RestoreSources
  PROVE  IInv'
<1>1. /\ UNCHANGED <<overlaps, runFiles, att, pc, locals, mem>>
      /\ subjectNow' \in Inputs /\ caseNow' \in Inputs /\ faults' \in 0 .. MaxFaults
  BY DEF EditSources, RestoreSources, Fault, Inputs, IInv, TypeOK
<1>2. TypeOK'
  BY <1>1 DEF TypeOK, IInv, runFiles, locals
<1>3. AtPoint'
  BY <1>1 DEF AtPoint, IInv, Here, Sealed, locals, Verdict, Outcome, VerifiedOutcome
<1>4. Fresh'
  BY <1>1, FrameSlots DEF Fresh, IInv, runFiles, locals
<1> QED BY <1>1, <1>2, <1>3, <1>4, FrameSlots DEF IInv

-----------------------------------------------------------------------------
(* The inductive invariant and what follows from it *)

\* The invariant holds before the first run.
LEMMA InitInv == Init => IInv
<1> SUFFICES ASSUME Init PROVE IInv
  OBVIOUS
<1>1. NoAttempt \in Attempts
  BY DEF NoAttempt, Attempts, AttemptStates, NoReceipt, Receipts, OptInputs,
    OptTrees
<1>2. FirstSlot \in Slots /\ 1 \in 1 .. NumItems + 1 /\ 0 \in 0 .. MaxFaults
  BY DEF FirstSlot, Slots, Items
<1>3. TypeOK
  BY <1>1, <1>2, NoLocalsType DEF Init, TypeOK, NoSummary, Inputs
<1>4. AtPoint
  BY DEF Init, AtPoint
<1>5. ASSUME NEW s \in Slots PROVE LocalInv(att[s], s[1])
  <2>1. att[s] = NoAttempt
    BY DEF Init
  <2>2. LocalInv(NoAttempt, s[1])
    BY DEF NoAttempt, NoReceipt, LocalInv, Faithful, SameBytes, Earned,
      Counted, Unsealed, PreflightStates
  <2> QED BY <2>1, <2>2
<1>6. Fresh
  <2>1. Used = {} /\ Done = {}
    BY DEF Init, Used, Done, NoAttempt
  <2> QED BY <2>1 DEF Init, Fresh, NoSummary
<1> QED BY <1>3, <1>4, <1>5, <1>6 DEF IInv

\* Nothing changes.
LEMMA StutterInv == IInv /\ UNCHANGED vars => IInv'
<1> SUFFICES ASSUME IInv, UNCHANGED vars PROVE IInv'
  OBVIOUS
<1>1. TypeOK'
  BY DEF IInv, TypeOK, vars
<1>2. AtPoint'
  BY DEF IInv, AtPoint, vars, Here, Sealed, Verdict, Outcome, VerifiedOutcome
<1>3. Fresh'
  BY FrameSlots DEF IInv, Fresh, vars
<1> QED BY <1>1, <1>2, <1>3, FrameSlots DEF IInv, vars

\* Every step keeps the invariant.
LEMMA NextInv == IInv /\ [Next]_vars => IInv'
<1> SUFFICES ASSUME IInv, [Next]_vars PROVE IInv'
  OBVIOUS
<1>1. CASE RunPlan
  BY <1>1, StepWriteRunning, StepSkipCompleted, StepBeginAttempt,
    StepRecordAttempt, StepStopRun, StepFinishRun, StepHandleError DEF RunPlan
<1>2. CASE Preflight
  BY <1>2, StepWriteMetadata, StepPrepareWorkspace, StepWritePreflightMetadata,
    StepWritePreflightVerification, StepWritePreflightReceipt DEF Preflight
<1>3. CASE RunAttempt
  BY <1>3, StepCommitInvocation, StepLaunchTarget, StepTargetQuiescent,
    StepWriteTerminationFailure, StepCaptureDiff, StepDigestTree,
    StepSealMaterial, StepWriteEvidenceFailure, StepEvaluateAssertions,
    StepRunCommand, StepWriteVerification, StepWriteCompleted,
    StepWriteReceipt, StepRemoveWorkspace DEF RunAttempt
<1>4. CASE Failure
  BY <1>4, StepPrepareFails, StepTargetUnproven, StepMaterialFails,
    StepGitFails, StepInterrupt, StepInterruptTarget, StepInterruptCommand,
    StepCrash DEF Failure
<1>5. CASE Environment
  BY <1>5, StepSources, StepTargetWrites DEF Environment
<1>6. CASE StartFresh \/ StartResume
  BY <1>6, StepStartFresh, StepStartResume
<1>7. CASE UNCHANGED vars
  BY <1>7, StutterInv
<1> QED BY <1>1, <1>2, <1>3, <1>4, <1>5, <1>6, <1>7 DEF Next, Progress

\* So it holds in every reachable state.
LEMMA Invariant == Spec => []IInv
BY InitInv, NextInv, PTL DEF Spec

\* The variables keep their types: no process leaves a half-built record, and
\* every state a summary or a metadata.json may name is one the code knows.
THEOREM TypeCorrect == Spec => []TypeOK
<1>1. IInv => TypeOK
  BY DEF IInv
<1> QED BY <1>1, Invariant, PTL

\* For every matrix and any number of crashes, interrupts, resumes and edits: a
\* receipt keeps the digests of the artifacts beside it.
THEOREM ReceiptsStayFaithful == Spec => []ReceiptFaithful
<1>1. IInv => ReceiptFaithful
  BY DEF IInv, LocalInv, ReceiptFaithful
<1> QED BY <1>1, Invariant, PTL

\* The diff, tree, material and kept workspace under one receipt are the same
\* bytes, read after the target group was proven dead.
THEOREM SealedBytesAlwaysAgree == Spec => []SealedBytesAgree
<1>1. IInv => SealedBytesAgree
  BY DEF IInv, LocalInv, SealedBytesAgree
<1> QED BY <1>1, Invariant, PTL

\* No attempt says pass unless the planned subject was mounted, the target
\* exited 0 and quiescent, and the verification of those bytes supports it.
THEOREM PassIsAlwaysEarned == Spec => []PassIsEarned
<1>1. IInv => PassIsEarned
  BY DEF IInv, LocalInv, PassIsEarned
<1> QED BY <1>1, Invariant, PTL

\* A target that was ever started is counted on disk, whatever killed the
\* process that started it.
THEOREM SpendIsAlwaysRecorded == Spec => []SpendRecorded
<1>1. IInv => SpendRecorded
  BY DEF IInv, LocalInv, SpendRecorded
<1> QED BY <1>1, Invariant, PTL

\* Attempts that failed to terminate or to build their evidence are never
\* sealed, also not by a later --resume.
THEOREM FailedAttemptsStayUnsealed == Spec => []FailedAttemptUnsealed
<1>1. IInv => FailedAttemptUnsealed
  BY DEF IInv, LocalInv, FailedAttemptUnsealed
<1> QED BY <1>1, Invariant, PTL

\* A completed attempt is the last attempt of its item for ever.
THEOREM CompletionIsAlwaysFinal == Spec => []CompletionIsFinal
<1>1. IInv => CompletionIsFinal
  <2> SUFFICES ASSUME IInv, NEW s \in Slots, NEW t \in Slots,
                      att[s].state = "completed", t[1] = s[1], t[2] > s[2],
                      att[t].state # "absent"
               PROVE  FALSE
    BY DEF CompletionIsFinal
  <2>1. s \in Done /\ t \in Used /\ s[2] \in Nat /\ t[2] \in Nat
    BY DEF Done, Used, Slots
  <2> QED BY <2>1 DEF IInv, Fresh
<1> QED BY <1>1, Invariant, PTL
=============================================================================
