------------------------- MODULE RunnerLedgerProofs -------------------------
(***************************************************************************)
(* Theorems about the list of attempts that run_plan keeps in memory and   *)
(* writes to summary.json: it covers the matrix, a preflight failure ends  *)
(* it, and no target is started twice for one item of a run.               *)
(*                                                                         *)
(* The list repeats entries of metadata.json, so the argument needs that   *)
(* completed metadata never change again (DoneStable), and the invariant   *)
(* Ledger, which relates the list to the position in the matrix.           *)
(* Two accounts follow: Budget charges each attempt that came to nothing   *)
(* to the fault that cost it, and Nearer shows that every command ends.    *)
(***************************************************************************)
EXTENDS RunnerProofs, FiniteSetTheorems, WellFoundedInduction

USE NumItemsAssumption, MaxAttemptsAssumption, ShapeAssumption
USE DEF None, AttemptPoints, OpenPoints, InvokedPoints, CheckPoints,
        SealingPoints, FilePoints, PreflightPoints

\* entries lists exactly one attempt, completed on disk, for each item 1 .. n.
Covers(entries, n) ==
  /\ \A e \in entries : /\ e.slot \in Done /\ e.slot[1] \in 1 .. n
                        /\ e = Entry(e.slot)
  /\ \A i \in 1 .. n : \E e \in entries : e.slot[1] = i
  /\ \A e, f \in entries : e.slot[1] = f.slot[1] => e = f

Ledger ==
  /\ pc \in {"idle", "summary"} => appended = {} /\ item = 1
  /\ pc \in {"loop"} \cup OpenPoints \cup {"cleanup", "record"} =>
       Covers(appended, item - 1)
  /\ pc \in {"cleanup", "record"} =>
       Here.state \in {"completed"} \cup PreflightStates
  /\ pc = "wait" => Here.target = "live"
  /\ pc \notin {"idle", "summary"} => summary.state = "running"
  /\ summary.state = "completed" => Covers(summary.attempts, NumItems)

\* No step changes the state or the outcome of a completed attempt.
DoneStable ==
  \A s \in Done : att'[s].state = "completed" /\ att'[s].outcome = att[s].outcome

\* Before its receipt is due, an attempt in progress is not completed.
LEMMA NotYetCompleted ==
  ASSUME IInv, pc \in OpenPoints \ {"receipt"}
  PROVE  att[slot].state # "completed"
<1>1. CASE pc \in FilePoints
  <2>1. att[slot].state = mem.preflight /\ mem.preflight \in PreflightStates
    BY <1>1 DEF IInv, AtPoint, Here
  <2> QED BY <2>1 DEF PreflightStates
<1>2. CASE pc \notin FilePoints
  BY <1>2 DEF IInv, AtPoint, Here
<1> QED BY <1>1, <1>2

\* The steps that write the attempt in progress and nothing else.
LEMMA OtherAttemptsStay ==
  ASSUME IInv, Preflight \/ RunAttempt \/ PrepareFails \/ TargetUnproven
                    \/ InterruptTarget
  PROVE  \A t \in Slots : t # slot => att'[t] = att[t]
<1> SUFFICES ASSUME NEW t \in Slots, t # slot PROVE att'[t] = att[t]
  OBVIOUS
<1>1. att \in [Slots -> Attempts]
  BY Known
<1>2. CASE Preflight
  BY <1>1, <1>2 DEF Preflight, WriteMetadata, PrepareWorkspace,
    WritePreflightMetadata, WritePreflightVerification, WritePreflightReceipt
<1>3. CASE RunAttempt
  <2>1. CASE CommitInvocation \/ LaunchTarget \/ TargetQuiescent \/ CaptureDiff
               \/ DigestTree \/ SealMaterial \/ EvaluateAssertions
    BY <1>1, <2>1 DEF CommitInvocation, LaunchTarget, TargetQuiescent,
      CaptureDiff, DigestTree, SealMaterial, EvaluateAssertions
  <2>2. CASE WriteTerminationFailure \/ WriteEvidenceFailure \/ RunCommand
    BY <1>1, <2>2 DEF WriteTerminationFailure, WriteEvidenceFailure, RunCommand
  <2>3. CASE WriteVerification \/ WriteCompleted \/ WriteReceipt \/ RemoveWorkspace
    BY <1>1, <2>3 DEF WriteVerification, WriteCompleted, WriteReceipt,
      RemoveWorkspace
  <2> QED BY <1>3, <2>1, <2>2, <2>3 DEF RunAttempt
<1>4. CASE PrepareFails \/ TargetUnproven \/ InterruptTarget
  BY <1>1, <1>4 DEF PrepareFails, TargetUnproven, InterruptTarget
<1> QED BY <1>2, <1>3, <1>4

\* Every step leaves the completed attempts as they are.
LEMMA StepDoneStable == ASSUME IInv, Next PROVE DoneStable
<1>1. CASE att' = att
  BY <1>1 DEF DoneStable, Done
<1>2. CASE Preflight \/ RunAttempt \/ PrepareFails \/ TargetUnproven \/ InterruptTarget
  <2>1. pc \in OpenPoints \ {"receipt"} \/ WriteReceipt \/ RemoveWorkspace
    <3>1. CASE Preflight
      BY <3>1 DEF Preflight, WriteMetadata, PrepareWorkspace,
        WritePreflightMetadata, WritePreflightVerification,
        WritePreflightReceipt, Goto
    <3>2. CASE PrepareFails \/ TargetUnproven \/ InterruptTarget
      BY <3>2 DEF PrepareFails, TargetUnproven, InterruptTarget, Goto
    <3>3. CASE RunAttempt
      <4>1. CASE CommitInvocation \/ LaunchTarget \/ TargetQuiescent \/ CaptureDiff
        BY <4>1 DEF CommitInvocation, LaunchTarget, TargetQuiescent,
          CaptureDiff, Goto
      <4>2. CASE DigestTree \/ SealMaterial \/ EvaluateAssertions
        BY <4>2 DEF DigestTree, SealMaterial, EvaluateAssertions, Goto
      <4>3. CASE WriteTerminationFailure \/ WriteEvidenceFailure \/ RunCommand
        BY <4>3 DEF WriteTerminationFailure, WriteEvidenceFailure, RunCommand,
          CommandsLeft
      <4>4. CASE WriteVerification \/ WriteCompleted
        BY <4>4 DEF WriteVerification, WriteCompleted, Goto
      <4> QED BY <3>3, <4>1, <4>2, <4>3, <4>4 DEF RunAttempt
    <3> QED BY <1>2, <3>1, <3>2, <3>3
  <2>2. CASE pc \in OpenPoints \ {"receipt"}
    <3>1. slot \notin Done
      BY <2>2, NotYetCompleted DEF Done
    <3>2. \A t \in Done : att'[t] = att[t]
      BY <1>2, <3>1, OtherAttemptsStay DEF Done
    <3> QED BY <3>2 DEF DoneStable, Done
  <2>3. CASE WriteReceipt \/ RemoveWorkspace
    <3>1. att'[slot].state = att[slot].state /\ att'[slot].outcome = att[slot].outcome
      BY <2>3, Known DEF WriteReceipt, RemoveWorkspace, Attempts
    <3>2. \A t \in Slots : t # slot => att'[t] = att[t]
      BY <1>2, OtherAttemptsStay
    <3> QED BY <3>1, <3>2 DEF DoneStable, Done
  <2> QED BY <2>1, <2>2, <2>3
<1>3. CASE BeginAttempt
  <2>1. PICK s \in Slots :
          /\ IsNextAttempt(s, item)
          /\ att' = [att EXCEPT ![s].state = "bare", ![s].prompt = caseNow]
    BY <1>3 DEF BeginAttempt
  <2>2. att[s].state = "absent"
    <3>1. s[2] \in s[2] .. MaxAttempts /\ s = <<s[1], s[2]>>
      BY DEF Slots
    <3> QED BY <2>1, <3>1 DEF IsNextAttempt
  <2> QED BY <2>1, <2>2, Known DEF DoneStable, Done
<1>4. CASE \E s \in Slots : TargetWrites(s)
  <2>1. PICK s \in Slots : TargetWrites(s)
    BY <1>4
  <2>2. /\ att'[s].state = att[s].state /\ att'[s].outcome = att[s].outcome
        /\ \A t \in Slots : t # s => att'[t] = att[t]
    BY <2>1, Known DEF TargetWrites, Attempts
  <2> QED BY <2>2 DEF DoneStable, Done
<1>5. CASE MaterialFails \/ GitFails \/ Interrupt \/ InterruptCommand \/ Crash
  BY <1>1, <1>5 DEF MaterialFails, GitFails, Interrupt, InterruptCommand,
    Crash, Exit
<1>6. CASE RunPlan /\ ~BeginAttempt
  BY <1>1, <1>6 DEF RunPlan, WriteRunning, SkipCompleted, RecordAttempt,
    StopRun, FinishRun, HandleError, Exit
<1>7. CASE StartFresh \/ StartResume \/ EditSources \/ RestoreSources
  BY <1>1, <1>7 DEF StartFresh, StartResume, EditSources, RestoreSources
<1> QED
  BY <1>2, <1>3, <1>4, <1>5, <1>6, <1>7 DEF Next, Progress, Failure, Environment

\* A list that covered the matrix goes on covering it.
LEMMA CoversStable ==
  ASSUME IInv, DoneStable, att' \in [Slots -> Attempts], NEW entries, NEW n,
         Covers(entries, n)
  PROVE  Covers(entries, n)'
<1>1. \A s \in Done : s \in Done' /\ Entry(s)' = Entry(s)
  BY Known DEF DoneStable, Done, Entry
<1> QED BY <1>1 DEF Covers

-----------------------------------------------------------------------------
(* Ledger is an invariant *)

\* Where the list covers all the items before the current one.
ListPoints == {"loop"} \cup OpenPoints \cup {"cleanup", "record"}

\* What every step may assume of the next state.
LEMMA StepKnown ==
  ASSUME IInv, Next
  PROVE  IInv' /\ DoneStable /\ att' \in [Slots -> Attempts]
<1>1. IInv'
  BY NextInv
<1> QED BY <1>1, StepDoneStable DEF IInv, TypeOK

\* A step that leaves the list, the summary and the position alone.
LEMMA LedgerFrame ==
  ASSUME IInv, Ledger, Next, UNCHANGED <<appended, summary, item>>,
         pc \notin {"idle", "summary"}, pc' \notin {"idle", "summary"},
         pc' \in ListPoints => pc \in ListPoints,
         pc' \in {"cleanup", "record"} =>
           att'[slot'].state \in {"completed"} \cup PreflightStates,
         pc' = "wait" => att'[slot'].target = "live"
  PROVE  Ledger'
<1>1. pc' \in ListPoints => Covers(appended, item - 1)'
  <2> SUFFICES ASSUME pc' \in ListPoints PROVE Covers(appended, item - 1)'
    OBVIOUS
  <2>1. Covers(appended, item - 1)
    BY DEF Ledger, ListPoints
  <2> QED BY <2>1, StepKnown, CoversStable
<1>2. summary'.state = "completed" => Covers(summary.attempts, NumItems)'
  <2> SUFFICES ASSUME summary'.state = "completed"
               PROVE  Covers(summary.attempts, NumItems)'
    OBVIOUS
  <2>1. Covers(summary.attempts, NumItems)
    BY DEF Ledger
  <2> QED BY <2>1, StepKnown, CoversStable
<1> QED BY <1>1, <1>2 DEF Ledger, ListPoints, Here

\* The steps up to a failed preflight.
LEMMA LedgerPreflight == ASSUME IInv, Ledger, Preflight PROVE Ledger'
<1>1. UNCHANGED <<appended, summary, item, slot>> /\ Next
  BY DEF Preflight, WriteMetadata, PrepareWorkspace, WritePreflightMetadata,
    WritePreflightVerification, WritePreflightReceipt, Goto, runFiles, locals,
    Next, Progress
<1>2. \/ pc \in ListPoints /\ pc' \in OpenPoints \ {"wait"}
      \/ WritePreflightReceipt
  BY DEF Preflight, WriteMetadata, PrepareWorkspace, WritePreflightMetadata,
    WritePreflightVerification, Goto, ListPoints
<1>3. CASE WritePreflightReceipt
  <2>1. pc = "preflight-receipt" /\ pc' = "cleanup"
    BY <1>3 DEF WritePreflightReceipt, Goto
  <2>2. att[slot].state \in PreflightStates
    BY <2>1 DEF IInv, AtPoint, Here
  <2>3. att'[slot].state = att[slot].state
    BY <1>3, Known DEF WritePreflightReceipt, Attempts
  <2> QED BY <1>1, <2>1, <2>2, <2>3, LedgerFrame DEF ListPoints
<1> QED BY <1>1, <1>2, <1>3, LedgerFrame DEF ListPoints

\* The steps of an attempt that reaches its target.
LEMMA LedgerRunAttempt == ASSUME IInv, Ledger, RunAttempt PROVE Ledger'
<1>1. Next
  BY DEF Next, Progress
<1>2. CASE LaunchTarget
  <2>1. att'[slot].target = "live"
    BY <1>2, Known DEF LaunchTarget, Attempts
  <2> QED
    BY <1>1, <1>2, <2>1, LedgerFrame DEF LaunchTarget, Goto, runFiles, locals,
      ListPoints
<1>3. CASE WriteReceipt \/ RemoveWorkspace
  <2>1. att'[slot].state = att[slot].state
    BY <1>3, Known DEF WriteReceipt, RemoveWorkspace, Attempts
  <2>2. /\ pc \in {"receipt", "cleanup"} /\ pc' \in {"cleanup", "record"}
        /\ UNCHANGED <<appended, summary, item, slot>>
    BY <1>3 DEF WriteReceipt, RemoveWorkspace, Goto, runFiles, locals
  <2>3. att[slot].state \in {"completed"} \cup PreflightStates
    BY <2>2 DEF IInv, AtPoint, Here, Ledger
  <2> QED BY <1>1, <2>1, <2>2, <2>3, LedgerFrame DEF ListPoints
<1>4. CASE WriteTerminationFailure \/ WriteEvidenceFailure
  BY <1>1, <1>4, LedgerFrame DEF WriteTerminationFailure, WriteEvidenceFailure,
    Raise, runFiles, locals, ListPoints
<1>5. CASE CommitInvocation \/ TargetQuiescent \/ CaptureDiff \/ DigestTree
  BY <1>1, <1>5, LedgerFrame DEF CommitInvocation, TargetQuiescent, CaptureDiff,
    DigestTree, Goto, runFiles, locals, ListPoints
<1>6. CASE SealMaterial \/ EvaluateAssertions \/ WriteVerification \/ WriteCompleted
  BY <1>1, <1>6, LedgerFrame DEF SealMaterial, EvaluateAssertions,
    WriteVerification, WriteCompleted, Goto, runFiles, locals, ListPoints
<1>7. CASE RunCommand
  BY <1>1, <1>7, LedgerFrame DEF RunCommand, CommandsLeft, runFiles, locals,
    ListPoints
<1> QED BY <1>2, <1>3, <1>4, <1>5, <1>6, <1>7 DEF RunAttempt

\* The process ends without having written a summary that says completed.
LEMMA LedgerExit ==
  ASSUME IInv, Ledger, Next, Exit, summary' = summary \/ summary'.state # "completed"
  PROVE  Ledger'
<1>1. summary'.state = "completed" => Covers(summary.attempts, NumItems)'
  <2> SUFFICES ASSUME summary'.state = "completed", summary' = summary
               PROVE  Covers(summary.attempts, NumItems)'
    OBVIOUS
  <2>1. Covers(summary.attempts, NumItems)
    BY DEF Ledger
  <2> QED BY <2>1, StepKnown, CoversStable
<1> QED BY <1>1 DEF Ledger, Exit

\* The faults.
LEMMA LedgerFailure == ASSUME IInv, Ledger, Failure PROVE Ledger'
<1>1. Next
  BY DEF Next
<1>2. CASE PrepareFails \/ TargetUnproven \/ MaterialFails
  BY <1>1, <1>2, LedgerFrame DEF PrepareFails, TargetUnproven, MaterialFails,
    NotQuiescent, Goto, runFiles, locals, ListPoints
<1>3. CASE GitFails \/ Interrupt \/ InterruptTarget \/ InterruptCommand
  <2>1. /\ pc \notin {"idle", "summary"} /\ pc' = "raise"
        /\ UNCHANGED <<appended, summary, item>>
    BY <1>3 DEF GitFails, Interrupt, InterruptTarget, InterruptCommand, Raise,
      CommandsLeft, runFiles, locals
  <2> QED BY <1>1, <2>1, LedgerFrame DEF ListPoints
<1>4. CASE Crash
  BY <1>1, <1>4, LedgerExit DEF Crash
<1> QED BY <1>2, <1>3, <1>4 DEF Failure

\* Other processes.
LEMMA LedgerEnvironment == ASSUME IInv, Ledger, Environment PROVE Ledger'
<1>1. Next
  BY DEF Next
<1>2. UNCHANGED <<pc, slot, item, appended, summary>>
  BY DEF Environment, EditSources, RestoreSources, TargetWrites, runFiles, locals
<1>3. \A s \in Slots : att'[s].state = att[s].state /\ att'[s].target = att[s].target
  BY Known DEF Environment, EditSources, RestoreSources, TargetWrites, Attempts
<1>4. /\ pc' \in {"cleanup", "record"} =>
           att'[slot'].state \in {"completed"} \cup PreflightStates
      /\ pc' = "wait" => att'[slot'].target = "live"
  BY <1>2, <1>3, Known DEF Ledger, Here
<1>5. CASE pc \notin {"idle", "summary"}
  BY <1>1, <1>2, <1>4, <1>5, LedgerFrame
<1>6. CASE pc \in {"idle", "summary"}
  <2>1. summary'.state = "completed" => Covers(summary.attempts, NumItems)'
    <3> SUFFICES ASSUME summary'.state = "completed"
                 PROVE  Covers(summary.attempts, NumItems)'
      OBVIOUS
    <3>1. Covers(summary.attempts, NumItems)
      BY <1>2 DEF Ledger
    <3> QED BY <1>1, <1>2, <3>1, StepKnown, CoversStable
  <2> QED BY <1>2, <1>6, <2>1 DEF Ledger
<1> QED BY <1>5, <1>6

\* A new process starts with an empty list.
LEMMA LedgerStart == ASSUME IInv, Ledger, StartFresh \/ StartResume PROVE Ledger'
<1>1. /\ pc = "idle" /\ pc' = "summary" /\ UNCHANGED <<appended, item, summary>>
      /\ Next
  BY DEF StartFresh, StartResume, runFiles, locals, Next
<1>2. summary'.state = "completed" => Covers(summary.attempts, NumItems)'
  <2> SUFFICES ASSUME summary'.state = "completed"
               PROVE  Covers(summary.attempts, NumItems)'
    OBVIOUS
  <2>1. Covers(summary.attempts, NumItems)
    BY <1>1 DEF Ledger
  <2> QED BY <1>1, <2>1, StepKnown, CoversStable
<1> QED BY <1>1, <1>2 DEF Ledger

\* One more item is listed by a completed attempt.
LEMMA CoversNext ==
  ASSUME IInv, NEW entries, Covers(entries, item - 1), item \in Items,
         NEW s \in Done, s[1] = item
  PROVE  Covers(entries \cup {Entry(s)}, item)
<1>1. Entry(s).slot = s /\ item \in Nat \ {0}
  BY Numbers DEF Entry, Items
<1>2. \A i \in 1 .. item : i \in 1 .. item - 1 \/ i = item
  BY <1>1
<1>3. \A e \in entries : e.slot[1] \in 1 .. item /\ e.slot[1] # item
  BY <1>1 DEF Covers
<1> QED BY <1>1, <1>2, <1>3 DEF Covers

\* The steps that extend, write or drop the list.
LEMMA LedgerRunPlan == ASSUME IInv, Ledger, RunPlan PROVE Ledger'
<1>1. Next /\ IInv' /\ DoneStable /\ att' \in [Slots -> Attempts]
  BY StepKnown DEF Next, Progress
<1>2. CASE WriteRunning
  <2>1. Covers({}, 0)
    BY DEF Covers
  <2>2. /\ pc = "summary" /\ pc' = "loop" /\ appended' = {} /\ item' = 1
        /\ summary'.state = "running"
    BY <1>2 DEF WriteRunning, Ledger, locals
  <2>3. Covers({}, 0)'
    BY <1>1, <2>1, CoversStable
  <2>4. Covers(appended, item - 1)'
    BY <2>2, <2>3
  <2> QED BY <2>2, <2>4 DEF Ledger
<1>3. CASE SkipCompleted
  <2>1. PICK s, n, E :
          /\ s \in Done /\ n \in Items /\ s[1] = item /\ E = appended \cup {Entry(s)} /\ n = item
          /\ pc = "loop" /\ pc' = "loop" /\ item' = n + 1 /\ appended' = E
          /\ UNCHANGED summary
    <3> DEFINE s == CompletedAttempt(item)
    <3>1. /\ pc = "loop" /\ pc' = "loop" /\ item \in Items /\ item' = item + 1
          /\ appended' = appended \cup {Entry(s)} /\ UNCHANGED summary
      BY <1>3 DEF SkipCompleted, runFiles
    <3>2. s \in Done /\ s[1] = item
      BY <1>3, CompletedAttemptSlot DEF SkipCompleted, Skips, CompletedSlots, Done
    <3> HIDE DEF s
    <3> QED BY <3>1, <3>2
  <2>2. Covers(E, n)
    BY <2>1, CoversNext DEF Ledger
  <2>3. Covers(E, n)'
    BY <1>1, <2>2, CoversStable
  <2>4. item' - 1 = n
    BY <2>1, Numbers
  <2>5. summary'.state = "completed" => Covers(summary.attempts, NumItems)'
    BY <1>1, <2>1, CoversStable DEF Ledger
  <2> QED BY <2>1, <2>3, <2>4, <2>5 DEF Ledger
<1>4. CASE BeginAttempt
  BY <1>1, <1>4, LedgerFrame DEF BeginAttempt, runFiles, ListPoints
<1>5. CASE RecordAttempt
  <2>1. PICK n, E :
          /\ n \in Items /\ E = appended \cup {Entry(slot)} /\ n = item /\ pc = "record"
          /\ appended' = E /\ slot[1] = item
          /\ summary' = [summary EXCEPT !.attempts = E]
    <3>1. pc = "record" /\ item \in Items /\ slot[1] = item
      BY <1>5 DEF RecordAttempt, IInv, AtPoint
    <3>2. /\ appended' = appended \cup {Entry(slot)}
          /\ summary' = [summary EXCEPT !.attempts = appended']
      BY <1>5 DEF RecordAttempt
    <3> QED BY <3>1, <3>2
  <2>2. summary'.state = "running"
    BY <2>1 DEF IInv, TypeOK, Ledger
  <2>3. CASE StopsMatrix(slot)
    BY <1>5, <2>2, <2>3 DEF RecordAttempt, Ledger
  <2>4. CASE ~StopsMatrix(slot)
    <3>1. slot \in Done
      BY <2>1, <2>4, Known DEF Ledger, Here, StopsMatrix, Done
    <3>2. Covers(E, n)
      BY <2>1, <3>1, CoversNext DEF Ledger
    <3>3. Covers(E, n)'
      BY <1>1, <3>2, CoversStable
    <3>4. pc' = "loop" /\ item' - 1 = n
      BY <1>5, <2>1, <2>4, Numbers DEF RecordAttempt
    <3> QED BY <2>1, <2>2, <3>3, <3>4 DEF Ledger
  <2> QED BY <2>3, <2>4
<1>6. CASE FinishRun
  <2>1. PICK E : /\ E = appended /\ summary'.attempts = E /\ pc = "loop"
                 /\ item = NumItems + 1 /\ Exit
    BY <1>6 DEF FinishRun
  <2>2. Covers(E, NumItems)
    BY <2>1 DEF Ledger
  <2>3. Covers(E, NumItems)'
    BY <1>1, <2>2, CoversStable
  <2> QED BY <2>1, <2>3 DEF Ledger, Exit
<1>7. CASE StopRun \/ HandleError
  <2>1. summary'.state # "completed"
    <3>1. CASE StopRun
      BY <3>1 DEF StopRun, IInv, AtPoint, Here, TypeOK, PreflightStates
    <3>2. CASE HandleError
      BY <3>2 DEF HandleError, IInv, AtPoint, Errors, SummaryState
    <3> QED BY <1>7, <3>1, <3>2
  <2> QED BY <1>1, <1>7, <2>1, LedgerExit DEF StopRun, HandleError
<1> QED BY <1>2, <1>3, <1>4, <1>5, <1>6, <1>7 DEF RunPlan

\* Every step keeps the ledger.
LEMMA NextLedger == IInv /\ Ledger /\ [Next]_vars => Ledger'
<1> SUFFICES ASSUME IInv, Ledger, [Next]_vars PROVE Ledger'
  OBVIOUS
<1>1. CASE Next
  BY <1>1, LedgerStart, LedgerRunPlan, LedgerPreflight, LedgerRunAttempt,
    LedgerFailure, LedgerEnvironment DEF Next, Progress
<1>2. CASE UNCHANGED vars
  BY <1>2 DEF vars, Ledger, Covers, Here, Done, Entry
<1> QED BY <1>1, <1>2

\* The ledger holds before the first run.
LEMMA InitLedger == Init => Ledger
BY DEF Init, Ledger, NoSummary

\* So it holds in every reachable state, with the invariant of the attempts.
LEMMA LedgerInvariant == Spec => [](IInv /\ Ledger)
BY InitInv, NextInv, InitLedger, NextLedger, PTL DEF Spec

-----------------------------------------------------------------------------
\* A run whose summary says completed lists exactly one attempt for every item
\* of the matrix, completed on disk with the outcome the summary repeats.
THEOREM CompletedRunsCoverMatrix == Spec => []CompletedRunCoversMatrix
<1>1. IInv /\ Ledger => CompletedRunCoversMatrix
  <2> SUFFICES ASSUME IInv, Ledger, summary.state = "completed", NEW i \in Items
               PROVE  \E e \in summary.attempts :
                        /\ \A f \in summary.attempts : f.slot[1] = i => f = e
                        /\ e = Entry(e.slot) /\ e.slot[1] = i /\ e.state = "completed"
    BY DEF CompletedRunCoversMatrix
  <2>1. Covers(summary.attempts, NumItems)
    BY DEF Ledger
  <2>2. PICK e \in summary.attempts : e.slot[1] = i
    BY <2>1 DEF Covers, Items
  <2>3. e = Entry(e.slot) /\ att[e.slot].state = "completed"
    BY <2>1 DEF Covers, Done
  <2>4. e.state = "completed"
    BY <2>3 DEF Entry
  <2> QED BY <2>1, <2>2, <2>3, <2>4 DEF Covers
<1> QED BY <1>1, LedgerInvariant, PTL

\* The steps of run_plan and of its process that write no attempt directory.
LEMMA AttemptsUntouched ==
  ASSUME IInv, Next,
         ~(Preflight \/ RunAttempt \/ PrepareFails \/ TargetUnproven \/ InterruptTarget),
         ~BeginAttempt, ~(\E s \in Slots : TargetWrites(s))
  PROVE  att' = att
<1>1. CASE RunPlan
  BY <1>1 DEF RunPlan, WriteRunning, SkipCompleted, RecordAttempt, StopRun,
    FinishRun, HandleError, Exit
<1>2. CASE Failure
  BY <1>2 DEF Failure, MaterialFails, GitFails, Interrupt, InterruptCommand,
    Crash, Exit
<1>3. CASE StartFresh \/ StartResume \/ EditSources \/ RestoreSources
  BY <1>3 DEF StartFresh, StartResume, EditSources, RestoreSources
<1> QED BY <1>1, <1>2, <1>3 DEF Next, Progress, Environment

\* The steps of run_attempt stay in run_attempt, or raise.
LEMMA WorkingStep ==
  ASSUME Preflight \/ RunAttempt \/ PrepareFails \/ TargetUnproven
           \/ InterruptTarget
  PROVE  /\ pc \in AttemptPoints /\ pc' \in AttemptPoints \cup {"raise"}
         /\ UNCHANGED <<sources, runFiles, locals>>
<1>1. CASE Preflight
  BY <1>1 DEF Preflight, WriteMetadata, PrepareWorkspace,
    WritePreflightMetadata, WritePreflightVerification,
    WritePreflightReceipt, Goto
<1>2. CASE PrepareFails \/ TargetUnproven \/ InterruptTarget
  BY <1>2 DEF PrepareFails, TargetUnproven, InterruptTarget, NotQuiescent,
    Goto, Raise
<1>3. CASE RunAttempt
  <2>1. CASE CommitInvocation \/ LaunchTarget \/ TargetQuiescent \/ CaptureDiff
    BY <2>1 DEF CommitInvocation, LaunchTarget, TargetQuiescent,
      CaptureDiff, Goto
  <2>2. CASE DigestTree \/ SealMaterial \/ EvaluateAssertions
    BY <2>2 DEF DigestTree, SealMaterial, EvaluateAssertions, Goto
  <2>3. CASE WriteTerminationFailure \/ WriteEvidenceFailure
    BY <2>3 DEF WriteTerminationFailure, WriteEvidenceFailure, Raise
  <2>4. CASE RunCommand
    BY <2>4 DEF RunCommand, CommandsLeft, sources, runFiles, locals
  <2>5. CASE WriteVerification \/ WriteCompleted \/ WriteReceipt \/ RemoveWorkspace
    BY <2>5 DEF WriteVerification, WriteCompleted, WriteReceipt,
      RemoveWorkspace, Goto
  <2> QED BY <1>3, <2>1, <2>2, <2>3, <2>4, <2>5 DEF RunAttempt
<1> QED BY <1>1, <1>2, <1>3

\* Only BeginAttempt turns an absent directory into one.
LEMMA OnlyBeginOpens ==
  ASSUME IInv, Next, NEW s \in Slots, att[s].state = "absent",
         att'[s].state # "absent"
  PROVE  BeginAttempt
<1> SUFFICES ASSUME ~BeginAttempt PROVE FALSE
  OBVIOUS
<1>1. CASE Preflight \/ RunAttempt \/ PrepareFails \/ TargetUnproven \/ InterruptTarget
  <2>1. pc \in AttemptPoints
    BY <1>1, WorkingStep
  <2>2. att[slot].state # "absent"
    BY <2>1 DEF IInv, AtPoint, Here
  <2> QED BY <1>1, <2>2, OtherAttemptsStay
<1>2. CASE \E t \in Slots : TargetWrites(t)
  <2>1. PICK t \in Slots : TargetWrites(t)
    BY <1>2
  <2>2. att'[s].state = att[s].state
    BY <2>1, Known DEF TargetWrites, Attempts
  <2> QED BY <2>2
<1> QED BY <1>1, <1>2, AttemptsUntouched

\* After a failed preflight the same run opens no further attempt directory.
THEOREM DriftAlwaysStopsMatrix == Spec => DriftStopsMatrix
<1>1. ASSUME IInv, Ledger, [Next]_vars
      PROVE  [(\E e \in appended : e.state \in PreflightStates) =>
                 \A s \in Slots : att[s].state = "absent"
                                    => att'[s].state = "absent"]_vars
  <2> SUFFICES ASSUME Next, NEW e \in appended, e.state \in PreflightStates,
                      NEW s \in Slots, att[s].state = "absent",
                      att'[s].state # "absent"
               PROVE  FALSE
    BY <1>1
  <2>1. pc = "loop"
    BY <1>1, OnlyBeginOpens DEF BeginAttempt
  <2>2. e = Entry(e.slot) /\ att[e.slot].state = "completed"
    BY <1>1, <2>1 DEF Ledger, Covers, Done
  <2>3. e.state = "completed"
    BY <2>2 DEF Entry
  <2> QED BY <2>3 DEF PreflightStates
<1> QED BY <1>1, LedgerInvariant, PTL DEF Spec, DriftStopsMatrix

\* Only LaunchTarget starts a target, and only that of the current attempt.
LEMMA OnlyLaunchStarts ==
  ASSUME IInv, Ledger, Next, NEW s \in Slots, att[s].target = None,
         att'[s].target # None
  PROVE  LaunchTarget /\ s = slot
<1>1. CASE Preflight
  <2>1. CASE PrepareWorkspace
    <3>1. PICK mount \in Delivered(item) :
            att' = [att EXCEPT ![slot].fixture = caseNow, ![slot].mount = mount,
                               ![slot].workspace = "base"]
      BY <2>1, Zenon DEF PrepareWorkspace
    <3> QED BY <3>1, Known DEF Attempts
  <2>2. CASE Preflight /\ ~PrepareWorkspace
    BY <2>2, Known DEF Preflight, WriteMetadata, WritePreflightMetadata,
      WritePreflightVerification, WritePreflightReceipt, Attempts
  <2> QED BY <1>1, <2>1, <2>2
<1>2. CASE TargetQuiescent \/ TargetUnproven \/ InterruptTarget
  <2>1. pc = "wait"
    BY <1>2 DEF TargetQuiescent, TargetUnproven, InterruptTarget, Goto
  <2>2. att[slot].target = "live"
    BY <2>1 DEF Ledger, Here
  <2> QED BY <1>2, <2>2, OtherAttemptsStay DEF RunAttempt
<1>3. CASE RunAttempt /\ ~TargetQuiescent /\ ~LaunchTarget
  <2>1. CASE CommitInvocation \/ CaptureDiff \/ DigestTree \/ EvaluateAssertions
    BY <2>1, Known DEF CommitInvocation, CaptureDiff, DigestTree,
      EvaluateAssertions, Attempts
  <2>2. CASE WriteTerminationFailure
    <3> DEFINE b == [att[slot] EXCEPT !.state = "termination-failed",
                       !.outcome = "termination-failure", !.process = mem.process]
    <3>1. b.target = att[slot].target
      BY Known DEF Attempts
    <3>2. att'[slot] = b
      BY <2>2, Known DEF WriteTerminationFailure
    <3> QED BY <1>3, <3>1, <3>2, OtherAttemptsStay
  <2>3. CASE WriteVerification \/ WriteCompleted \/ WriteReceipt
    BY <2>3, Known DEF WriteVerification, WriteCompleted, WriteReceipt, Attempts
  <2>4. CASE RemoveWorkspace \/ SealMaterial
    BY <2>4, Known DEF RemoveWorkspace, SealMaterial, Attempts
  <2>5. CASE RunCommand
    BY <2>5 DEF RunCommand
  <2>6. CASE WriteEvidenceFailure
    <3>1. pc = "evidence-failure"
      BY <2>6 DEF WriteEvidenceFailure
    <3>2. att[slot].target = "quiescent"
      BY <3>1 DEF IInv, AtPoint, Here
    <3> QED BY <2>6, <1>3, <3>2, OtherAttemptsStay
  <2> QED BY <1>3, <2>1, <2>2, <2>3, <2>4, <2>5, <2>6 DEF RunAttempt
<1>4. CASE LaunchTarget
  BY <1>4, OtherAttemptsStay DEF RunAttempt
<1>5. CASE PrepareFails
  BY <1>5, Known DEF PrepareFails, Attempts
<1>6. CASE BeginAttempt
  BY <1>6, Known DEF BeginAttempt, Attempts
<1>7. CASE \E t \in Slots : TargetWrites(t)
  BY <1>7, Known DEF TargetWrites, Attempts
<1> QED
  BY <1>1, <1>2, <1>3, <1>4, <1>5, <1>6, <1>7, AttemptsUntouched

\* A target is only started for an item that this run has not listed yet and
\* that no attempt on disk has completed, whatever was resumed before.
THEOREM NeverRetriesImplicitly == Spec => NoImplicitRetry
<1>1. ASSUME IInv, Ledger, [Next]_vars
      PROVE  [\A s \in Slots : att[s].target = None /\ att'[s].target # None =>
                /\ \A e \in appended : e.slot[1] # s[1]
                /\ \A t \in Slots : t[1] = s[1] => att[t].state # "completed"]_vars
  <2> SUFFICES ASSUME Next, NEW s \in Slots, att[s].target = None,
                      att'[s].target # None
               PROVE  /\ \A e \in appended : e.slot[1] # s[1]
                      /\ \A t \in Slots : t[1] = s[1] => att[t].state # "completed"
    BY <1>1
  <2>1. LaunchTarget /\ s = slot
    BY <1>1, OnlyLaunchStarts
  <2>2. pc = "launch" /\ slot[1] = item
    BY <1>1, <2>1 DEF LaunchTarget, Goto, IInv, AtPoint
  <2>3. \A e \in appended : e.slot[1] # s[1]
    BY <1>1, <2>1, <2>2, Numbers DEF Ledger, Covers
  <2>4. \A t \in Slots : t[1] = s[1] => att[t].state # "completed"
    BY <1>1, <2>1, <2>2, NotYetCompleted DEF IInv, Fresh, Done
  <2> QED BY <2>3, <2>4
<1> QED BY <1>1, LedgerInvariant, PTL DEF Spec, NoImplicitRetry

-----------------------------------------------------------------------------
(* What faults cost *)

\* The attempt in progress was refused by the preflight, though not for what its
\* own fixture leaves in the mount, or fails anyway; or the sources have been
\* edited and the next preflight may refuse them.
Refused ==
  \/ pc \in PreflightPoints
  \/ pc \in {"cleanup", "record", "stop"} /\ Here.state \in PreflightStates
Excused ==
  /\ slot[1] \in overlaps
  /\ IF pc = "preflight-metadata" THEN mem.preflight = "input-drift"
                                  ELSE Here.state = "input-drift"
Failing == pc \in {"termination", "evidence-failure"} \/ (Refused /\ ~Excused)
Drifted == pc \notin {"idle", "raise"} /\ ~AsPlanned /\ ~Refused

\* Faults that have happened and will still cost an attempt.
Debt == (IF Failing THEN 1 ELSE 0) + (IF Drifted THEN 1 ELSE 0)

Solvent == Cardinality(Wasted) + Debt <= faults

\* A receipt was written for what the matrix is told is completed.
Kept == pc \in {"cleanup", "record"} /\ Here.state = "completed" => Sealed(slot)

\* Attempts of an item are numbered without gaps.
Dense == \A s \in Used : \A n \in 1 .. s[2] : <<s[1], n>> \in Used

Budget == Solvent /\ Kept /\ Dense

\* Finitely many attempts, and a number of them.
LEMMA SlotsAreFinite ==
  /\ IsFiniteSet(Slots)
  /\ \A W \in SUBSET Slots : IsFiniteSet(W) /\ Cardinality(W) \in Nat
<1>1. IsFiniteSet(Items) /\ IsFiniteSet(1 .. MaxAttempts)
  BY FS_Interval DEF Items
<1>2. IsFiniteSet(Slots)
  BY <1>1, FS_Product DEF Slots
<1> QED BY <1>2, FS_Subset, FS_CardinalityType

\* At most the current attempt is added.
LEMMA OneMore ==
  ASSUME NEW V \in SUBSET Slots, NEW W \in SUBSET Slots, NEW s \in Slots
  PROVE  /\ V \subseteq W => Cardinality(V) <= Cardinality(W)
         /\ V \subseteq W \cup {s} => Cardinality(V) <= Cardinality(W) + 1
<1>1. /\ IsFiniteSet(V) /\ IsFiniteSet(W) /\ IsFiniteSet(W \cup {s})
      /\ Cardinality(V) \in Nat /\ Cardinality(W) \in Nat
      /\ Cardinality(W \cup {s}) \in Nat
  BY SlotsAreFinite
<1>2. Cardinality(W \cup {s}) <= Cardinality(W) + 1
  BY <1>1, FS_AddElement
<1>3. V \subseteq W \cup {s} => Cardinality(V) <= Cardinality(W \cup {s})
  BY <1>1, FS_Subset
<1>4. V \subseteq W => Cardinality(V) <= Cardinality(W)
  BY <1>1, FS_Subset
<1> QED BY <1>1, <1>2, <1>3, <1>4

\* The budget of a step: what it wastes and what it will waste.
LEMMA Balance ==
  ASSUME IInv, IInv', Solvent,
         \/ Wasted' \subseteq Wasted
              /\ \/ faults' = faults /\ Debt' <= Debt
                 \/ faults' = faults + 1 /\ Debt' <= Debt + 1
         \/ Wasted' \subseteq Wasted \cup {slot}
              /\ \/ faults' = faults /\ Debt' + 1 <= Debt
                 \/ faults' = faults + 1 /\ Debt' <= Debt
  PROVE  Solvent'
<1>1. Wasted \in SUBSET Slots /\ Wasted' \in SUBSET Slots /\ slot \in Slots
  BY DEF Wasted, IInv, TypeOK
<1>2. PICK f \in Nat, d \in Nat, e \in Nat : f = faults /\ d = Debt /\ e = Debt'
  <2>1. faults \in Nat /\ Debt \in Nat /\ Debt' \in Nat
    BY DEF IInv, TypeOK, Debt
  <2> QED BY <2>1
<1>3. PICK v \in Nat, w \in Nat : v = Cardinality(Wasted') /\ w = Cardinality(Wasted)
  BY <1>1, SlotsAreFinite
<1>4. w + d <= f
  BY <1>2, <1>3 DEF Solvent
<1>5. CASE Wasted' \subseteq Wasted
           /\ \/ faults' = faults /\ Debt' <= Debt
              \/ faults' = faults + 1 /\ Debt' <= Debt + 1
  <2>1. v <= w
    BY <1>1, <1>3, <1>5, OneMore
  <2>2. \/ faults' = f /\ e <= d
        \/ faults' = f + 1 /\ e <= d + 1
    BY <1>2, <1>5
  <2>3. v + e <= faults'
    BY <1>4, <2>1, <2>2
  <2> QED BY <1>2, <1>3, <2>3 DEF Solvent
<1>6. CASE Wasted' \subseteq Wasted \cup {slot}
           /\ \/ faults' = faults /\ Debt' + 1 <= Debt
              \/ faults' = faults + 1 /\ Debt' <= Debt
  <2>1. v <= w + 1
    BY <1>1, <1>3, <1>6, OneMore
  <2>2. \/ faults' = f /\ e + 1 <= d
        \/ faults' = f + 1 /\ e <= d
    BY <1>2, <1>6
  <2>3. v + e <= faults'
    BY <1>4, <2>1, <2>2
  <2> QED BY <1>2, <1>3, <2>3 DEF Solvent
<1> QED BY <1>5, <1>6

\* A plan does not change.
LEMMA OverlapsStay ==
  ASSUME [Next]_vars
  PROVE  overlaps' = overlaps
<1>1. CASE Preflight \/ RunAttempt
  BY <1>1, WorkingStep DEF sources
<1>2. CASE RunPlan \/ StartFresh \/ StartResume
  BY <1>2 DEF RunPlan, WriteRunning, SkipCompleted, BeginAttempt, RecordAttempt,
    StopRun, FinishRun, HandleError, Exit, StartFresh, StartResume, sources
<1>3. CASE Failure
  BY <1>3 DEF Failure, PrepareFails, TargetUnproven, MaterialFails, GitFails,
    Interrupt, InterruptTarget, InterruptCommand, Crash, Raise, Exit, Goto,
    sources
<1>4. CASE Environment \/ UNCHANGED vars
  BY <1>4 DEF Environment, EditSources, RestoreSources, TargetWrites, sources,
    vars
<1> QED BY <1>1, <1>2, <1>3, <1>4 DEF Next, Progress

\* Steps that leave what attempts say of themselves.
LEMMA WasteStays ==
  ASSUME overlaps' = overlaps,
         \A s \in Slots : att'[s].state = att[s].state
                        /\ att'[s].receipt = att[s].receipt
  PROVE  /\ AtWork' = AtWork /\ (slot' = slot \/ ~AtWork) => Wasted' = Wasted
         /\ Wasted' \subseteq Wasted \cup {slot}
         /\ Unavoidable(slot) => Wasted' \subseteq Wasted
BY DEF Wasted, Finished, Sealed, Unavoidable

\* A step within run_attempt wastes nothing yet; one that leaves it, the slot.
LEMMA WorkWastes ==
  ASSUME IInv, IInv', slot' = slot, overlaps' = overlaps, pc \in AttemptPoints,
         \A s \in Slots : s # slot => att'[s] = att[s]
  PROVE  /\ pc' \in AttemptPoints => Wasted' = Wasted
         /\ Wasted' \subseteq Wasted \cup {slot}
<1>1. AtWork /\ (AtWork' <=> pc' \in AttemptPoints)
  BY DEF IInv, TypeOK, AtWork
<1> QED BY <1>1 DEF Wasted, Finished, Sealed, Unavoidable

\* What a step of run_attempt still owes.
LEMMA WorkDebt ==
  ASSUME IInv, Ledger, Preflight \/ RunAttempt
  PROVE  \/ pc' \in AttemptPoints /\ Debt' <= Debt
         \/ pc' = "raise" /\ Debt' + 1 <= Debt
<1>1. /\ AsPlanned' = AsPlanned /\ overlaps' = overlaps /\ slot' = slot
      /\ pc \notin {"idle", "raise"} /\ pc' # "idle"
  BY WorkingStep DEF sources, locals, AsPlanned
<1>2. CASE /\ pc \in OpenPoints \ ({"termination", "evidence-failure"} \cup PreflightPoints)
           /\ pc' \in OpenPoints \ ({"termination", "evidence-failure"} \cup PreflightPoints)
  <2>1. ~Failing /\ ~Failing' /\ Drifted' = Drifted
    BY <1>1, <1>2 DEF Failing, Refused, Drifted
  <2> QED BY <1>2, <2>1 DEF Debt
<1>3. CASE /\ pc' \in AttemptPoints
           /\ pc \notin {"termination", "evidence-failure"}
           /\ pc' \notin {"termination", "evidence-failure"}
           /\ Refused' = Refused
           /\ Refused => Excused' = Excused
  <2>1. Failing' = Failing /\ Drifted' = Drifted
    BY <1>1, <1>3 DEF Failing, Drifted
  <2> QED BY <1>3, <2>1 DEF Debt
<1>4. CASE WriteMetadata \/ CommitInvocation \/ LaunchTarget \/ TargetQuiescent
             \/ CaptureDiff \/ DigestTree
  BY <1>2, <1>4 DEF WriteMetadata, CommitInvocation, LaunchTarget,
    TargetQuiescent, CaptureDiff, DigestTree, Goto
<1>5. CASE SealMaterial \/ EvaluateAssertions \/ RunCommand \/ WriteVerification
             \/ WriteCompleted
  BY <1>2, <1>5 DEF SealMaterial, EvaluateAssertions, RunCommand, CommandsLeft,
    WriteVerification, WriteCompleted, Goto
<1>6. CASE PrepareWorkspace
  <2>1. CASE pc' = "invoke"
    BY <1>2, <1>6, <2>1 DEF PrepareWorkspace, Goto
  <2>2. CASE pc' # "invoke"
    <3>1. /\ pc = "prepare" /\ pc' = "preflight-metadata"
          /\ mem' = [mem EXCEPT !.preflight = "input-drift"]
          /\ \E mount \in Delivered(item) : mount # "planned"
      BY <1>6, <2>2 DEF PrepareWorkspace, Goto
    <3>2. ~Failing /\ ~Refused /\ Refused' /\ ~Drifted'
      BY <3>1 DEF Failing, Refused, Drifted
    <3>3. item \in overlaps => Excused'
      BY <1>1, <3>1, Known DEF Excused, IInv, AtPoint, Locals
    <3>4. item \notin overlaps => ~AsPlanned
      BY <3>1 DEF Delivered
    <3>5. Failing' => Drifted
      BY <3>1, <3>2, <3>3, <3>4 DEF Failing, Drifted
    <3> QED BY <3>1, <3>2, <3>5 DEF Debt
  <2> QED BY <2>1, <2>2
<1>7. CASE WritePreflightMetadata \/ WritePreflightVerification
  <2>1. /\ pc \in {"preflight-metadata", "preflight-verification"}
        /\ pc' \in {"preflight-verification", "preflight-receipt"}
        /\ mem' = mem /\ Refused /\ Refused'
    BY <1>7 DEF WritePreflightMetadata, WritePreflightVerification, Goto, Refused
  <2>2. CASE WritePreflightMetadata
    <3>1. pc = "preflight-metadata" /\ att'[slot].state = mem.preflight
      BY <2>2, Known DEF WritePreflightMetadata, Goto, Attempts
    <3>2. Excused' = Excused
      BY <1>1, <2>1, <3>1 DEF Excused, Here
    <3> QED BY <1>3, <2>1, <3>2
  <2>3. CASE WritePreflightVerification
    <3>1. /\ pc = "preflight-verification"
          /\ att'[slot].state = att[slot].state
      BY <2>3, Known DEF WritePreflightVerification, Goto, Attempts
    <3>2. Excused' = Excused
      BY <1>1, <2>1, <3>1 DEF Excused, Here
    <3> QED BY <1>3, <2>1, <3>2
  <2> QED BY <1>7, <2>2, <2>3
<1>8. CASE WritePreflightReceipt
  <2>1. pc = "preflight-receipt" /\ pc' = "cleanup" /\ slot' = slot
    BY <1>8 DEF WritePreflightReceipt, Goto, locals
  <2>2. att'[slot].state = att[slot].state /\ att[slot].state \in PreflightStates
    BY <1>8, <2>1, Known DEF WritePreflightReceipt, Attempts, IInv, AtPoint, Here
  <2>3. Refused /\ Refused' /\ Excused' = Excused
    BY <1>1, <2>1, <2>2 DEF Refused, Excused, Here
  <2> QED BY <1>3, <2>1, <2>3
<1>9. CASE WriteReceipt \/ RemoveWorkspace
  <2>1. /\ slot' = slot /\ pc' \in {"cleanup", "record"}
        /\ pc = "receipt" \/ pc = "cleanup"
    BY <1>9 DEF WriteReceipt, RemoveWorkspace, Goto, locals
  <2>2. att'[slot].state = att[slot].state
    BY <1>9, Known DEF WriteReceipt, RemoveWorkspace, Attempts
  <2>3. pc = "receipt" => att[slot].state \notin PreflightStates
    BY DEF IInv, AtPoint, Here, PreflightStates
  <2>4. Refused' = Refused /\ Excused' = Excused
    BY <1>1, <2>1, <2>2, <2>3 DEF Refused, Excused, Here
  <2> QED BY <1>3, <2>1, <2>4
<1>10. CASE WriteTerminationFailure \/ WriteEvidenceFailure
  <2>1. pc \in {"termination", "evidence-failure"} /\ pc' = "raise"
    BY <1>10 DEF WriteTerminationFailure, WriteEvidenceFailure, Raise
  <2>2. Failing /\ ~Failing' /\ ~Drifted'
    BY <2>1 DEF Failing, Refused, Drifted
  <2> QED BY <2>1, <2>2 DEF Debt
<1> QED
  BY <1>4, <1>5, <1>6, <1>7, <1>8, <1>9, <1>10 DEF Preflight, RunAttempt

\* Faults happen to run_attempt, it does not make them.
LEMMA WorkKeepsFaults ==
  ASSUME Preflight \/ RunAttempt
  PROVE  faults' = faults
<1>1. CASE Preflight
  BY <1>1 DEF Preflight, WriteMetadata, PrepareWorkspace,
    WritePreflightMetadata, WritePreflightVerification, WritePreflightReceipt
<1>2. CASE WriteTerminationFailure \/ WriteEvidenceFailure \/ RunCommand
  BY <1>2 DEF WriteTerminationFailure, WriteEvidenceFailure, RunCommand
<1>3. CASE CommitInvocation \/ LaunchTarget \/ TargetQuiescent \/ CaptureDiff
  BY <1>3 DEF CommitInvocation, LaunchTarget, TargetQuiescent, CaptureDiff
<1>4. CASE DigestTree \/ SealMaterial \/ EvaluateAssertions
  BY <1>4 DEF DigestTree, SealMaterial, EvaluateAssertions
<1>5. CASE WriteVerification \/ WriteCompleted \/ WriteReceipt \/ RemoveWorkspace
  BY <1>5 DEF WriteVerification, WriteCompleted, WriteReceipt, RemoveWorkspace
<1> QED BY <1>1, <1>2, <1>3, <1>4, <1>5 DEF RunAttempt

\* The steps of an attempt are paid for.
LEMMA WorkIsSolvent ==
  ASSUME IInv, IInv', Ledger, Solvent, Preflight \/ RunAttempt
  PROVE  Solvent'
<1>1. faults' = faults
  BY WorkKeepsFaults
<1>2. /\ pc' \in AttemptPoints => Wasted' = Wasted
      /\ Wasted' \subseteq Wasted \cup {slot}
  BY WorkWastes, WorkingStep, OtherAttemptsStay DEF locals, sources
<1> QED BY <1>1, <1>2, WorkDebt, Balance

\* Every fault buys one attempt.
LEMMA FailureIsSolvent ==
  ASSUME IInv, IInv', Ledger, Solvent, Failure
  PROVE  Solvent'
<1>1. faults' = faults + 1
  BY DEF Failure, PrepareFails, TargetUnproven, MaterialFails, GitFails,
    Interrupt, InterruptTarget, InterruptCommand, Crash, Fault
<1>2. CASE PrepareFails \/ TargetUnproven \/ MaterialFails
  <2>1. /\ pc \in OpenPoints \ ({"termination", "evidence-failure"} \cup PreflightPoints)
        /\ pc' \in {"preflight-metadata", "termination", "evidence-failure"}
        /\ AsPlanned' = AsPlanned /\ slot' = slot /\ overlaps' = overlaps
    BY <1>2 DEF PrepareFails, TargetUnproven, MaterialFails, NotQuiescent, Goto,
      sources, locals, AsPlanned
  <2>2. ~Failing /\ (Drifted' => Drifted)
    BY <2>1 DEF Failing, Refused, Drifted
  <2>3. Debt' <= Debt + 1
    BY <2>2 DEF Debt
  <2>4. \A s \in Slots : s # slot => att'[s] = att[s]
    BY <1>2, OtherAttemptsStay DEF MaterialFails
  <2>5. Wasted' = Wasted
    BY <2>1, <2>4, WorkWastes
  <2> QED BY <1>1, <2>3, <2>5, Balance
<1>3. CASE GitFails \/ Interrupt \/ InterruptTarget \/ InterruptCommand \/ Crash
  <2>1. pc' \in {"raise", "idle"} /\ overlaps' = overlaps
    BY <1>3 DEF GitFails, Interrupt, InterruptTarget, InterruptCommand, Crash,
      Raise, Exit, CommandsLeft, sources
  <2>2. ~Failing' /\ ~Drifted'
    BY <2>1 DEF Failing, Refused, Drifted
  <2>3. Debt' <= Debt
    BY <2>2 DEF Debt
  <2>4. Wasted' \subseteq Wasted \cup {slot}
    <3>1. CASE InterruptTarget
      BY <2>1, <3>1, WorkWastes, WorkingStep, OtherAttemptsStay DEF locals
    <3>2. CASE GitFails \/ Interrupt \/ InterruptCommand \/ Crash
      <4>1. att' = att
        BY <3>2 DEF GitFails, Interrupt, InterruptCommand, Crash, Exit
      <4> QED BY <2>1, <4>1, WasteStays
    <3> QED BY <1>3, <3>1, <3>2
  <2> QED BY <1>1, <2>3, <2>4, Balance
<1> QED BY <1>2, <1>3 DEF Failure

\* run_plan itself wastes what run_attempt has given up.
LEMMA PlanIsSolvent ==
  ASSUME IInv, IInv', Ledger, Kept, Solvent, RunPlan
  PROVE  Solvent'
<1>1. faults' = faults /\ AsPlanned' = AsPlanned /\ overlaps' = overlaps
  BY DEF RunPlan, WriteRunning, SkipCompleted, BeginAttempt, RecordAttempt,
    StopRun, FinishRun, HandleError, Exit, sources, AsPlanned
<1>2. Debt \in 0 .. 2
  BY DEF Debt
<1>3. CASE WriteRunning \/ SkipCompleted
  <2>1. /\ pc \in {"summary", "loop"} /\ pc' \in {"summary", "loop"} /\ att' = att
        /\ slot' = slot
    BY <1>3 DEF WriteRunning, SkipCompleted, locals
  <2>2. Wasted' = Wasted
    BY <1>1, <2>1, WasteStays DEF AtWork
  <2>3. Debt' = Debt
    BY <1>1, <2>1 DEF Debt, Failing, Refused, Drifted
  <2> QED BY <1>1, <1>2, <2>2, <2>3, Balance
<1>4. CASE BeginAttempt
  <2>1. PICK s \in Slots :
          /\ IsNextAttempt(s, item) /\ slot' = s
          /\ att' = [att EXCEPT ![s].state = "bare", ![s].prompt = caseNow]
    BY <1>4 DEF BeginAttempt
  <2>2. att[s].state = "absent"
    <3>1. s[2] \in s[2] .. MaxAttempts /\ s = <<s[1], s[2]>>
      BY DEF Slots
    <3> QED BY <2>1, <3>1 DEF IsNextAttempt
  <2>3. pc = "loop" /\ pc' = "metadata"
    BY <1>4 DEF BeginAttempt
  <2>4. \A t \in Slots : t # s => att'[t] = att[t]
    BY <2>1, Known
  <2>5. Wasted' = Wasted
    BY <1>1, <2>1, <2>2, <2>3, <2>4 DEF Wasted, AtWork, Finished, Sealed,
      Unavoidable
  <2>6. Debt' = Debt
    BY <1>1, <2>3 DEF Debt, Failing, Refused, Drifted
  <2> QED BY <1>1, <1>2, <2>5, <2>6, Balance
<1>5. CASE RecordAttempt
  <2>1. /\ pc = "record" /\ att' = att /\ slot' = slot /\ slot \in Slots
        /\ IF Here.state \in PreflightStates THEN pc' = "stop" ELSE pc' = "loop"
    BY <1>5, Known DEF RecordAttempt, StopsMatrix, Here
  <2>2. CASE Here.state \in PreflightStates
    <3>1. Wasted' = Wasted
      BY <1>1, <2>1, <2>2, WasteStays DEF AtWork
    <3>2. Refused /\ Refused' /\ Excused' = Excused
      BY <1>1, <2>1, <2>2 DEF Refused, Excused, Here
    <3>3. Debt' = Debt
      BY <2>1, <2>2, <3>2 DEF Debt, Failing, Drifted
    <3> QED BY <1>1, <1>2, <3>1, <3>3, Balance
  <2>3. CASE Here.state \notin PreflightStates
    <3>1. Finished(slot) /\ pc' = "loop"
      BY <2>1, <2>3 DEF Ledger, Kept, Finished, Here
    <3>2. Wasted' = Wasted
      BY <1>1, <2>1, <3>1 DEF Wasted, AtWork, Finished, Sealed, Unavoidable
    <3>3. Debt' = Debt
      BY <1>1, <2>1, <2>3, <3>1 DEF Debt, Failing, Refused, Drifted
    <3> QED BY <1>1, <1>2, <3>2, <3>3, Balance
  <2> QED BY <2>2, <2>3
<1>6. CASE StopRun \/ FinishRun \/ HandleError
  <2>1. pc' = "idle" /\ att' = att
    BY <1>6 DEF StopRun, FinishRun, HandleError, Exit
  <2>2. Debt' = 0
    BY <2>1 DEF Debt, Failing, Refused, Drifted
  <2>3. CASE StopRun
    <3>1. pc = "stop" /\ Here.state \in PreflightStates
      BY <2>3 DEF StopRun, IInv, AtPoint
    <3>2. CASE Excused
      <4>1. Unavoidable(slot)
        BY <3>1, <3>2 DEF Excused, Unavoidable, Here
      <4> QED BY <1>1, <1>2, <2>1, <2>2, <4>1, WasteStays, Balance
    <3>3. CASE ~Excused
      <4>1. Debt' + 1 <= Debt
        BY <1>2, <2>2, <3>1, <3>3 DEF Debt, Failing, Refused
      <4> QED BY <1>1, <2>1, <4>1, WasteStays, Balance
    <3> QED BY <3>2, <3>3
  <2>4. CASE FinishRun \/ HandleError
    <3>1. pc \in {"loop", "raise"}
      BY <2>4 DEF FinishRun, HandleError
    <3>2. Wasted' = Wasted
      BY <1>1, <2>1, <3>1, WasteStays DEF AtWork
    <3> QED BY <1>1, <1>2, <2>2, <3>2, Balance
  <2> QED BY <1>6, <2>3, <2>4
<1> QED BY <1>3, <1>4, <1>5, <1>6 DEF RunPlan

\* A command that starts finds the sources as planned; an edit is a fault.
LEMMA RestIsSolvent ==
  ASSUME IInv, IInv', Solvent,
         StartFresh \/ StartResume \/ Environment \/ UNCHANGED vars
  PROVE  Solvent'
<1>1. Debt \in 0 .. 2 /\ Debt' \in 0 .. 2
  BY DEF Debt
<1>2. CASE StartFresh \/ StartResume
  <2>1. /\ pc = "idle" /\ pc' = "summary" /\ att' = att /\ faults' = faults
        /\ AsPlanned' /\ slot' = slot /\ overlaps' = overlaps
    BY <1>2 DEF StartFresh, StartResume, AsPlanned, sources, locals
  <2>2. Debt' = 0
    BY <2>1 DEF Debt, Failing, Refused, Drifted
  <2>3. Wasted' = Wasted
    BY <2>1, WasteStays DEF AtWork
  <2> QED BY <1>1, <2>1, <2>2, <2>3, Balance
<1>3. CASE EditSources \/ RestoreSources \/ (\E s \in Slots : TargetWrites(s))
             \/ UNCHANGED vars
  <2>1. /\ pc' = pc /\ slot' = slot /\ mem' = mem /\ overlaps' = overlaps
        /\ \A s \in Slots : /\ att'[s].state = att[s].state
                           /\ att'[s].receipt = att[s].receipt
    BY <1>3, Known DEF EditSources, RestoreSources, TargetWrites, locals, vars,
      Attempts, sources
  <2>2. Wasted' = Wasted
    BY <2>1, WasteStays DEF AtWork
  <2>3. Refused' = Refused /\ Failing' = Failing
    BY <2>1, Known DEF Failing, Refused, Excused, Here
  <2>4. CASE EditSources
    <3>1. faults' = faults + 1
      BY <2>4 DEF EditSources, Fault
    <3>2. Debt' <= Debt + 1
      BY <2>3 DEF Debt
    <3> QED BY <2>2, <3>1, <3>2, Balance
  <2>5. CASE ~EditSources
    <3>1. faults' = faults /\ (~AsPlanned' => ~AsPlanned)
      BY <1>3, <2>5 DEF RestoreSources, TargetWrites, sources, vars, AsPlanned
    <3>2. Drifted' => Drifted
      BY <2>1, <2>3, <3>1 DEF Drifted
    <3>3. Debt' <= Debt
      BY <2>3, <3>2 DEF Debt
    <3> QED BY <2>2, <3>1, <3>3, Balance
  <2> QED BY <2>4, <2>5
<1> QED BY <1>2, <1>3 DEF Environment

\* A receipt is sealed before the workspace is removed and the attempt listed.
LEMMA StepKept == ASSUME IInv, IInv', Kept, [Next]_vars PROVE Kept'
<1> SUFFICES ASSUME pc' \in {"cleanup", "record"}, att'[slot'].state = "completed"
             PROVE  att'[slot'].receipt.sealed
  BY DEF Kept, Here, Sealed
<1>1. CASE Preflight \/ RunAttempt
  <2>1. slot' = slot
    BY <1>1, WorkingStep DEF locals
  <2>2. CASE WriteReceipt
    <3>1. att'[slot].receipt = SealReceipt(Outcome(item))
      BY <2>2, Known DEF WriteReceipt, Attempts
    <3> QED BY <2>1, <3>1 DEF SealReceipt
  <2>3. CASE WritePreflightReceipt
    <3>1. att'[slot].receipt = SealReceipt(mem.preflight)
      BY <2>3, Known DEF WritePreflightReceipt, Attempts
    <3> QED BY <2>1, <3>1 DEF SealReceipt
  <2>4. CASE RemoveWorkspace
    <3>1. /\ att'[slot].state = att[slot].state /\ pc = "cleanup"
          /\ att'[slot].receipt = att[slot].receipt
      BY <2>4, Known DEF RemoveWorkspace, Goto, Attempts
    <3> QED BY <2>1, <3>1 DEF Kept, Here, Sealed
  <2>5. CASE Preflight /\ ~WritePreflightReceipt
    BY <2>5 DEF Preflight, WriteMetadata, PrepareWorkspace,
      WritePreflightMetadata, WritePreflightVerification, Goto
  <2>6. CASE WriteTerminationFailure \/ WriteEvidenceFailure \/ RunCommand
    BY <2>6 DEF WriteTerminationFailure, WriteEvidenceFailure, RunCommand, Raise,
      CommandsLeft
  <2>7. CASE CommitInvocation \/ LaunchTarget \/ TargetQuiescent \/ CaptureDiff
    BY <2>7 DEF CommitInvocation, LaunchTarget, TargetQuiescent, CaptureDiff, Goto
  <2>8. CASE DigestTree \/ SealMaterial \/ EvaluateAssertions
               \/ WriteVerification \/ WriteCompleted
    BY <2>8 DEF DigestTree, SealMaterial, EvaluateAssertions, WriteVerification,
      WriteCompleted, Goto
  <2> QED BY <1>1, <2>2, <2>3, <2>4, <2>5, <2>6, <2>7, <2>8 DEF RunAttempt
<1>2. CASE RunPlan \/ StartFresh \/ StartResume
  BY <1>2 DEF RunPlan, WriteRunning, SkipCompleted, BeginAttempt, RecordAttempt,
    StopRun, FinishRun, HandleError, Exit, StartFresh, StartResume
<1>3. CASE Failure
  BY <1>3 DEF Failure, PrepareFails, TargetUnproven, MaterialFails, GitFails,
    Interrupt, InterruptTarget, InterruptCommand, Crash, NotQuiescent, Raise,
    Exit, Goto
<1>4. CASE Environment \/ UNCHANGED vars
  <2>1. /\ pc' = pc /\ slot' = slot
        /\ \A s \in Slots : /\ att'[s].state = att[s].state
                           /\ att'[s].receipt = att[s].receipt
    BY <1>4, Known DEF Environment, EditSources, RestoreSources, TargetWrites,
      locals, vars, Attempts
  <2> QED BY <2>1, Known DEF Kept, Here, Sealed
<1> QED BY <1>1, <1>2, <1>3, <1>4 DEF Next, Progress

\* No step removes an attempt directory, and only BeginAttempt makes one.
LEMMA UsedStays ==
  ASSUME IInv, IInv', Next, ~BeginAttempt
  PROVE  Used' = Used
<1>1. CASE Preflight \/ RunAttempt \/ PrepareFails \/ TargetUnproven \/ InterruptTarget
  <2>1. att[slot].state # "absent" /\ slot' = slot /\ slot \in Slots
    BY <1>1, WorkingStep, Known DEF IInv, AtPoint, Here, locals
  <2>2. att'[slot].state # "absent"
    <3>1. CASE pc' \in AttemptPoints
      BY <2>1, <3>1 DEF IInv, AtPoint, Here
    <3>2. CASE WriteTerminationFailure \/ WriteEvidenceFailure
      BY <3>2, Known DEF WriteTerminationFailure, WriteEvidenceFailure, Attempts
    <3>3. CASE InterruptTarget
      BY <2>1, <3>3, Known DEF InterruptTarget, Attempts
    <3>4. CASE PrepareFails \/ TargetUnproven \/ RunCommand
      BY <3>1, <3>4 DEF PrepareFails, TargetUnproven, RunCommand, CommandsLeft,
        NotQuiescent, Goto
    <3>5. CASE Preflight
      BY <3>1, <3>5 DEF Preflight, WriteMetadata, PrepareWorkspace,
        WritePreflightMetadata, WritePreflightVerification,
        WritePreflightReceipt, Goto
    <3>6. CASE CommitInvocation \/ LaunchTarget \/ TargetQuiescent \/ CaptureDiff
      BY <3>1, <3>6 DEF CommitInvocation, LaunchTarget, TargetQuiescent,
        CaptureDiff, Goto
    <3>7. CASE DigestTree \/ SealMaterial \/ EvaluateAssertions
                 \/ WriteVerification \/ WriteCompleted
      BY <3>1, <3>7 DEF DigestTree, SealMaterial, EvaluateAssertions,
        WriteVerification, WriteCompleted, Goto
    <3>8. CASE WriteReceipt \/ RemoveWorkspace
      BY <3>1, <3>8 DEF WriteReceipt, RemoveWorkspace, Goto
    <3> QED
      BY <1>1, <3>2, <3>3, <3>4, <3>5, <3>6, <3>7, <3>8 DEF RunAttempt
  <2>3. \A t \in Slots : t # slot => att'[t] = att[t]
    BY <1>1, OtherAttemptsStay
  <2> QED BY <2>1, <2>2, <2>3 DEF Used
<1>2. CASE \E s \in Slots : TargetWrites(s)
  <2>1. \A s \in Slots : att'[s].state = att[s].state
    BY <1>2, Known DEF TargetWrites, Attempts
  <2> QED BY <2>1 DEF Used
<1> QED BY <1>1, <1>2, AttemptsUntouched DEF Used

\* The new directory is numbered right above the others.
LEMMA StepDense == ASSUME IInv, IInv', Dense, [Next]_vars PROVE Dense'
<1>1. CASE UNCHANGED vars
  BY <1>1 DEF vars, Dense, Used
<1>2. CASE Next /\ ~BeginAttempt
  BY <1>2, UsedStays DEF Dense
<1>3. CASE BeginAttempt
  <2>1. PICK s \in Slots :
          /\ IsNextAttempt(s, item)
          /\ att' = [att EXCEPT ![s].state = "bare", ![s].prompt = caseNow]
    BY <1>3 DEF BeginAttempt
  <2>2. Used' = Used \cup {s}
    <3>1. att'[s].state = "bare" /\ \A t \in Slots : t # s => att'[t] = att[t]
      BY <2>1, Known DEF Attempts
    <3> QED BY <3>1 DEF Used
  <2>3. s = <<item, s[2]>> /\ s[2] \in Nat \ {0} /\ s[2] <= MaxAttempts
    BY <2>1 DEF IsNextAttempt, Slots
  <2>4. ASSUME NEW n \in 1 .. s[2], n # s[2]
        PROVE  <<item, n>> \in Used
    <3>1. s[2] # 1 /\ s[2] - 1 \in Nat /\ n \in 1 .. s[2] - 1
          /\ s[2] - 1 \in 1 .. MaxAttempts
      BY <2>3, <2>4
    <3>2. <<item, s[2] - 1>> \in Used
      BY <2>1, <3>1, <1>3 DEF IsNextAttempt, Used, Slots, BeginAttempt
    <3> QED BY <3>1, <3>2 DEF Dense
  <2>5. \A n \in 1 .. s[2] : <<s[1], n>> \in Used \cup {s}
    BY <2>3, <2>4
  <2>6. \A t \in Used \cup {s} : \A n \in 1 .. t[2] : <<t[1], n>> \in Used \cup {s}
    BY <2>5 DEF Dense
  <2> QED BY <2>2, <2>6 DEF Dense
<1> QED BY <1>1, <1>2, <1>3

LEMMA NextBudget == IInv /\ IInv' /\ Ledger /\ Budget /\ [Next]_vars => Budget'
<1> SUFFICES ASSUME IInv, IInv', Ledger, Budget, [Next]_vars PROVE Budget'
  OBVIOUS
<1>1. Solvent'
  BY WorkIsSolvent, FailureIsSolvent, PlanIsSolvent, RestIsSolvent
     DEF Budget, Next, Progress
<1> QED BY <1>1, StepKept, StepDense DEF Budget

LEMMA InitBudget == Init => Budget
<1> SUFFICES ASSUME Init PROVE Budget
  OBVIOUS
<1>1. \A s \in Slots : att[s].state = "absent"
  BY DEF Init, NoAttempt
<1>2. Wasted = {} /\ Used = {}
  BY <1>1 DEF Wasted, Used
<1>3. Cardinality(Wasted) = 0
  BY <1>2, FS_EmptySet
<1>4. Debt = 0 /\ faults = 0 /\ pc = "idle"
  BY DEF Init, Debt, Failing, Refused, Drifted
<1> QED BY <1>2, <1>3, <1>4 DEF Budget, Solvent, Kept, Dense

LEMMA BudgetInvariant == Spec => [](IInv /\ Ledger /\ Budget)
BY InitInv, NextInv, InitLedger, NextLedger, InitBudget, NextBudget, PTL DEF Spec

\* However often a run is interrupted, killed, edited under its feet and
\* resumed, each of these costs at most one attempt; what else is without a
\* completed record is a refusal of a case whose own fixture reaches into the
\* mount (runner.py:366-420, 470-660; subjects.py:156-158).
THEOREM FaultsBoundWaste == Spec => []WasteCostsFaults
<1>1. IInv /\ Budget => WasteCostsFaults
  <2> SUFFICES ASSUME IInv, Solvent PROVE Cardinality(Wasted) <= faults
    BY DEF Budget, WasteCostsFaults
  <2>1. Wasted \in SUBSET Slots
    BY DEF Wasted
  <2>2. Cardinality(Wasted) \in Nat /\ Debt \in Nat /\ faults \in Nat
    BY <2>1, SlotsAreFinite DEF Debt, IInv, TypeOK
  <2> QED BY <2>2 DEF Solvent
<1> QED BY <1>1, BudgetInvariant, PTL

\* The remainder of a promise of docs/WORKSPACE_MODEL_V0.2.md that a crash
\* between two writes breaks: when nothing went wrong, every attempt that a
\* completed run lists has its receipt.
THEOREM UndisturbedRunsAreSealed ==
  Spec => [](faults = 0 => CompletedRunHasReceipts)
<1>1. IInv /\ Ledger /\ Budget => (faults = 0 => CompletedRunHasReceipts)
  <2> SUFFICES ASSUME IInv, Ledger, Solvent, faults = 0,
                      summary.state = "completed", NEW e \in summary.attempts
               PROVE  Sealed(e.slot)
    BY DEF Budget, CompletedRunHasReceipts
  <2>1. Wasted \in SUBSET Slots
    BY DEF Wasted
  <2>2. Cardinality(Wasted) \in Nat /\ Debt \in Nat
    BY <2>1, SlotsAreFinite DEF Debt
  <2>3. Cardinality(Wasted) = 0
    BY <2>2 DEF Solvent
  <2>4. Wasted = {}
    BY <2>1, <2>3, SlotsAreFinite, FS_EmptySet
  <2>5. e.slot \in Slots /\ att[e.slot].state = "completed"
    BY DEF Ledger, Covers, Done
  <2>6. ~AtWork
    BY DEF Ledger, AtWork
  <2> QED BY <2>4, <2>5, <2>6 DEF Wasted, Finished, Unavoidable
<1> QED BY <1>1, BudgetInvariant, PTL

\* Nothing but a fault, or a fixture in the mount, makes a command end before
\* the run is complete.
Smooth ==
  faults = 0 =>
    /\ pc # "raise"
    /\ pc = "idle" =>
         \/ summary.state \in {None, "completed"}
         \/ summary.state = "input-drift" /\ overlaps # {}

LEMMA StepSmooth ==
  ASSUME IInv, Budget, Smooth, [Next]_vars
  PROVE  Smooth'
<1>1. Failing => faults > 0
  <2>1. Wasted \in SUBSET Slots
    BY DEF Wasted
  <2>2. Cardinality(Wasted) \in Nat /\ faults \in Nat
    BY <2>1, SlotsAreFinite DEF IInv, TypeOK
  <2>3. Failing => Debt >= 1 /\ Debt \in Nat
    BY DEF Debt
  <2> QED BY <2>2, <2>3 DEF Budget, Solvent
<1>2. faults \in Nat
  BY DEF IInv, TypeOK
<1>3. CASE Failure \/ EditSources
  <2>1. faults' = faults + 1
    BY <1>3 DEF Failure, PrepareFails, TargetUnproven, MaterialFails, GitFails,
      Interrupt, InterruptTarget, InterruptCommand, Crash, EditSources, Fault
  <2> QED BY <1>2, <2>1 DEF Smooth
<1>4. CASE Preflight \/ RunAttempt
  <2>1. /\ pc' \in AttemptPoints \cup {"raise"}
        /\ pc' = "raise" => Failing
    <3>1. CASE Preflight
      BY <3>1 DEF Preflight, WriteMetadata, PrepareWorkspace,
        WritePreflightMetadata, WritePreflightVerification,
        WritePreflightReceipt, Goto
    <3>2. CASE WriteTerminationFailure \/ WriteEvidenceFailure
      BY <3>2 DEF WriteTerminationFailure, WriteEvidenceFailure, Raise, Failing
    <3>3. CASE CommitInvocation \/ LaunchTarget \/ TargetQuiescent \/ CaptureDiff
      BY <3>3 DEF CommitInvocation, LaunchTarget, TargetQuiescent, CaptureDiff, Goto
    <3>4. CASE DigestTree \/ SealMaterial \/ EvaluateAssertions \/ RunCommand
      BY <3>4 DEF DigestTree, SealMaterial, EvaluateAssertions, RunCommand,
        CommandsLeft, Goto
    <3>5. CASE WriteVerification \/ WriteCompleted \/ WriteReceipt \/ RemoveWorkspace
      BY <3>5 DEF WriteVerification, WriteCompleted, WriteReceipt,
        RemoveWorkspace, Goto
    <3> QED BY <1>4, <3>1, <3>2, <3>3, <3>4, <3>5 DEF RunAttempt
  <2>2. CASE pc' # "raise"
    BY <2>1, <2>2 DEF Smooth
  <2>3. CASE Failing
    <3>1. faults' = faults
      BY <1>4, WorkKeepsFaults
    <3> QED BY <1>1, <1>2, <2>3, <3>1 DEF Smooth
  <2> QED BY <2>1, <2>2, <2>3
<1>5. CASE RunPlan
  <2>1. faults' = faults
    BY <1>5 DEF RunPlan, WriteRunning, SkipCompleted, BeginAttempt,
      RecordAttempt, StopRun, FinishRun, HandleError
  <2>2. CASE StopRun
    <3>1. pc = "stop" /\ Refused
      BY <2>2 DEF StopRun, Refused, IInv, AtPoint
    <3>2. CASE Failing
      BY <1>1, <1>2, <2>1, <3>2 DEF Smooth
    <3>3. CASE ~Failing
      <4>1. slot[1] \in overlaps /\ att[slot].state = "input-drift"
        BY <3>1, <3>3 DEF Failing, Excused, Here
      <4>2. /\ pc' = "idle" /\ summary'.state = "input-drift"
            /\ overlaps' = overlaps
        BY <2>2, <4>1 DEF StopRun, Exit, sources, IInv, TypeOK
      <4> QED BY <4>1, <4>2 DEF Smooth
    <3> QED BY <3>2, <3>3
  <2>3. CASE FinishRun
    BY <2>3 DEF FinishRun, Exit, Smooth
  <2>4. CASE HandleError
    BY <2>1, <2>4 DEF HandleError, Smooth
  <2>5. CASE WriteRunning \/ SkipCompleted \/ BeginAttempt \/ RecordAttempt
    BY <2>5 DEF WriteRunning, SkipCompleted, BeginAttempt, RecordAttempt, Smooth
  <2> QED BY <1>5, <2>2, <2>3, <2>4, <2>5 DEF RunPlan
<1>6. CASE StartFresh \/ StartResume
  BY <1>6 DEF StartFresh, StartResume, Smooth
<1>7. CASE RestoreSources \/ (\E s \in Slots : TargetWrites(s)) \/ UNCHANGED vars
  BY <1>7 DEF RestoreSources, TargetWrites, runFiles, vars, Smooth, sources
<1> QED
  BY <1>3, <1>4, <1>5, <1>6, <1>7 DEF Next, Progress, Environment

\* Nobody has edited the sources, and this is what the attempts have read; a
\* case whose fixture reaches into the mount never got past the preflight.
Unedited ==
  faults = 0 =>
    /\ AsPlanned
    /\ \A s \in Slots :
         /\ att[s].state # "absent" => att[s].prompt = "planned"
         /\ att[s].mount # None \/ att[s].invoked => att[s].fixture = "planned"
         /\ s[1] \in overlaps =>
              att[s].mount # "planned" /\ att[s].state # "completed"

\* Only prepare_workspace delivers inputs, and only one write invokes.
LEMMA InputsStay ==
  ASSUME IInv, Preflight \/ RunAttempt, ~PrepareWorkspace, ~CommitInvocation
  PROVE  /\ att'[slot].prompt = att[slot].prompt
         /\ att'[slot].fixture = att[slot].fixture
         /\ att'[slot].mount = att[slot].mount
         /\ att'[slot].invoked = att[slot].invoked
         /\ att'[slot].state = "completed" =>
              att[slot].state = "completed" \/ att[slot].mount = "planned"
<1> DEFINE Same == /\ att'[slot].prompt = att[slot].prompt
                   /\ att'[slot].fixture = att[slot].fixture
                   /\ att'[slot].mount = att[slot].mount
                   /\ att'[slot].invoked = att[slot].invoked
                   /\ att'[slot].state = "completed" =>
                        \/ att[slot].state = "completed"
                        \/ att[slot].mount = "planned"
<1>1. /\ slot \in Slots /\ att \in [Slots -> Attempts]
      /\ att[slot] \in Attempts
  BY Known
<1>3. ASSUME WriteMetadata PROVE Same
  BY <1>1, <1>3 DEF WriteMetadata, Attempts
<1>4. ASSUME WritePreflightMetadata PROVE Same
  <2>1. mem.preflight # "completed"
    BY <1>4 DEF WritePreflightMetadata, Goto, IInv, AtPoint, PreflightStates
  <2> QED BY <1>1, <1>4, <2>1 DEF WritePreflightMetadata, Attempts
<1>5. ASSUME WritePreflightVerification \/ WritePreflightReceipt PROVE Same
  BY <1>1, <1>5 DEF WritePreflightVerification, WritePreflightReceipt, Attempts
<1>6. ASSUME LaunchTarget \/ TargetQuiescent PROVE Same
  BY <1>1, <1>6 DEF LaunchTarget, TargetQuiescent, Attempts
<1>7. ASSUME WriteTerminationFailure PROVE Same
  BY <1>1, <1>7 DEF WriteTerminationFailure, Attempts
<1>8. ASSUME WriteEvidenceFailure PROVE Same
  BY <1>1, <1>8 DEF WriteEvidenceFailure, Attempts
<1>9. ASSUME CaptureDiff \/ DigestTree \/ SealMaterial PROVE Same
  BY <1>1, <1>9 DEF CaptureDiff, DigestTree, SealMaterial, Attempts
<1>10. ASSUME EvaluateAssertions \/ RunCommand PROVE Same
  BY <1>1, <1>10 DEF EvaluateAssertions, RunCommand, Attempts
<1>11. ASSUME WriteVerification \/ WriteReceipt \/ RemoveWorkspace PROVE Same
  BY <1>1, <1>11 DEF WriteVerification, WriteReceipt, RemoveWorkspace, Attempts
<1>12. ASSUME WriteCompleted PROVE Same
  <2>1. att[slot].mount = "planned"
    BY <1>12 DEF WriteCompleted, Goto, IInv, AtPoint, Here
  <2> QED BY <1>1, <1>12, <2>1 DEF WriteCompleted, Attempts
<1> QED
  BY <1>3, <1>4, <1>5, <1>6, <1>7, <1>8, <1>9, <1>10, <1>11, <1>12
  DEF Preflight, RunAttempt

LEMMA UneditedStays == ASSUME IInv, Unedited, [Next]_vars PROVE Unedited'
<1> SUFFICES ASSUME faults' = 0 PROVE Unedited'
  BY DEF Unedited
<1>1. faults \in Nat
  BY DEF IInv, TypeOK
<1>2. CASE Failure \/ EditSources
  <2>1. faults' = faults + 1
    BY <1>2 DEF Failure, PrepareFails, TargetUnproven, MaterialFails, GitFails,
      Interrupt, InterruptTarget, InterruptCommand, Crash, EditSources, Fault
  <2> QED BY <1>1, <2>1
<1>3. CASE Preflight \/ RunAttempt
  <2>1. faults = 0 /\ UNCHANGED sources /\ slot \in Slots
    BY <1>3, WorkKeepsFaults, WorkingStep, Known DEF AttemptPoints, IInv, TypeOK
  <2>2. \A s \in Slots \ {slot} : att'[s] = att[s]
    BY <1>3, OtherAttemptsStay
  <2>3. /\ att[slot].state # "absent" /\ att[slot].prompt = "planned"
        /\ att[slot].mount # None \/ att[slot].invoked
             => att[slot].fixture = "planned"
        /\ slot[1] \in overlaps =>
             att[slot].mount # "planned" /\ att[slot].state # "completed"
        /\ slot[1] = item
    BY <1>3, <2>1, WorkingStep DEF IInv, AtPoint, Here, Unedited
  <2>4. /\ att'[slot].prompt = "planned"
        /\ att'[slot].mount # None \/ att'[slot].invoked
             => att'[slot].fixture = "planned"
        /\ slot[1] \in overlaps =>
             att'[slot].mount # "planned" /\ att'[slot].state # "completed"
    <3>1. caseNow = "planned"
      BY <2>1 DEF Unedited, AsPlanned
    <3>2. att[slot] \in Attempts /\ att \in [Slots -> Attempts]
      BY Known
    <3>3. pc \in {"invoke"} \cup InvokedPoints => att[slot].mount # None
      BY DEF IInv, AtPoint, Here
    <3>4. CASE PrepareWorkspace
      <4>1. PICK mount \in Delivered(item) :
              att' = [att EXCEPT ![slot].fixture = caseNow,
                                 ![slot].mount = mount,
                                 ![slot].workspace = "base"]
        BY <3>4, Zenon DEF PrepareWorkspace
      <4>2. item \in overlaps => mount = "edited"
        BY <3>1, <4>1 DEF Delivered
      <4>3. /\ att'[slot].fixture = caseNow /\ att'[slot].mount = mount
            /\ att'[slot].prompt = att[slot].prompt
            /\ att'[slot].state = att[slot].state
        BY <2>1, <3>2, <4>1 DEF Attempts
      <4> QED BY <2>3, <3>1, <4>2, <4>3
    <3>5. CASE CommitInvocation
      BY <2>1, <2>3, <3>2, <3>3, <3>5 DEF CommitInvocation, Goto
    <3>6. CASE ~PrepareWorkspace /\ ~CommitInvocation
      BY <1>3, <2>3, <3>6, InputsStay
    <3> QED BY <3>4, <3>5, <3>6
  <2> QED BY <2>1, <2>2, <2>3, <2>4 DEF Unedited, AsPlanned, sources
<1>4. CASE BeginAttempt
  BY <1>4, Known DEF BeginAttempt, Unedited, AsPlanned, sources, Attempts
<1>5. CASE \E t \in Slots : TargetWrites(t)
  BY <1>5, Known DEF TargetWrites, Unedited, AsPlanned, sources, Attempts
<1>6. CASE /\ RunPlan \/ StartFresh \/ StartResume \/ RestoreSources
           /\ ~BeginAttempt
  <2>1. att' = att
    BY <1>6 DEF RunPlan, WriteRunning, SkipCompleted, RecordAttempt, StopRun,
      FinishRun, HandleError, Exit, StartFresh, StartResume, RestoreSources
  <2>2. /\ faults' = faults /\ (sources' = sources \/ AsPlanned')
        /\ overlaps' = overlaps
    BY <1>6 DEF RunPlan, WriteRunning, SkipCompleted, RecordAttempt, StopRun,
      FinishRun, HandleError, Exit, StartFresh, StartResume, RestoreSources,
      AsPlanned, sources
  <2> QED BY <2>1, <2>2 DEF Unedited, AsPlanned, sources
<1>7. CASE UNCHANGED vars
  BY <1>7 DEF vars, Unedited, AsPlanned
<1> QED
  BY <1>2, <1>3, <1>4, <1>5, <1>6, <1>7 DEF Next, Progress, Environment

\* The remainder of a promise of docs/EVIDENCE_MODEL.md that an edit between two
\* attempts breaks: when nothing went wrong, all sealed attempts of a run were
\* given the same prompt and fixture (runner.py:326-331, workspace.py:41-81).
THEOREM UndisturbedInputsMatch ==
  Spec => [](faults = 0 => MatchedInputsIdentical)
<1>1. Init => Unedited
  BY DEF Init, Unedited, AsPlanned, NoAttempt
<1>2. IInv /\ Unedited => (faults = 0 => MatchedInputsIdentical)
  <2>1. IInv => \A s \in Slots : att[s].invoked => att[s].state # "absent"
    BY DEF IInv, LocalInv, NoAttempt
  <2> QED BY <2>1 DEF Unedited, MatchedInputsIdentical
<1> QED BY <1>1, <1>2, UneditedStays, Invariant, PTL DEF Spec

\* When nothing went wrong, a command that has ended has completed the run,
\* unless the fixture of some case reaches into its mount: then it has ended as
\* input-drift (runner.py:239-249, subjects.py:156-158).
THEOREM UndisturbedRunsComplete ==
  Spec => [](faults = 0 /\ pc = "idle" =>
               summary.state \in
                 {None, IF overlaps = {} THEN "completed" ELSE "input-drift"})
<1>1. Init => Smooth /\ Unedited
  BY DEF Init, Smooth, NoSummary, Unedited, AsPlanned, NoAttempt
<1>2. IInv /\ Budget /\ Smooth /\ [Next]_vars => Smooth'
  BY StepSmooth
<1>3. IInv /\ Ledger /\ Smooth /\ Unedited =>
        (faults = 0 /\ pc = "idle" =>
           summary.state \in
             {None, IF overlaps = {} THEN "completed" ELSE "input-drift"})
  <2> SUFFICES ASSUME IInv, Ledger, Unedited, faults = 0,
                      summary.state = "completed", NEW i \in overlaps
               PROVE  FALSE
    BY DEF Smooth
  <2>1. i \in Items
    BY DEF IInv, TypeOK
  <2>2. PICK e \in summary.attempts : e.slot[1] = i
    BY <2>1 DEF Ledger, Covers, Items
  <2>3. e.slot \in Slots /\ att[e.slot].state = "completed"
    BY <2>2 DEF Ledger, Covers, Done
  <2> QED BY <2>2, <2>3 DEF Unedited
<1> QED
  BY <1>1, <1>2, <1>3, UneditedStays, BudgetInvariant, PTL DEF Spec

\* A set of numbers that is not empty has a least one.
LEMMA LeastOf ==
  ASSUME NEW S \in SUBSET Nat, S # {}
  PROVE  \E n \in S : \A m \in S : n <= m
<1> DEFINE R == OpToRel(<, Nat)
<1>1. IsWellFoundedOn(R, Nat)
  BY NatLessThanWellFounded, Zenon
<1>2. \A m, n \in Nat : m < n => <<m, n>> \in R
  BY DEF OpToRel
<1> HIDE DEF R
<1>3. PICK n \in S : \A m \in S : <<m, n>> \notin R
  BY <1>1, WFMin
<1>4. ASSUME NEW m \in S PROVE n <= m
  <2>1. m \in Nat /\ n \in Nat /\ ~(m < n)
    BY <1>2, <1>3
  <2> QED BY <2>1
<1> QED BY <1>4

\* An item that is not skipped has completed nothing.
LEMMA OpenItem ==
  ASSUME IInv, pc = "loop", item \in Items, ~Skips(item)
  PROVE  \A t \in Done : t[1] # item
<1>1. CASE resume
  BY <1>1 DEF Skips, CompletedSlots, Done
<1>2. CASE ~resume
  <2>1. Done \subseteq Used
    BY DEF Done, Used
  <2>2. \A t \in Used : t[1] < item \/ (t[1] = item /\ pc # "loop")
    BY <1>2 DEF IInv, Fresh
  <2>3. \A t \in Used : t[1] < item /\ t[1] \in Nat /\ item \in Nat
    BY <2>2, Numbers
  <2> QED BY <2>1, <2>3
<1> QED BY <1>1, <1>2

\* When every directory of an item is used and none completed, faults did it,
\* or its own fixture.
LEMMA ExhaustedByFaults ==
  ASSUME IInv, Solvent, pc = "loop", item \in Items, ~Skips(item),
         item \notin overlaps, \A n \in 1 .. MaxAttempts : <<item, n>> \in Used
  PROVE  MaxAttempts <= faults
<1>1. {item} \X (1 .. MaxAttempts) \in SUBSET Wasted
  BY OpenItem DEF Wasted, Used, Done, AtWork, Finished, Unavoidable
<1>2. Wasted \in SUBSET Slots
  BY DEF Wasted
<1>3. Cardinality({item} \X (1 .. MaxAttempts)) = MaxAttempts
  <2>1. IsFiniteSet({item}) /\ Cardinality({item}) = 1
    BY FS_Singleton
  <2>2. IsFiniteSet(1 .. MaxAttempts) /\ Cardinality(1 .. MaxAttempts) = MaxAttempts
    BY FS_Interval
  <2>3. \A S, T : IsFiniteSet(S) /\ IsFiniteSet(T)
                  => Cardinality(S \X T) = Cardinality(S) * Cardinality(T)
    BY FS_Product
  <2>4. Cardinality({item} \X (1 .. MaxAttempts))
          = Cardinality({item}) * Cardinality(1 .. MaxAttempts)
    BY <2>1, <2>2, <2>3, Zenon
  <2> QED BY <2>1, <2>2, <2>4
<1>4. MaxAttempts <= Cardinality(Wasted)
  BY <1>1, <1>2, <1>3, SlotsAreFinite, FS_Subset
<1>5. Cardinality(Wasted) \in Nat /\ Debt \in Nat /\ faults \in Nat
  BY <1>2, SlotsAreFinite DEF Debt, IInv, TypeOK
<1> QED BY <1>4, <1>5 DEF Solvent

\* As long as there were fewer faults than attempt directories, the bound on
\* directories takes no attempt away from a case that does not spoil its own
\* mount: _next_attempt_dir finds a number (runner.py:41-48).  Of a case that
\* does, the bound cuts further refused attempts, each like the last.
THEOREM AttemptsNeverRunOut ==
  Spec => [](pc = "loop" /\ item \in Items \ overlaps /\ ~Skips(item)
               /\ faults < MaxAttempts => \E s \in Slots : IsNextAttempt(s, item))
<1>1. IInv /\ Budget =>
        (pc = "loop" /\ item \in Items \ overlaps /\ ~Skips(item)
           /\ faults < MaxAttempts => \E s \in Slots : IsNextAttempt(s, item))
  <2> SUFFICES ASSUME IInv, Budget, pc = "loop", item \in Items \ overlaps,
                      ~Skips(item), faults < MaxAttempts
               PROVE  \E s \in Slots : IsNextAttempt(s, item)
    OBVIOUS
  <2>0. Solvent /\ Dense /\ item \in Items /\ item \notin overlaps
    BY DEF Budget
  <2> DEFINE Free == {n \in 1 .. MaxAttempts : <<item, n>> \notin Used}
  <2>1. Free # {}
    <3>1. SUFFICES ASSUME Free = {} PROVE FALSE
      OBVIOUS
    <3>2. MaxAttempts <= faults
      BY <2>0, <3>1, ExhaustedByFaults
    <3>3. faults \in Nat
      BY DEF IInv, TypeOK
    <3> QED BY <3>2, <3>3
  <2>2. PICK n \in Free : \A m \in Free : n <= m
    <3>1. Free \in SUBSET Nat
      OBVIOUS
    <3> HIDE DEF Free
    <3> QED BY <2>1, <3>1, LeastOf
  <2>3. n \in 1 .. MaxAttempts /\ <<item, n>> \in Slots
    BY DEF Slots
  <2>4. n # 1 => att[<<item, n - 1>>].state # "absent"
    <3> SUFFICES ASSUME n # 1 PROVE <<item, n - 1>> \in Used
      BY DEF Used
    <3>1. n - 1 \in 1 .. MaxAttempts /\ ~(n <= n - 1)
      BY <2>3
    <3> QED BY <2>2, <3>1
  <2>5. ASSUME NEW m \in n .. MaxAttempts
        PROVE  att[<<item, m>>].state = "absent"
    <3>1. m \in 1 .. MaxAttempts /\ n \in 1 .. m /\ <<item, m>> \in Slots
      BY <2>3 DEF Slots
    <3>2. <<item, m>> \notin Used
      BY <2>0, <2>2, <3>1 DEF Dense
    <3> QED BY <3>1, <3>2 DEF Used
  <2>6. IsNextAttempt(<<item, n>>, item)
    BY <2>4, <2>5 DEF IsNextAttempt
  <2> QED BY <2>3, <2>6
<1> QED BY <1>1, BudgetInvariant, PTL

-----------------------------------------------------------------------------
(* A command ends *)

\* Three measures of what a `fieldlab run` process still has to do: the items,
\* the points of the current iteration, the command assertions of its case.
ItemsLeft == IF pc = "idle" THEN 0 ELSE NumItems + 1 - item

PointsLeft ==
  CASE pc = "summary" -> 24 [] pc = "loop" -> 23
    [] pc = "metadata" -> 22 [] pc = "prepare" -> 21
    [] pc = "preflight-metadata" -> 20 [] pc = "preflight-verification" -> 19
    [] pc = "preflight-receipt" -> 18 [] pc = "invoke" -> 17
    [] pc = "launch" -> 16 [] pc = "wait" -> 15
    [] pc = "termination" -> 14 [] pc = "seal-diff" -> 13
    [] pc = "seal-tree" -> 12 [] pc = "material" -> 11
    [] pc = "evidence-failure" -> 10 [] pc = "assertions" -> 9
    [] pc = "commands" -> 8 [] pc = "completed" -> 7
    [] pc = "receipt" -> 6 [] pc = "cleanup" -> 5
    [] pc = "record" -> 4 [] pc = "stop" -> 3
    [] pc = "raise" -> 2 [] pc = "idle" -> 1

CommandsDue ==
  IF CommandsLeft THEN Shape[item].commands - mem.commands ELSE 0

\* The first of them that moves moves down.
Nearer ==
  \/ ItemsLeft' < ItemsLeft
  \/ /\ ItemsLeft' = ItemsLeft
     /\ \/ PointsLeft' < PointsLeft
        \/ PointsLeft' = PointsLeft /\ CommandsDue' < CommandsDue

LEMMA MeasuresAreNumbers ==
  IInv => ItemsLeft \in Nat /\ PointsLeft \in Nat /\ CommandsDue \in Nat
<1> SUFFICES ASSUME IInv
             PROVE  ItemsLeft \in Nat /\ PointsLeft \in Nat /\ CommandsDue \in Nat
  OBVIOUS
<1>1. ItemsLeft \in Nat
  BY Known DEF ItemsLeft
<1>2. PointsLeft \in Nat
  BY DEF IInv, TypeOK, PointsLeft
<1>3. CommandsDue \in Nat
  <2> SUFFICES ASSUME CommandsLeft PROVE Shape[item].commands - mem.commands \in Nat
    BY DEF CommandsDue
  <2>1. item \in Items
    BY DEF CommandsLeft, IInv, AtPoint
  <2>2. Shape[item].commands \in Nat /\ mem.commands \in Nat
    BY <2>1, Known DEF CaseShapes, Locals
  <2> QED BY <2>2 DEF CommandsLeft
<1> QED BY <1>1, <1>2, <1>3

\* Within an iteration the points come in one order.
LEMMA DownIsNearer ==
  ASSUME IInv, item' = item, pc # "idle", pc' # "idle", PointsLeft' < PointsLeft
  PROVE  Nearer
BY DEF Nearer, ItemsLeft

LEMMA PreflightIsNearer == ASSUME IInv, Preflight PROVE Nearer
<1>1. item' = item
  BY WorkingStep DEF locals
<1>2. \/ pc = "metadata" /\ pc' = "prepare"
      \/ pc = "prepare" /\ pc' \in {"invoke", "preflight-metadata"}
      \/ pc = "preflight-metadata" /\ pc' = "preflight-verification"
      \/ pc = "preflight-verification" /\ pc' = "preflight-receipt"
      \/ pc = "preflight-receipt" /\ pc' = "cleanup"
  BY DEF Preflight, WriteMetadata, PrepareWorkspace, WritePreflightMetadata,
    WritePreflightVerification, WritePreflightReceipt, Goto
<1>3. PointsLeft' < PointsLeft
  BY <1>2 DEF PointsLeft
<1> QED BY <1>1, <1>2, <1>3, DownIsNearer

LEMMA AttemptIsNearer == ASSUME IInv, RunAttempt PROVE Nearer
<1>1. item' = item
  BY WorkingStep DEF locals
<1>2. CASE RunCommand
  <2>1. pc = "commands" /\ pc' = pc /\ item \in Items
    BY <1>2 DEF RunCommand, CommandsLeft, IInv, AtPoint
  <2>2. mem.commands \in Nat /\ Shape[item].commands \in Nat
    BY <2>1, Known DEF CaseShapes, Locals
  <2>3. mem'.commands = mem.commands + 1
    BY <1>2, Known DEF RunCommand, Locals
  <2>4. CommandsDue' < CommandsDue
    BY <1>1, <1>2, <2>1, <2>2, <2>3 DEF RunCommand, CommandsDue, CommandsLeft
  <2> QED BY <1>1, <2>1, <2>4 DEF Nearer, ItemsLeft, PointsLeft
<1>3. CASE ~RunCommand
  <2>1. \/ pc = "invoke" /\ pc' = "launch"
        \/ pc = "launch" /\ pc' = "wait"
        \/ pc = "wait" /\ pc' = "seal-diff"
        \/ pc \in {"termination", "evidence-failure"} /\ pc' = "raise"
        \/ pc = "seal-diff" /\ pc' = "seal-tree"
        \/ pc = "seal-tree" /\ pc' = "material"
        \/ pc = "material" /\ pc' = "assertions"
        \/ pc = "assertions" /\ pc' = "commands"
        \/ pc = "commands" /\ pc' = "completed"
        \/ pc = "completed" /\ pc' = "receipt"
        \/ pc = "receipt" /\ pc' = "cleanup"
        \/ pc = "cleanup" /\ pc' = "record"
    <3>1. CASE CommitInvocation \/ LaunchTarget \/ TargetQuiescent \/ CaptureDiff
      BY <3>1 DEF CommitInvocation, LaunchTarget, TargetQuiescent, CaptureDiff, Goto
    <3>2. CASE DigestTree \/ SealMaterial \/ EvaluateAssertions
      BY <3>2 DEF DigestTree, SealMaterial, EvaluateAssertions, Goto
    <3>3. CASE WriteTerminationFailure \/ WriteEvidenceFailure
      BY <3>3 DEF WriteTerminationFailure, WriteEvidenceFailure, Raise
    <3>4. CASE WriteVerification \/ WriteCompleted \/ WriteReceipt \/ RemoveWorkspace
      BY <3>4 DEF WriteVerification, WriteCompleted, WriteReceipt,
        RemoveWorkspace, Goto
    <3> QED BY <1>3, <3>1, <3>2, <3>3, <3>4 DEF RunAttempt
  <2>2. PointsLeft' < PointsLeft
    BY <2>1 DEF PointsLeft
  <2> QED BY <1>1, <2>1, <2>2, DownIsNearer
<1> QED BY <1>2, <1>3

\* A process that ends has nothing left.
LEMMA ExitIsNearer == ASSUME IInv, pc # "idle", Exit PROVE Nearer
<1>1. ItemsLeft' = 0 /\ PointsLeft' = 1
  BY DEF Exit, ItemsLeft, PointsLeft
<1>2. PointsLeft > 1
  BY DEF IInv, TypeOK, PointsLeft
<1> QED BY <1>1, <1>2, MeasuresAreNumbers DEF Nearer

LEMMA PlanIsNearer == ASSUME IInv, RunPlan PROVE Nearer
<1>1. CASE WriteRunning \/ BeginAttempt
  <2>1. /\ item' = item
        /\ \/ pc = "summary" /\ pc' = "loop"
           \/ pc = "loop" /\ pc' = "metadata"
    BY <1>1 DEF WriteRunning, BeginAttempt, locals
  <2>2. PointsLeft' < PointsLeft
    BY <2>1 DEF PointsLeft
  <2> QED BY <2>1, <2>2, DownIsNearer
<1>2. CASE SkipCompleted \/ (RecordAttempt /\ pc' = "loop")
  <2>1. item' = item + 1 /\ pc # "idle" /\ pc' # "idle"
    BY <1>2 DEF SkipCompleted, RecordAttempt
  <2>2. ItemsLeft' < ItemsLeft
    BY <2>1, Known DEF ItemsLeft
  <2> QED BY <2>2 DEF Nearer
<1>3. CASE RecordAttempt /\ pc' # "loop"
  <2>1. item' = item /\ pc = "record" /\ pc' = "stop"
    BY <1>3 DEF RecordAttempt
  <2>2. PointsLeft' < PointsLeft
    BY <2>1 DEF PointsLeft
  <2> QED BY <2>1, <2>2, DownIsNearer
<1>4. CASE StopRun \/ FinishRun \/ HandleError
  BY <1>4, ExitIsNearer DEF StopRun, FinishRun, HandleError
<1> QED BY <1>1, <1>2, <1>3, <1>4 DEF RunPlan

LEMMA FailureIsNearer == ASSUME IInv, Failure PROVE Nearer
<1>1. CASE PrepareFails \/ TargetUnproven \/ MaterialFails
  <2>1. /\ item' = item
        /\ \/ pc = "prepare" /\ pc' = "preflight-metadata"
           \/ pc = "wait" /\ pc' = "termination"
           \/ pc = "material" /\ pc' = "evidence-failure"
    BY <1>1 DEF PrepareFails, TargetUnproven, MaterialFails, NotQuiescent, Goto,
      locals
  <2>2. PointsLeft' < PointsLeft
    BY <2>1 DEF PointsLeft
  <2> QED BY <2>1, <2>2, DownIsNearer
<1>2. CASE GitFails \/ Interrupt \/ InterruptTarget \/ InterruptCommand
  <2>1. item' = item /\ pc \notin {"idle", "raise"} /\ pc' = "raise"
    BY <1>2 DEF GitFails, Interrupt, InterruptTarget, InterruptCommand, Raise,
      CommandsLeft, locals
  <2>2. PointsLeft' = 2 /\ PointsLeft > 2
    BY <2>1 DEF IInv, TypeOK, PointsLeft
  <2> QED BY <2>1, <2>2, DownIsNearer
<1>3. CASE Crash
  BY <1>3, ExitIsNearer DEF Crash
<1> QED BY <1>1, <1>2, <1>3 DEF Failure

\* A `fieldlab run` command ends after boundedly many steps of its own, whatever
\* fails: none of its loops (items, attempts, command assertions) can go round
\* for ever, and an error never leads back into one (runner.py:590-700).
THEOREM CommandIsFinite ==
  Spec => /\ [](ItemsLeft \in Nat /\ PointsLeft \in Nat /\ CommandsDue \in Nat)
          /\ [][Progress \/ Failure => Nearer]_vars
<1>1. IInv => ItemsLeft \in Nat /\ PointsLeft \in Nat /\ CommandsDue \in Nat
  BY MeasuresAreNumbers
<1>2. IInv => [Progress \/ Failure => Nearer]_vars
  BY PlanIsNearer, PreflightIsNearer, AttemptIsNearer, FailureIsNearer DEF Progress
<1> QED BY <1>1, <1>2, Invariant, PTL DEF Spec

=============================================================================
