------------------------------- MODULE Runner -------------------------------
(***************************************************************************)
(* The live runner of Skill Field Lab: run_plan and run_attempt of         *)
(* fieldlab/runner.py.  One run directory is driven by a succession of     *)
(* `fieldlab run` processes (first without, then with --resume), any of    *)
(* which may be interrupted, fail, or die between two writes.  What is on  *)
(* disk survives; the locals of the Python process do not.                 *)
(*                                                                         *)
(* Bytes are abstracted to the version of the worker tree they were read   *)
(* from, so that "these two artifacts describe the same bytes" is a        *)
(* comparison of two versions.  A process group that was not proven dead   *)
(* may keep writing to its workspace.                                      *)
(*                                                                         *)
(* Not modelled here: wording, timestamps, the content of the assertions   *)
(* (they pass or fail), and how process.py establishes quiescence (module  *)
(* BoundedProcess).                                                        *)
(***************************************************************************)
EXTENDS Naturals, FiniteSets

CONSTANTS
  NumItems,       \* length of plan["matrix"]
  Shape,          \* what the case of each item declares
  KeepWorkspace,  \* plan["execution"]["keep_workspace"]
  MaxAttempts,    \* bound: attempt directories per item
  MaxFaults       \* bound: faults of the environment in one behaviour

Items == 1 .. NumItems

\* A case: human_review_material declared, number of command assertions, some
\* deterministic assertion declared, human review requirements declared.
CaseShapes == [material: BOOLEAN, commands: Nat,
               deterministic: BOOLEAN, review: BOOLEAN]

ASSUME NumItemsAssumption == NumItems \in Nat \ {0}
ASSUME MaxAttemptsAssumption == MaxAttempts \in Nat \ {0}
ASSUME KeepAssumption == KeepWorkspace \in BOOLEAN
ASSUME MaxFaultsAssumption == MaxFaults \in Nat
\* contracts.py accepts material only with review requirements, and a command
\* assertion is a deterministic assertion.
ASSUME ShapeAssumption ==
  /\ Shape \in [Items -> CaseShapes]
  /\ \A i \in Items : /\ Shape[i].material => Shape[i].review
                      /\ Shape[i].commands > 0 => Shape[i].deterministic

\* An attempt directory: <<item, n>> is .../repeat-RRR/attempt-00n.
Slots == Items \X (1 .. MaxAttempts)
FirstSlot == <<1, 1>>

None == "none"

Inputs == {"planned", "edited"}            \* bytes of a source of the lab
Trees == {"base", "edited", "later"}       \* bytes of a worker workspace
OptInputs == Inputs \cup {None}
OptTrees == Trees \cup {None}

\* What process.py reports of a quiescent target.
Processes == {"exited", "nonzero", "timeout", "orphan"}
PreflightStates == {"input-drift", "preflight-failed"}
\* "absent": no directory; "bare": a directory without metadata.json.
AttemptStates == {"absent", "bare", "running", "completed",
                  "termination-failed", "evidence-failed"} \cup PreflightStates
Outcomes == {"pending", "pass", "fail", "error", "timeout", "inconclusive",
             "termination-failure"} \cup PreflightStates
Verdicts == {"failed", "passed", "supported"}
SummaryStates == {"running", "completed", "interrupted", "termination-failed",
                  "evidence-failed"} \cup PreflightStates
\* The exception that is unwinding run_attempt.
Errors == {"interrupt", "evidence", "cleanup", "git"}

VARIABLES
  subjectNow, caseNow,  \* the lab sources: subject tree; prompt and fixture
  overlaps,             \* items whose planned fixture reaches into their mount
  runDir, summary,      \* the run directory and summary.json in it
  att,                  \* the attempt directories
  pc,                   \* where the `fieldlab run` process is
  item, slot, resume, appended,  \* locals of run_plan
  mem,                  \* locals of run_attempt
  faults                \* faults so far

sources == <<subjectNow, caseNow, overlaps>>
runFiles == <<runDir, summary>>
locals == <<item, slot, resume, appended>>
vars == <<subjectNow, caseNow, overlaps, runDir, summary, att, pc, item, slot,
          resume, appended, mem, faults>>

NoSummary == [state |-> None, attempts |-> {}]
Entries == [slot: Slots, state: AttemptStates, outcome: Outcomes \cup {None}]

\* receipt.json: the outcome it states and the artifacts whose digests it
\* seals, each read back from the attempt directory.
NoReceipt == [sealed |-> FALSE, outcome |-> None, metadata |-> None,
              verdict |-> None, tree |-> None, diff |-> None, material |-> None]
Receipts == [sealed: BOOLEAN, outcome: Outcomes \cup {None},
             metadata: Outcomes \cup {None}, verdict: Verdicts \cup {None},
             tree: OptTrees, diff: OptTrees, material: OptTrees]

NoAttempt ==
  [state |-> "absent", outcome |-> None, invoked |-> FALSE, process |-> None,
   inputs |-> None,                    \* metadata.json
   prompt |-> None, fixture |-> None, mount |-> None,  \* bytes delivered
   workspace |-> None, target |-> None,
   diff |-> None, material |-> None,
   verdict |-> None, tree |-> None,    \* verification.json
   receipt |-> NoReceipt]

\* target: "live" while the adapter waits for it; then proven "quiescent" or
\* left "unproven".  A target whose runner died stays "live".
Attempts ==
  [state: AttemptStates, outcome: Outcomes \cup {None}, invoked: BOOLEAN,
   process: Processes \cup {None}, inputs: OptInputs,
   prompt: OptInputs, fixture: OptInputs, mount: OptInputs,
   workspace: OptTrees, target: {None, "live", "unproven", "quiescent"},
   diff: OptTrees, material: OptTrees, verdict: Verdicts \cup {None},
   tree: OptTrees, receipt: Receipts]

NoLocals == [preflight |-> None, process |-> None, error |-> None,
             diff |-> None, tree |-> None, passed |-> TRUE,
             mutated |-> FALSE, commands |-> 0]
Locals == [preflight: PreflightStates \cup {None},
           process: Processes \cup {None}, error: Errors \cup {None},
           diff: OptTrees, tree: OptTrees, passed: BOOLEAN,
           mutated: BOOLEAN, commands: Nat]

-----------------------------------------------------------------------------
(* Helpers of runner.py *)

\* Mutant: only a passing attempt counts as done.
PassedSlots(i) ==
  {s \in Slots : s[1] = i /\ att[s].state = "completed" /\ att[s].outcome = "pass"}

CompletedSlots(i) == {s \in Slots : s[1] = i /\ att[s].state = "completed"}

\* _completed_attempt: the newest attempt whose metadata says completed.
CompletedAttempt(i) ==
  CHOOSE s \in CompletedSlots(i) : \A t \in CompletedSlots(i) : t[2] <= s[2]

\* Mutant: --resume is forgotten.
SkipsNothing(i) == FALSE

Skips(i) == resume /\ CompletedSlots(i) # {}

\* Mutant: the highest index in use instead of one above it.
IsNextAttemptReused(s, i) ==
  /\ s[1] = i /\ s[2] # 1 => att[s].state # "absent"
  /\ \A n \in s[2] + 1 .. MaxAttempts : att[<<i, n>>].state = "absent"

\* _next_attempt_dir: one above the highest index in use.
IsNextAttempt(s, i) ==
  /\ s[1] = i
  /\ s[2] # 1 => att[<<i, s[2] - 1>>].state # "absent"
  /\ \A n \in s[2] .. MaxAttempts : att[<<i, n>>].state = "absent"

Entry(s) == [slot |-> s, state |-> att[s].state, outcome |-> att[s].outcome]

Verdict == IF ~mem.passed THEN "failed"
           ELSE IF mem.mutated THEN "passed" ELSE "supported"

\* An outcome that verification alone decides.
VerifiedOutcome(i) ==
  IF ~Shape[i].deterministic /\ Shape[i].review THEN "inconclusive"
  ELSE CASE Verdict = "supported" -> "pass"
         [] Verdict = "passed" -> "inconclusive"
         [] Verdict = "failed" -> "fail"

\* Mutant: surviving descendants are forgotten when the parent exited 0.
OutcomeIgnoringOrphans(i) ==
  CASE mem.process = "timeout" -> "timeout"
    [] mem.process = "nonzero" -> "error"
    [] OTHER -> VerifiedOutcome(i)

\* The outcome ladder at the end of run_attempt.
Outcome(i) ==
  CASE mem.process = "timeout" -> "timeout"
    [] mem.process \in {"orphan", "nonzero"} -> "error"
    [] OTHER -> VerifiedOutcome(i)

\* synthetic_receipt: digests of what the attempt directory holds.
SealReceipt(outcome) ==
  [sealed |-> TRUE, outcome |-> outcome, metadata |-> att[slot].outcome,
   verdict |-> att[slot].verdict, tree |-> att[slot].tree,
   diff |-> att[slot].diff, material |-> att[slot].material]

\* shutil.rmtree(workspace), unless the plan keeps it.
Retained(tree) == IF KeepWorkspace THEN tree ELSE None

\* Mutant: failed evidence is written with the outcome's name.
SummaryStateByOutcome(error) ==
  CASE error = "interrupt" -> "interrupted"
    [] error = "evidence" -> "error"
    [] error \in {"cleanup", "git"} -> "termination-failed"

\* The except clauses of run_plan; "cleanup" and "git" are ExecutionErrors.
SummaryState(error) ==
  CASE error = "interrupt" -> "interrupted"
    [] error = "evidence" -> "evidence-failed"
    [] error \in {"cleanup", "git"} -> "termination-failed"

AsPlanned == subjectNow = "planned" /\ caseNow = "planned"

\* What the mount can hold once the fixture and then the subject are copied: as
\* planned or not.  A fixture with unplanned files below the mount spoils it
\* although nobody edited anything; an edit of either source may add to what
\* lies there or take away from it.
Delivered(i) ==
  IF i \in overlaps /\ caseNow = "planned" THEN {"edited"}
  ELSE IF AsPlanned THEN {"planned"}
  ELSE Inputs

Fault == faults < MaxFaults /\ faults' = faults + 1

\* A step of run_attempt from one point to another.
Goto(from, to) ==
  /\ pc = from /\ pc' = to
  /\ UNCHANGED <<sources, runFiles, locals>>

\* The Python process is gone and its locals with it.
Exit ==
  /\ pc' = "idle" /\ item' = 1 /\ slot' = FirstSlot /\ resume' = FALSE
  /\ appended' = {} /\ mem' = NoLocals
  /\ UNCHANGED <<sources, runDir, att>>

\* An exception leaves run_attempt for the except clauses of run_plan.
Raise(error) ==
  /\ pc' = "raise" /\ mem' = [mem EXCEPT !.error = error]
  /\ UNCHANGED <<sources, runFiles, locals>>

-----------------------------------------------------------------------------
Init ==
  /\ subjectNow = "planned" /\ caseNow = "planned"
  /\ overlaps \in SUBSET Items
  /\ runDir = FALSE /\ summary = NoSummary
  /\ att = [s \in Slots |-> NoAttempt]
  /\ pc = "idle" /\ item = 1 /\ slot = FirstSlot /\ resume = FALSE
  /\ appended = {} /\ mem = NoLocals
  /\ faults = 0

(* The live gate of run_plan.  A refused command changes nothing. *)

StartFresh ==
  /\ pc = "idle" /\ AsPlanned
  /\ ~runDir
  /\ runDir' = TRUE
  /\ pc' = "summary"
  /\ UNCHANGED <<sources, summary, att, locals, mem, faults>>

\* Mutant: a summary that says "running" is taken for a run in progress.
StartResumeUnlessRunning ==
  /\ pc = "idle" /\ AsPlanned
  /\ summary.state \notin {None, "running"}
  /\ resume' = TRUE
  /\ pc' = "summary"
  /\ UNCHANGED <<sources, runFiles, att, item, slot, appended, mem, faults>>

\* Mutant: a resumed run is not held to the bytes of the plan.
StartResumeUngated ==
  /\ pc = "idle"
  /\ summary.state # None
  /\ resume' = TRUE
  /\ pc' = "summary"
  /\ UNCHANGED <<sources, runFiles, att, item, slot, appended, mem, faults>>

StartResume ==
  /\ pc = "idle" /\ AsPlanned
  /\ summary.state # None
  /\ resume' = TRUE
  /\ pc' = "summary"
  /\ UNCHANGED <<sources, runFiles, att, item, slot, appended, mem, faults>>

WriteRunning ==
  /\ pc = "summary"
  /\ summary' = [state |-> "running", attempts |-> {}]
  /\ pc' = "loop"
  /\ UNCHANGED <<sources, runDir, att, locals, mem, faults>>

(* One iteration of the matrix loop *)

\* Mutant: the prior attempt is skipped but not listed.
SkipCompletedUnlisted ==
  /\ pc = "loop" /\ item \in Items /\ Skips(item)
  /\ item' = item + 1
  /\ UNCHANGED <<sources, runFiles, att, pc, slot, resume, appended, mem, faults>>

SkipCompleted ==
  /\ pc = "loop" /\ item \in Items /\ Skips(item)
  /\ appended' = appended \cup {Entry(CompletedAttempt(item))}
  /\ item' = item + 1
  /\ UNCHANGED <<sources, runFiles, att, pc, slot, resume, mem, faults>>

\* _next_attempt_dir, mkdir, prompt.md and case.json.
BeginAttempt ==
  /\ pc = "loop" /\ item \in Items /\ ~Skips(item)
  /\ \E s \in Slots :
       /\ IsNextAttempt(s, item)
       /\ slot' = s
       /\ att' = [att EXCEPT ![s].state = "bare", ![s].prompt = caseNow]
  /\ mem' = NoLocals
  /\ pc' = "metadata"
  /\ UNCHANGED <<sources, runFiles, item, resume, appended, faults>>

\* case_identity is recomputed here, after the prompt was read.
WriteMetadata ==
  /\ Goto("metadata", "prepare")
  /\ att' = [att EXCEPT ![slot].state = "running", ![slot].outcome = "pending",
                        ![slot].inputs = caseNow]
  /\ UNCHANGED <<mem, faults>>

(* Preflight *)

\* prepare_workspace copies the fixture, mounts the subject and compares the
\* digest of the whole mount with the plan.
PrepareWorkspace ==
  \E mount \in Delivered(item) :
    /\ att' = [att EXCEPT ![slot].fixture = caseNow, ![slot].mount = mount,
                          ![slot].workspace = "base"]
    /\ \/ /\ mount = "planned"
          /\ Goto("prepare", "invoke")
          /\ UNCHANGED mem
       \/ /\ mount # "planned"
          /\ Goto("prepare", "preflight-metadata")
          /\ mem' = [mem EXCEPT !.preflight = "input-drift"]
    /\ UNCHANGED faults

PrepareFails ==
  /\ Goto("prepare", "preflight-metadata")
  /\ \E tree \in {None, "base"} : att' = [att EXCEPT ![slot].workspace = tree]
  /\ mem' = [mem EXCEPT !.preflight = "preflight-failed"]
  /\ Fault

WritePreflightMetadata ==
  /\ Goto("preflight-metadata", "preflight-verification")
  /\ att' = [att EXCEPT ![slot].state = mem.preflight,
                        ![slot].outcome = mem.preflight]
  /\ UNCHANGED <<mem, faults>>

WritePreflightVerification ==
  /\ Goto("preflight-verification", "preflight-receipt")
  /\ att' = [att EXCEPT ![slot].verdict = "failed"]
  /\ UNCHANGED <<mem, faults>>

WritePreflightReceipt ==
  /\ Goto("preflight-receipt", "cleanup")
  /\ att' = [att EXCEPT ![slot].receipt = SealReceipt(mem.preflight)]
  /\ UNCHANGED <<mem, faults>>

(* The target *)

\* Mutant: the invocation is left to be counted when the attempt completes.
CommitInvocationLater ==
  /\ Goto("invoke", "launch")
  /\ UNCHANGED <<att, mem, faults>>

\* metadata.json counts the invocation before the target is started.
CommitInvocation ==
  /\ Goto("invoke", "launch")
  /\ att' = [att EXCEPT ![slot].invoked = TRUE]
  /\ UNCHANGED <<mem, faults>>

LaunchTarget ==
  /\ Goto("launch", "wait")
  /\ att' = [att EXCEPT ![slot].target = "live"]
  /\ UNCHANGED <<mem, faults>>

\* A process of a target group that nobody has proven dead writes.
TargetWrites(s) ==
  /\ att[s].target \in {"live", "unproven"}
  /\ \/ att[s].workspace = "base" /\ att' = [att EXCEPT ![s].workspace = "edited"]
     \/ att[s].workspace = "edited" /\ att' = [att EXCEPT ![s].workspace = "later"]
  /\ UNCHANGED <<sources, runFiles, pc, locals, mem, faults>>

TargetQuiescent ==
  /\ Goto("wait", "seal-diff")
  /\ att' = [att EXCEPT ![slot].target = "quiescent"]
  /\ \E p \in Processes : mem' = [mem EXCEPT !.process = p]
  /\ UNCHANGED faults

\* Mutant: the quiescence of the result is not looked at.
NotQuiescentIgnored == "seal-diff"

\* Where run_attempt goes when process_result.quiescent is False.
NotQuiescent == "termination"

TargetUnproven ==
  /\ Goto("wait", NotQuiescent)
  /\ att' = [att EXCEPT ![slot].target = "unproven"]
  /\ \E p \in {"timeout", "orphan"} : mem' = [mem EXCEPT !.process = p]
  /\ Fault

WriteTerminationFailure ==
  /\ pc = "termination"
  /\ att' = [att EXCEPT ![slot].state = "termination-failed",
                        ![slot].outcome = "termination-failure",
                        ![slot].process = mem.process]
  /\ Raise("cleanup")
  /\ UNCHANGED faults

(* Sealing the worker-final bytes *)

\* parse_trace, final-output.md, changed_files and capture_diff.
CaptureDiff ==
  /\ Goto("seal-diff", "seal-tree")
  /\ mem' = [mem EXCEPT !.diff = att[slot].workspace]
  /\ UNCHANGED <<att, faults>>

\* tree_digest, then diff.patch.
DigestTree ==
  /\ Goto("seal-tree", "material")
  /\ mem' = [mem EXCEPT !.tree = att[slot].workspace]
  /\ att' = [att EXCEPT ![slot].diff = mem.diff]
  /\ UNCHANGED faults

\* seal_review_material installs the whole set by one os.replace.
SealMaterial ==
  /\ Goto("material", "assertions")
  /\ att' = IF Shape[item].material
            THEN [att EXCEPT ![slot].material = att[slot].workspace]
            ELSE att
  /\ UNCHANGED <<mem, faults>>

\* A declared file is missing, a symlink, unreadable or over a bound.
MaterialFails ==
  /\ Goto("material", "evidence-failure")
  /\ Shape[item].material
  /\ UNCHANGED <<att, mem>>
  /\ Fault

WriteEvidenceFailure ==
  /\ pc = "evidence-failure"
  /\ att' = [att EXCEPT ![slot].state = "evidence-failed",
                        ![slot].outcome = "error",
                        ![slot].process = mem.process,
                        ![slot].workspace = Retained(@)]
  /\ Raise("evidence")
  /\ UNCHANGED faults

(* Verification of the sealed tree *)

\* Result and workspace assertions; the trace assertions are folded in.
EvaluateAssertions ==
  /\ Goto("assertions", "commands")
  /\ \E passed \in BOOLEAN : mem' = [mem EXCEPT !.passed = passed]
  /\ UNCHANGED <<att, faults>>

CommandsLeft == pc = "commands" /\ mem.commands < Shape[item].commands

\* One command assertion in its own copy of the workspace.
RunCommand ==
  /\ CommandsLeft
  /\ \E passed, mutated \in BOOLEAN :
       mem' = [mem EXCEPT !.passed = @ /\ passed, !.mutated = @ \/ mutated,
                          !.commands = @ + 1]
  /\ UNCHANGED <<sources, runFiles, att, pc, locals, faults>>

\* Any git call of changed_files or capture_diff fails: an ExecutionError.
GitFails ==
  /\ pc \in {"seal-diff", "assertions"} \/ CommandsLeft
  /\ Raise("git")
  /\ UNCHANGED att
  /\ Fault

WriteVerification ==
  /\ Goto("commands", "completed")
  /\ ~CommandsLeft
  /\ att' = [att EXCEPT ![slot].verdict = Verdict, ![slot].tree = mem.tree]
  /\ UNCHANGED <<mem, faults>>

WriteCompleted ==
  /\ Goto("completed", "receipt")
  /\ att' = [att EXCEPT ![slot].state = "completed",
                        ![slot].outcome = Outcome(item),
                        ![slot].process = mem.process]
  /\ UNCHANGED <<mem, faults>>

WriteReceipt ==
  /\ Goto("receipt", "cleanup")
  /\ att' = [att EXCEPT ![slot].receipt = SealReceipt(Outcome(item))]
  /\ UNCHANGED <<mem, faults>>

RemoveWorkspace ==
  /\ Goto("cleanup", "record")
  /\ att' = [att EXCEPT ![slot].workspace = Retained(@)]
  /\ UNCHANGED <<mem, faults>>

(* Back in run_plan *)

\* Mutant: a drifted attempt does not stop the loop.
StopsNever(s) == FALSE

StopsMatrix(s) == att[s].state \in PreflightStates

RecordAttempt ==
  /\ pc = "record"
  /\ appended' = appended \cup {Entry(slot)}
  /\ summary' = [summary EXCEPT !.attempts = appended']
  /\ IF StopsMatrix(slot) THEN pc' = "stop" /\ UNCHANGED item
                          ELSE pc' = "loop" /\ item' = item + 1
  /\ UNCHANGED <<sources, runDir, att, slot, resume, mem, faults>>

StopRun ==
  /\ pc = "stop"
  /\ summary' = [summary EXCEPT !.state = att[slot].state]
  /\ Exit
  /\ UNCHANGED faults

FinishRun ==
  /\ pc = "loop" /\ item = NumItems + 1
  /\ summary' = [state |-> "completed", attempts |-> appended]
  /\ Exit
  /\ UNCHANGED faults

HandleError ==
  /\ pc = "raise"
  /\ summary' = [state |-> SummaryState(mem.error), attempts |-> appended]
  /\ Exit
  /\ UNCHANGED faults

(* Faults *)

\* KeyboardInterrupt anywhere in the try block of run_plan, except while
\* process.py owns the target.
Interrupt ==
  /\ pc \notin {"idle", "summary", "wait", "raise"}
  /\ pc = "loop" => item \in Items
  /\ Raise("interrupt")
  /\ UNCHANGED att
  /\ Fault

\* KeyboardInterrupt while the target runs: run_bounded_process terminates the
\* group and raises ExecutionError if it cannot prove it dead; an interrupt
\* during that termination escapes and leaves the group as it is.
InterruptTarget ==
  /\ pc = "wait"
  /\ \E state \in {"quiescent", "unproven"}, error \in {"interrupt", "cleanup"} :
       /\ state = "quiescent" => error = "interrupt"
       /\ att' = [att EXCEPT ![slot].target = state]
       /\ Raise(error)
  /\ Fault

\* The same in a verifier command whose group survives.
InterruptCommand ==
  /\ CommandsLeft
  /\ Raise("cleanup")
  /\ UNCHANGED att
  /\ Fault

\* The process dies: SIGKILL, power, or an exception no except clause of
\* run_plan names (OSError, ConfigError, UnicodeDecodeError, ...).
Crash ==
  /\ pc # "idle"
  /\ Exit
  /\ UNCHANGED summary
  /\ Fault

\* Somebody edits, or puts back, a source of the lab.
EditSources ==
  /\ \/ subjectNow = "planned" /\ subjectNow' = "edited" /\ UNCHANGED caseNow
     \/ caseNow = "planned" /\ caseNow' = "edited" /\ UNCHANGED subjectNow
  /\ UNCHANGED <<overlaps, runFiles, att, pc, locals, mem>>
  /\ Fault

RestoreSources ==
  /\ ~AsPlanned
  /\ subjectNow' = "planned" /\ caseNow' = "planned"
  /\ UNCHANGED <<overlaps, runFiles, att, pc, locals, mem, faults>>

-----------------------------------------------------------------------------
RunPlan == \/ WriteRunning \/ SkipCompleted \/ BeginAttempt
           \/ RecordAttempt \/ StopRun \/ FinishRun \/ HandleError

Preflight == \/ WriteMetadata \/ PrepareWorkspace \/ WritePreflightMetadata
             \/ WritePreflightVerification \/ WritePreflightReceipt

RunAttempt ==
  \/ CommitInvocation \/ LaunchTarget \/ TargetQuiescent
  \/ WriteTerminationFailure \/ CaptureDiff \/ DigestTree \/ SealMaterial
  \/ WriteEvidenceFailure \/ EvaluateAssertions \/ RunCommand
  \/ WriteVerification \/ WriteCompleted \/ WriteReceipt \/ RemoveWorkspace

\* The steps a live `fieldlab run` process takes by itself.
Progress == RunPlan \/ Preflight \/ RunAttempt

Failure == \/ PrepareFails \/ TargetUnproven \/ MaterialFails \/ GitFails
           \/ Interrupt \/ InterruptTarget \/ InterruptCommand \/ Crash

Environment == \/ EditSources \/ RestoreSources
               \/ \E s \in Slots : TargetWrites(s)

Next == StartFresh \/ StartResume \/ Progress \/ Failure \/ Environment

Spec == Init /\ [][Next]_vars

\* A live process keeps running (every wait of process.py is bounded by a
\* timeout), and the operator keeps resuming an unfinished run.
ResumeUnfinished == summary.state # "completed" /\ StartResume

FairSpec == Spec /\ WF_vars(Progress) /\ WF_vars(ResumeUnfinished)

-----------------------------------------------------------------------------
TypeOK ==
  /\ subjectNow \in Inputs /\ caseNow \in Inputs
  /\ overlaps \in SUBSET Items
  /\ runDir \in BOOLEAN
  /\ summary \in [state: SummaryStates \cup {None}, attempts: SUBSET Entries]
  /\ att \in [Slots -> Attempts]
  /\ pc \in {"idle", "summary", "loop", "metadata", "prepare",
             "preflight-metadata", "preflight-verification",
             "preflight-receipt", "invoke", "launch", "wait", "termination",
             "seal-diff", "seal-tree", "material", "evidence-failure",
             "assertions", "commands", "completed", "receipt", "cleanup",
             "record", "stop", "raise"}
  /\ item \in 1 .. NumItems + 1
  /\ slot \in Slots
  /\ resume \in BOOLEAN
  /\ appended \in SUBSET Entries
  /\ mem \in Locals
  /\ faults \in 0 .. MaxFaults

(* What the properties below are about: an attempt directory never says more
   than what happened, whatever is interrupted, killed, resumed or edited. *)

Sealed(s) == att[s].receipt.sealed

\* A receipt keeps describing the artifacts beside it: nothing it digests is
\* written after it, by this process or by a resumed one.
Faithful(a) ==
  a.receipt.sealed =>
    /\ a.state \in {"completed"} \cup PreflightStates
    /\ a.receipt.outcome = a.outcome
    /\ a.receipt.metadata = a.outcome
    /\ a.receipt.verdict = a.verdict
    /\ a.receipt.tree = a.tree
    /\ a.receipt.diff = a.diff
    /\ a.receipt.material = a.material

ReceiptFaithful == \A s \in Slots : Faithful(att[s])

\* The diff, the tree digest, the review material and a kept workspace that one
\* receipt binds are the same bytes, and no process that could still change
\* them was alive when they were read.
SameBytes(a, i) ==
  a.receipt.sealed /\ a.invoked =>
    /\ a.target = "quiescent"
    /\ a.receipt.tree # None
    /\ a.receipt.diff = a.receipt.tree
    /\ a.receipt.material = IF Shape[i].material THEN a.receipt.tree ELSE None
    /\ a.workspace \in {None, a.receipt.tree}

SealedBytesAgree == \A s \in Slots : SameBytes(att[s], s[1])

\* A pass means: the mount held the planned subject and nothing else, the target exited 0 with its
\* group dead, and verification of the worker's own bytes supports it.
Earned(a) ==
  a.outcome = "pass" =>
    /\ a.state = "completed"
    /\ a.mount = "planned"
    /\ a.target = "quiescent"
    /\ a.process = "exited"
    /\ a.verdict = "supported"
    /\ a.tree = a.diff

PassIsEarned == \A s \in Slots : Earned(att[s])

\* Whenever a target was started, the metadata on disk already counts it; and a
\* preflight failure never started one.  A crash cannot hide spend.
Counted(a) ==
  /\ a.target # None => a.invoked
  /\ a.state \in PreflightStates => ~a.invoked

SpendRecorded == \A s \in Slots : Counted(att[s])

\* Once an attempt of an item is completed, resuming never opens another one.
CompletionIsFinal ==
  \A s, t \in Slots :
    att[s].state = "completed" /\ t[1] = s[1] /\ t[2] > s[2]
      => att[t].state = "absent"

\* A run summarised as completed lists, for every item of the matrix, exactly
\* one attempt, completed on disk with the outcome the summary repeats.
CompletedRunCoversMatrix ==
  summary.state = "completed" =>
    \A i \in Items : \E e \in summary.attempts :
      /\ \A f \in summary.attempts : f.slot[1] = i => f = e
      /\ e = Entry(e.slot)
      /\ e.slot[1] = i
      /\ e.state = "completed"

\* A case whose fixture reaches into the mount is refused each time it is tried,
\* with every source as planned; that attempt is not the fault of a fault.
Unavoidable(s) == s[1] \in overlaps /\ att[s].state = "input-drift"

\* A fault costs at most one attempt directory: interrupting, killing, editing
\* and resuming never leaves more attempts without a completed record and its
\* receipt than things that went wrong, besides the one being worked on and the
\* input-drift attempts of cases whose own fixture makes them drift.
AtWork == pc \notin {"idle", "summary", "loop", "raise"}
Finished(s) == att[s].state = "completed" /\ Sealed(s)
Wasted == {s \in Slots : /\ att[s].state # "absent" /\ ~Finished(s)
                         /\ ~Unavoidable(s)
                         /\ ~(AtWork /\ s = slot)}

WasteCostsFaults == Cardinality(Wasted) <= faults

\* After an attempt failed its preflight, the same run opens no further one.
DriftStopsMatrix ==
  [][(\E e \in appended : e.state \in PreflightStates) =>
       \A s \in Slots : att[s].state = "absent" => att'[s].state = "absent"]_vars

\* A target is started only for an item that this run has not attempted and
\* that no run has completed: nothing is retried without a new command.
NoImplicitRetry ==
  [][\A s \in Slots : att[s].target = None /\ att'[s].target # None =>
       /\ \A e \in appended : e.slot[1] # s[1]
       /\ \A t \in Slots : t[1] = s[1] => att[t].state # "completed"]_vars

\* If the sources end up as planned and the operator keeps resuming, a run that
\* got as far as its first summary completes every item up to the first whose
\* fixture reaches into its mount, whatever was lost on the way; where there is
\* no such item, the run itself is completed.
Reached ==
  /\ \A i \in Items : (1 .. i) \cap overlaps = {} => CompletedSlots(i) # {}
  /\ overlaps = {} => summary.state = "completed"

ResumableRun == <>[]AsPlanned => (summary.state # None ~> Reached)

(* Statements of the documentation that the code does not keep *)

\* docs/WORKSPACE_MODEL_V0.2.md: after an invoked, quiescent target the attempt
\* directory keeps the receipt; so a completed run has one per listed attempt.
CompletedRunHasReceipts ==
  summary.state = "completed" => \A e \in summary.attempts : Sealed(e.slot)

\* docs/EVIDENCE_MODEL.md: the attempts of a matched trial receive identical
\* non-subject inputs.
MatchedInputsIdentical ==
  \A s, t \in Slots : Sealed(s) /\ Sealed(t) /\ att[s].invoked /\ att[t].invoked =>
    att[s].prompt = att[t].prompt /\ att[s].fixture = att[t].fixture
=============================================================================
