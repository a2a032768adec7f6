# A TLA+ model of Skill Field Lab

Skill Field Lab runs bounded trials of agent Skills against a local lab: it
plans a matrix of attempts, starts a target agent for each of them in a
disposable workspace, seals what the target left behind into a receipt, and
later explains what the receipts and their reviews say about a claim.  Its
value rests on a few promises that are hard to test, because they are about
what happens between two writes, between two commands, or between the program
and a process that it does not control:

* an attempt directory never says more than what happened;
* what a receipt binds is one set of bytes, read when nobody could change it;
* nothing is spent twice without a new command, and nothing spent is forgotten;
* a worker starts from what was planned, and what it did is what is judged;
* a verdict is never better than the evidence;
* an upgrade replaces the whole installation or nothing, and a directory becomes
  a lab in one step.

This directory states these promises in TLA+, checks them with TLC on small
instances, and proves all of the safety properties with TLAPS for instances of
every size.

## The system

| Component | Source | State it keeps | Operations | Talks to | Hard because of |
|---|---|---|---|---|---|
| Live runner | `runner.py` `run_plan` | `summary.json` of a run directory | `run`, `run --resume` | attempts, plan, adapter | death and interrupt between writes, resume |
| Attempt | `runner.py` `run_attempt` | the attempt directory: `metadata.json`, `verification.json`, `receipt.json`, diff, material, workspace | one call per matrix item | workspace, bounded process, verification, receipts | as above; a target that outlives its runner |
| Bounded process | `process.py` | none on disk; a process group | `run_bounded_process` | the kernel, `ps` | a group that forks, exits and writes while it is looked at |
| Workspace, subjects | `workspace.py`, `subjects.py`, `trees.py` | the worker workspace | prepare, diff, copy, digest | Git | sources that change after the plan; overlapping mounts; a worker that uses Git itself |
| Snapshots | `snapshot.py` | `subjects/` of the lab | archive of a commit; `snapshot` | Git | an old snapshot that is replaced |
| Review material | `review_material.py` | `review-material/` | `seal_review_material` | workspace | all or nothing under several bounds |
| Verification | `verify.py` | none | assertion lists, command assertions in copies | bounded process | verifiers that edit what they verify |
| Receipts, reviews | `receipts.py`, `io.py` | `receipt.json`, `receipts/`, `reviews/` | seal, observe, review | explain | digests of files that may change later |
| Explanation | `explain.py`, `cli.py` | none, it recomputes | `explain` | all of the lab's files | aggregation; copies, edits, conflicts |
| Installer | `scripts/install.py` | application, launcher, controllers, backup | `install.py [--replace] [--cli-only]` | the owner's file system | several replacements, failure between them, later upgrades |
| Plan | `plan.py` | the plan file | `plan` | runner | pinned inputs |
| Lab | `lab.py`, `io.py` | the lab directory | `init`, `promote`, `migrate-v1` | explain, plan | copies file by file; several commands on one directory |
| Trace | `trace.py` | none | `parse_trace` | verification | partial, malformed event streams |
| Selftest | `selftest.py` | none | tries the assertions of a case without a worker | workspace, verification | it must agree with what a run will say |
| Doctor, contracts, records, adapter, CLI | the modules of these names | none | read and validate | | |

`run_plan` calls `run_attempt` for one matrix item after the other.
`run_attempt` prepares the workspace, lets the adapter call
`run_bounded_process`, and then reads the workspace (diff, digest, material,
assertions) before it writes `verification.json`, the completed
`metadata.json` and `receipt.json`.  `explain` and `review` read those receipts
much later, from whatever files the lab then has.  Runner and explanation share
nothing but files; runner and target share the workspace.

What makes each component correct is what the properties below say, component
by component; `PROJECT.json` lists the hazards at their lines.

## The modules

| Module | Models |
|---|---|
| `Runner` | `run_plan` and `run_attempt` over a succession of processes |
| `Target` | the contract between the runner and a process group |
| `BoundedProcess` | `run_bounded_process`, shown to implement `Target` |
| `AtomicInstall` | what the documents promise of an installation |
| `Installer` | `scripts/install.py`, shown to implement `AtomicInstall` |
| `EvidenceView` | the evidence files of one claim and the verdict of `explain` |
| `Delivery` | the delivery of fixture and subject into a workspace, up to its first commit |
| `WorkerFinal` | `Delivery`, then the worker, and all that is made of the workspace it leaves |
| `AtomicLab` | what is promised of the making of a lab |
| `LabHome` | `init` and `migrate-v1` on one directory, shown to implement `AtomicLab` |
| `Promotion` | `LabHome` with promotions into the same directory |
| `RunnerProofs`, `RunnerLedgerProofs`, `BoundedProcessProofs`, `InstallerProofs`, `EvidenceViewProofs`, `DeliveryProofs`, `WorkerFinalProofs`, `PromotionProofs` | theorems |
| `MCRunner`, `MCBoundedProcess`, `MCInstaller`, `MCEvidenceView`, `MCWorkerFinal`, `MCPromotion` | values for TLC |

`Runner` follows a whole matrix over several processes and knows bytes only as
versions.  `WorkerFinal` follows one attempt and knows every file: it is the same
workspace, seen from nearer.

### Runner

State: the two kinds of lab sources that an attempt reads (subject; prompt and
fixture), the run directory with its summary, all attempt directories (`att`),
the position of the one live `fieldlab run` process (`pc`, `item`, `slot`) and
its locals (`appended`, `mem`).  What is on disk survives a crash; `Exit`
resets the locals.  Each action ends with at most one write to disk, so a death
or an interrupt can come between any two writes.

Bytes are abstracted to the version of the tree that they were read from
(`base`, `edited`, `later`), and inputs to `planned` or `edited`.  The digest of a
mount covers all that lies there, also what the fixture of the case put there before
the subject: `overlaps` is the set of items whose planned fixture reaches into their
mount, and `Delivered` what the mount can then hold.  Such an item drifts at every
attempt with nothing edited, as `docs/WORKSPACE_MODEL_V0.2.md:103-106` says.  A diff, a
digest and a sealed file can then be compared: they are about the same bytes
exactly when they carry the same version.  A target keeps changing the version
of its workspace until it is proven dead (`TargetWrites`), also after its
runner has died.

Actions follow the statements of the code: `StartFresh`/`StartResume`
(the live gate, where a refused command changes nothing), `WriteRunning`,
`SkipCompleted`, `BeginAttempt` up to `RemoveWorkspace` (one attempt),
`RecordAttempt`, `StopRun`, `FinishRun`, and `HandleError` for the except
clauses.  Failures are actions of their own: a preflight that raises, a target
that cannot be proven dead, material that cannot be sealed, a git call that
fails, `KeyboardInterrupt` at every point of the `try` block, and `Crash`, which
also stands for every exception that `run_plan` does not name.

Not in this module: the content of assertions (they pass or fail) and of
workspaces (modules `Delivery` and `WorkerFinal` have both, and show which fixtures
put files into a mount and how), two runner processes at once, and the retry semantics
of the target itself.  `_completed_attempt` takes the newest completed attempt by name; the
names are ordered like the numbers up to 999.

### Target and BoundedProcess

`Target` is what `run_attempt` relies on: a started group may write until a
final answer, and after "quiescent" not a byte changes.  In `Runner` the same
contract appears as the field `target` of an attempt.  The answer "misjudged"
is one that the caller cannot tell from "quiescent": `Runner` assumes that it
does not occur, and `process_ps` shows how it does.

`BoundedProcess` models the call from the started group on.  The group forks,
exits, is reaped and writes at any time; `ps` reads one entry per step, in
ascending order of ids, so a probe is not atomic.  `at` is the position in
`run_bounded_process`, `_terminate_group` and `_wait_group_gone`; `polls` counts
the probes of one grace period, which may also end early.  The failures of the
probe are `PsRaises` (reported as alive) and `PsPrintsNothing` (reported as
dead, because the exit code of `ps` is not looked at); the variable `blind`
remembers that the call ended on the latter.  `KeyboardInterrupt` may come at any
point of the call.

Not modelled: members that leave the group by `setsid`, reuse of process ids,
and an interrupt between `Popen` and the `try` block.

### AtomicInstall and Installer

The content of a target is the release it came from; `Foreign` is somebody
else's.  One target after the other is copied to the backup, staged, moved
aside, replaced and discarded, with the undo path of `_commit_transaction` and
the clean-up of `main`.  Several runs from different releases follow each other,
and the owner may edit a target between two of them.  `Recognized` reads the
receipt inside the application as the code does, through the release of the
application.

`AtomicInstall` has one step of the installer: all selected targets change to
one release, if none of them is foreign.  The refinement maps a state of
`Installer` to the set that an undo would leave (`Installed`), so the commit is
the one step that counts, and every step of an undo is a stutter.  A run may also
be torn (`Tear`): when it dies while targets are displaced, when the undo itself
fails, and when Ctrl-C arrives in one of the two windows in which a target has
been moved and the program has not yet noted it (`InterruptedAside`,
`InterruptedIn`).  Everywhere else an interrupt is as harmless as a failing call.
The variable `history` remembers a torn run and the use of `--cli-only`.

### EvidenceView

One claim.  A receipt is the record of the fields that the verdict reads; the
digest of a file is this record with the id of the receipt and an edition that
every edit changes.  Files appear in the order in which people produce them:
sealed attempts, observations, copies into `receipts/`, edits, damage to the
artifacts beside a receipt, and reviews.  `Verdict` follows `explain_claim`,
`_receipt_view`, `_requirements`, `_boundary` and `_artifact_report`.  A receipt
declares at most one review requirement; other claims, files that do not parse
and the rendering are left out.

### Delivery and WorkerFinal

A tree is a function from a small set of paths to contents; `Absent` is no file.
`Above` says which path is a directory on the way to which, `Meta` holds the `.git`
entry of a subject that is itself a checkout, and `Ignored` what Git is told to
ignore.  A link is `"inner"` (it points to the file `Pointee` of its own tree) or
`"outer"` (it leaves it).

`Delivery` follows `prepare_workspace` and `materialize_subject`.  The copy of
a directory is not atomic: `ListEntry` is the moment at which `copytree` sees an
entry, as a file or as a link, and `CopyEntry` the moment at which it opens it; the
owner may edit in between (`Edit`).  Writing through a link that the fixture left
in the mount writes the file it points to, as `shutil.copy2` does.  A pinned
subject is an archive of the planned commit.  `Measure` is the digest that is
compared with the plan, `InitGit` the baseline commit.

`WorkerFinal` adds the worker: each step is one command, which writes a file, makes
a link, stages, untracks, renames, commits or removes the index, and which leaves
two events in the trace; the trace may end in an error, in a torn line or in a
command that was started and did not end.  `Capture` is `changed_files` and
`capture_diff` as Git computes them from HEAD, index and files, with its pairing
of renames (`RenamedAway`).  Sealing (`SealFile`, `SealRefused`, `SealFinish`,
`SealStopped`) goes file by file under both bounds.  `CheckFiles`, `RunCommand`
and `Complete` are the assertions: every command gets a copy of the worker's result
and is charged with what it changed there (`Mutated`, `Derived`).  `OracleHolds`
is the selftest, which runs all commands of a case in one workspace.

Left out: file modes, empty directories, changes of `.gitignore` by the worker,
a checkout that is mounted at the root of the workspace, trace items without an id
from the host, and the assertion kinds that read the same bytes in other ways.

### LabHome, Promotion and AtomicLab

One directory of a host, which is absent, empty or holds files.  An `init` checks
that it is empty and creates one directory of the lab after the other, without
`exist_ok`, and the manifest last; a `migrate-v1` checks that it is absent, builds
the lab elsewhere and renames it (`Replaceable` is what `os.replace` accepts).
The rename puts the records of the new lab in place together with its directories:
`Staged` says which record files that are, at least one for each migration.
Several of both run at once, fail, die and are run again.  `AtomicLab` has one step:
the directory becomes a lab, made by one of them, with all its directories.  The
refinement maps a directory without manifest to no lab.

`Promotion` adds `promote_lab`: validation, selection by name or of everything,
the check for collisions, and for each record the check for a link and the making
of its directory (`MakeParent`), the opening of source and target (`OpenTarget`, which
follows a link that has come meanwhile, raises for a record that is gone, and leaves
the target `Partial`), and its content (`FillTarget`); the receipt comes last.  Meanwhile the source lab is edited, also by a command that
writes a record through a temporary file beside it (`fieldlab/io.py`), which a
promotion may select.  Promotions follow each other; two at once are not modelled.

## The checks

`tlc -config <cfg> <module>` runs each of these.  "Violated" runs check one
statement of the documentation that the code does not keep; TLC's counterexample
is the point of the run.

| Run | Module, configuration | Checks | Shows |
|---|---|---|---|
| runner_safety | `MCRunner_safety.cfg` | `TypeOK`, `ReceiptFaithful`, `SealedBytesAgree`, `PassIsEarned`, `SpendRecorded`, `WasteCostsFaults`, `CompletionIsFinal`, `CompletedRunCoversMatrix`, `DriftStopsMatrix`, `NoImplicitRetry`, `ResumableRun` | what attempts and summaries say never exceeds what happened; a fault costs one attempt at most and nothing else is wasted, but for cases whose fixture spoils their own mount; and resuming completes every item before the first of those |
| runner_receipts | `MCRunner_receipts.cfg` | `CompletedRunHasReceipts`, violated | a death between the completed metadata and the receipt is never repaired |
| runner_matched | `MCRunner_matched.cfg` | `MatchedInputsIdentical`, violated | an edit between two attempts reaches the later one only |
| process_contract | `MCBoundedProcess_contract.cfg` | `TypeOK`, `QuiescentMeansDead`, `CleanExitUntouched`, `KeepsContract` | the answer of the call is true and final, and there is one |
| process_ps | `MCBoundedProcess_ps.cfg` | `ProbeFallsBack`, violated | a `ps` that fails without output makes a live group count as dead |
| install_atomic | `MCInstaller_atomic.cfg` | `TypeOK`, `BackupIsPreUpgradeSet`, `OwnInstallsRecognized`, `NothingLost`, `InstallsAtomically` | whole sets, nothing lost, and which of its own installs the next run recognises |
| install_cli_only | `MCInstaller_clionly.cfg` | `RecognisesOwnInstalls`, violated | `--cli-only` makes the older controllers unrecognised |
| explain_verdict | `MCEvidenceView_verdict.cfg` | `TypeOK`, `SupportedExactly`, `EditedReceiptNeedsReview`, `ConflictIsSticky` | what a verdict rests on, and what ends a conflict |
| explain_copy | `MCEvidenceView_copy.cfg` | `CopiesAreOneEvidence`, violated | a copied receipt loses its artifacts |
| workspace_evidence | `MCWorkerFinal_evidence.cfg` | `TypeOK`, `WorkerStartsAsPlanned`, `DriftIsReal`, `PatchRebuildsWorker`, `SurfacesAgree`, `PlainWorkerSeenExactly`, `MaterialAllOrNothing`, `SupportedRestsOnWorker`, `SupportedNeedsCleanTrace`, `AttributionSound`, `OracleAgreesWithRun` | what is delivered, what is captured of the result, what support rests on, and when a run says what the selftest said |
| workspace_changed | `MCWorkerFinal_changed.cfg` | `ChangedFilesComplete`, violated | a worker that moves files with Git, or commits, takes changes out of the changed-file set |
| lab_files | `MCPromotion_files.cfg` | `TypeOK`, `PromotionReceiptTrue`, `MadeOnce`, `NothingOverwritten`, `MigrationPublishes` | a directory becomes a lab once, nothing whole is overwritten but what a migration brings after a promotion looked, receipts are true, a failed migration is not in its own way |

### Bounds

* `NumItems = 2`: everything that one item does to another (skipping, stopping
  the matrix, a completed summary) happens between two.  The two items of
  `MixedShapes` differ in material, commands and requirements, so both sides of
  each branch on the case are taken.  `MaxAttempts = 2` gives a retry of each item,
  and `MaxFaults = 1` puts one failure, interrupt or death at every point; a
  resumed run can then meet every kind of directory that one failure leaves.  An
  edit of the sources counts as a fault; restoring them does not.  `overlaps` is
  any subset of the items: neither, either or both spoil their mount.  An item that
  does uses up its directories and then blocks the model, as two attempts are all it
  has; the code would make the next one, which ends like the others.  What these
  bounds leave open for the safety properties, the theorems below close.
* `MaxMembers = 4`: a leader, a child that is forked during a scan, a grandchild
  forked behind the cursor, and one that exits before it.  `MaxPolls = 2` leaves
  a grace period that succeeds late, one that fails, and one whose deadline
  passes early.  `MaxInterrupts = 2`: the second interrupt during the handling of
  the first.
* `NumControllers = 2`, two releases besides v0.1, `MaxRuns = 3`: an install, an
  upgrade and a second one, so a set can come from two earlier releases.
  `MaxEvents = 2`: a failure and a failure of its undo, or an edit and a failure.
* Two receipts and two reviews: a conflict between reviews of one receipt beside
  another receipt that carries, contradicts or damages the claim.  Outcomes are
  `pass` and `input-drift`: the ladder of `explain.py:15-22` has three values, of
  which observations give the third, and `input-drift` is one of the two outcomes
  that need no worker-final marker.  Receipts and review ids are interchangeable:
  no action or property names one, action properties are checked step by step,
  and no liveness property is checked there, so the symmetry set is sound.
* Five paths: two ordinary files, an ignored one that is a directory on the way to a
  file of the subject in one job, and a subject file with its `.git` entry.  Contents
  of sizes 1, 2 and 3 under `FileBound = 2` and `TotalBound = 3` are at and above
  both bounds.  `MaxMoves = 4`: an edit, `git mv`, `git add` and `git commit` in any
  order, or edits of the source between any two steps of the delivery.  The twenty-one
  scenarios pair thirteen jobs with ten cases: every kind of subject with
  every way a fixture may reach into its mount, and every kind of case with a
  delivery that succeeds.  In `Scripted` three commands follow each other, of which
  the first writes what the second reads and nothing else does: in one workspace the
  second sees it, in its copy it does not.
* One migration and two inits, so that each kind of maker meets both kinds;
  `MaxFaults = 1` is one failure or death at every point of any of them or of a
  promotion, and `MaxEdits = 1` one change of the source lab.  Two directories
  and three records (one of them the temporary file) are the least with which a
  lab and a promotion can be half done.  One version of a record suffices: which
  bytes a copy holds shows against invalid ones and against partial ones.  The
  migration brings the case, which a promotion may bring as well, and the same one
  each time it is run; a record is a regular file, in the host too.

Deadlock is not checked: an operator who issues no further command, an installer
whose runs are used up, a call that has returned, an attempt that has ended and a
set of files that nobody touches are proper ends.  For the runner, one end is worth knowing: a death
between `mkdir` of the run directory and the first summary leaves a run id that
can be neither started nor resumed (`runner.py:177-193`), which is why
`ResumableRun` begins at the first summary.

### Fairness

* `WF_vars(Progress)` in `Runner`: a live process takes its next step.  Every
  wait inside an attempt is bounded by a timeout of `process.py`.
* `WF_vars(ResumeUnfinished)`: the operator resumes a run that is not completed.
  That is an assumption about a person and the premise of `ResumableRun`, together
  with sources that settle as planned (`<>[]AsPlanned`).  What is reached then is
  `Reached`: every item before the first whose fixture reaches into its mount has a
  completed attempt, and without such an item the run is completed.  Nothing is assumed of
  faults but their bound; `MaxAttempts` is one more than the faults, so the
  bound on directories is never what stops the run.
* `WF_vars(Controller)` in `BoundedProcess`: the call is scheduled and its timeouts
  expire.  Nothing is assumed of the group: members may ignore SIGTERM and may
  survive SIGKILL for any time.
* `WF_vars` of the steps of each migration in `Promotion`: the operator runs a failed
  migration again, and a running one goes on.  Like the resumed run, this is the
  premise of `MigrationPublishes` only; nothing is assumed of inits and promotions.

No other specification has fairness.

## Where code and documents disagree

The six violated runs each quote a sentence of the repository; `PROJECT.json`
has them under `findings`.  Reading for the models also showed these, which no run
states:

* `run_plan` summarises every `ExecutionError` as `termination-failed`
  (`runner.py:260-263`), also one that a git call raises after the target was
  proven quiescent (`workspace.py:22-38`); `fieldlab/errors.py:10` reserves the
  error for "a trustworthy terminal state" that could not be established.
  In `Runner` that is the action `GitFails`.
* A `KeyboardInterrupt` inside an except clause of `run_bounded_process`
  (`process.py:181-201`) leaves the call with members of the group alive.
  `SealedBytesAgree` shows that nothing of such an attempt is sealed.
* `explain` advises to "record one superseding review" of a conflict
  (`explain.py:367-373`); by `ConflictIsSticky` only overwriting a review under
  its own id settles it, which `command_review` allows (`cli.py:433-440`).
* A passing attempt without declared requirements makes a claim supported with
  no person's judgment (`explain.py:15-37, 486-487`; the second half of
  `Carried` in `EvidenceView` spells it out), while
  `docs/EVIDENCE_MODEL.md:139-140` says that a `PASS` is never counted as a
  conclusion.
* A declared review file named `manifest.json` is sealed and then replaced by the
  manifest of the material (`review_material.py:119-140`), whose entry for it
  still carries the digest of the lost file.  `docs/EVIDENCE_MODEL.md:164-166` has
  the declared files copied "plus a manifest".  `MaterialAllOrNothing` excepts
  that name.
* `migrate-v1` mounts every subject at `.` (`lab.py:339`), where the fixture is as
  well, and the digest of the mount includes the fixture (`subjects.py:156`).  By
  `DriftIsReal` only that can make an unedited subject drift; a migrated case with
  a fixture file always does, and stops its matrix each time: `ResumableRun` promises
  nothing beyond it, and `WasteCostsFaults` leaves its attempts out.  That the digest
  does this is documented (`docs/WORKSPACE_MODEL_V0.2.md:103-106`); that a migration
  produces it is not.
* The digests of a v1 overlay and of the source manifest in a migration receipt are
  computed from the source again after it was copied (`lab.py:329-333, 373-376`),
  so an edit in between puts the digest of other bytes beside the copy that
  `docs/MIGRATION_V1_TO_V2.md:36` calls "a point-in-time copy".  A promotion digests the
  target instead, and `PromotionReceiptTrue` depends on it.
* A promotion of everything accepts links inside the lab and then stops at the first
  one (`lab.py:107-118`), with some records copied, no receipt, and the copied ones
  as collisions of the next try.  A temporary file that was selected and has got its
  name meanwhile has the same effect.  Nothing is lost or claimed
  (`NothingOverwritten`, `PromotionReceiptTrue`), but the operator has to clean up.
* Two promotions at once can both find a target free and the later copy replaces
  the earlier (`lab.py:112-120`), while `docs/WORKSPACE_MODEL_V0.2.md:199-203` says
  that destination collisions are rejected.  The model has one at a time.
* A migration that publishes between the collision check of a promotion and its copies
  (`lab.py:113, 120, 395`) brings records that the copies then replace, and the same
  sentence does not hold either.  `NothingOverwritten` says exactly what can be lost
  that way: records of the migration that the promotion has yet to copy.
* The selftest looks at what the commands of a case find, the live verdict also at
  what they write (`selftest.py:82`, `runner.py:519-541, 590-594`): a case with a
  command that leaves any file behind is credible and never supported.  Commands
  that rely on a file which an earlier one wrote pass in the one workspace of the
  selftest and fail in their copies.  `OracleAgreesWithRun` states both.
* A verifier that commits what it changed is marked as mutating, with an empty list
  of derived changes (`runner.py:285-309`); the last conjunct of `AttributionSound`
  leaves it out for that reason.

## The proofs

`tlapm <module>.tla` checks each module.  The constants are arbitrary but for the
named assumptions of the modules, which TLC evaluates in every run.

**Runner** (`RunnerProofs`, `RunnerLedgerProofs`).  Matrices of any length, cases
of any shape, any number of attempts and faults.  None of the invariants is
inductive alone, because what is on disk is right only together with where the
process is.  `IInv` is the conjunction of `TypeOK`, of `AtPoint` (what the open
attempt and the locals look like at each value of `pc`), of `LocalInv` for every
attempt that is not open (a directory by itself, whatever state it was left in),
and of `Fresh` (directories are opened in order, and none after a completed one).
Each write is one lemma: it changes the open attempt only (`WritingStep`), and the
new attempt satisfies `AtPoint` of the next point.  A failure or a death keeps the
open attempt, and `AtPoint` of every point implies `LocalInv`, so what a crash
leaves is a state that a resume may find.  From `IInv` follow `ReceiptFaithful`,
`SealedBytesAgree`, `PassIsEarned`, `SpendRecorded` and `CompletionIsFinal`, and
`FailedAttemptsStayUnsealed`: an attempt that failed to terminate or to construct its
evidence has no receipt.

`RunnerLedgerProofs` adds the ledger of a run: what `appended` and the summary
contain, as a function of the position in the matrix.  With it
`CompletedRunCoversMatrix`, `DriftStopsMatrix` and `NoImplicitRetry` follow for
matrices of any length.

`WasteCostsFaults` counts, so its invariant is an account (`Budget`).  A fault and the
attempt that it costs are several steps apart: a failed preparation is a wasted
attempt only after three more writes, and a subject edited now is one only at the
next preflight.  `Debt` is what has been paid for and not yet wasted, and
`Solvent` says that the wasted attempts and the debt never exceed the faults.  Why
one edit does not ruin one item after the other: the preflight that refuses the
subject stops the matrix, and the next command does not start before the sources
are as planned.  Left out of the account are the input-drift attempts of items in
`overlaps` (`Unavoidable`), which no fault has to pay for.  `Kept` says that what a run lists as completed has its receipt,
and `Dense` that directories are numbered without gaps.  From `Budget` follow also

* `UndisturbedRunsAreSealed` and `UndisturbedRunsComplete`: without a fault, every
  attempt of a completed run has its receipt, and every command that ended has
  completed the run, or has stopped as `input-drift` exactly if the fixture of some
  case reaches into its mount;
* `AttemptsNeverRunOut`: for an item whose fixture stays out of its mount, as long as
  the faults are fewer than `MaxAttempts`, there is a free directory for every attempt
  that is due, so this bound of the model hides no behaviour of such items.

`CommandIsFinite` is about progress without fairness: every step of a command and
every failure lowers (`ItemsLeft`, `PointsLeft`, `CommandsDue`) lexicographically, and
these are natural numbers.  A command that is given time ends; that it *completes*
the run is `ResumableRun`.

**BoundedProcess** (`BoundedProcessProofs`).  Groups of any size.  The argument is
the one that makes a scan of a moving process table trustworthy: ids grow, so every
entry before the cursor stays dead and whatever is forked lies behind it
(`Scanned`).  `Answered` relates the locals to the answer.  `QuiescenceIsSound`
and `CleanExitsAreUntouched` follow, and `ImplementsTarget`: each step of the call
and of its group is a step of `Target` or a stutter.  `CallIsFinite` and
`OnlyTheCallCounts` are what can be said here of the promise that the call answers:
`StepsLeft` is a natural number that each probe, signal, wait, failure and interrupt
of the call lowers and no step of the group changes, however it forks.  The number is
written in mixed radix: the distance to the answer (a second attempt to end the
group, after a timeout or the first interrupt, is one more round of the same
stages), the polls left of the grace period, the entries left of the scan.

**Installer** (`InstallerProofs`).  Any number of controllers, releases and runs,
events of every kind in any number.  `AtPoint` says for each position of the
loops what is new, what is displaced and what is still as the backup copied it;
none of the properties is inductive without it, because a target below the loop
index is right only if what it was lies beside it and in the backup.
`NothingIsLost` and `BackupsAreThePreUpgradeSet` are read off it.
`ImplementsAtomicInstall` shows that the commit is an `Install` of the abstract
specification, that an edit by the owner is one there, and that every other step
is a stutter or tears the run.  `OwnInstallsAreRecognized` adds the invariant
`OneRelease`: the controllers are of v0.1 or of the release of the application.  It
says when the controllers are recognised and when not: the receipt that names them
lies in the application, so an owner who removes the application, or puts something
else in its place, leaves controllers that only v0.1 and their own release recognise.
`RunIsFinite`: every call and every failure lowers (`PhasesLeft`, `CallsLeft`)
lexicographically, so a replacement that fails leads into the undo, a failing undo
out of it, and no run loops.

**EvidenceView** (`EvidenceViewProofs`).  Any number of receipts and reviews; the
`None` of the model is no assessment, no receipt and no review
(`NoneAssumption`).  `OneVoice` and `OneOutcome` say what one receipt contributes:
its own words, the words its reviews share, or a conflict.  From them
`SupportedWhenClean`, `MixedIsExact` and `WhatContradicts` undo the aggregation: each
verdict is characterised by what single files and reviews say
(`SupportedMeansCarried`, `MixedMeansConflict`, `UnsupportedMeansContradicted`), and
`ConflictsStay` follows.  `EditsNeedReview` needs an invariant
about the past, `Origins`: bytes that were edited and then reviewed still lie where
they were edited, or a copy of their receipt exists; so a fresh edit without a copy
has no reviews, and an attempt with a copy has lost its artifacts.
`CopiesOnlyCostSupport` is about a copy made where none was: it changes the verdict
from supported to inconclusive if the receipt is of an attempt, and never otherwise.

**Delivery and WorkerFinal** (`DeliveryProofs`, `WorkerFinalProofs`).  Any paths,
contents, jobs, cases and numbers of moves.  `DeliveryInv` follows the copy entry by
entry.  Its subtle part is `Outside`: a copied file may be written through a
link that the fixture left in the mount, and then changes a file outside, where no
digest looks.  But the link is then still in the mount; a subject that holds such a
link holds the file it points to, so the digest is not the planned one and the
attempt drifts.  Hence `WorkerStartsAsPlanned`; `Inside` gives `DriftIsReal`.

`Indexing` says what the index and HEAD can be (typed by trees, and as delivered as
long as the worker left Git alone), and from it follow the three properties of the
capture by the definitions of `git diff` and `git status`; `Account` carries them
to the end of the attempt, since nothing writes to the workspace of the worker
afterwards.  `Telling` ties the trace to the commands issued and to its
closing: only a clean closing passes the trace assertions, and the number of
distinct ids is the number of commands.  `Judged` says what each result of a command
means for the worker's own tree, because each command began with a copy of it.

`MaterialIsWhole` and `OracleAlwaysAgrees` are about recursive definitions: the total
size of the files sealed so far, which `MapThenSumSet` sums over a set, and the tree in
which the selftest runs one command after the other (`OracleHolds`).  `Batch` says that the
directory in progress holds a prefix of the declared files as the worker left
them, with the sum of their sizes; `Sealing`, that nothing but the whole sequence is
ever sealed and that an attempt which could not seal keeps none of it.  For the
oracle, the tree that command `k` of the selftest finds is `Onward`: what the commands
before it have made of the expected result, path by path the last edit that counts.  It
agrees with the copy that the command gets in a run wherever no earlier command
edits (`FoundFrom`), so a command passes live if nobody before it edits what it
reads, and what it finds in its copy decides otherwise (`Unbiased` is the converse of
`Judged`: nothing but what the case declares is held against the worker; `Begun`,
`Enclosed` and `Bare` exclude the other reasons for a refusal).

**LabHome and Promotion** (`PromotionProofs`).  Any number of inits, migrations,
directories, records, faults and edits.  `Builders` explains why `init` needs no lock:
of all inits that are building at most one has created the first directory, because
`mkdir` of a directory that exists fails; it alone goes on, and no
migration can take the place of a directory that is not empty.  Records are written by promotions
and by the rename of a migration, which needs a directory that is empty or absent.
`Copying` says what a promotion can therefore find where it is to copy: nothing, its
own partial copy, or the record a migration has just brought (`Migrated`).
`Promoted` says that what is in a receipt is not left to any promotion, so no later
one touches it.  `LabsAreMadeOnce` is the refinement, `NothingIsOverwritten` the action
property, which names the one case in which a whole record changes.  `MigrationsAdvance` is the
safety half of `MigrationPublishes`: until there is a lab, only somebody else makes the
directory (`Clear`), so a migration that is run again passes its check and its rename
whatever failed before; TLC adds that the steps are taken.

**What is left of the violated statements.**  For each statement of the documents
that a run refutes, a theorem says how much of it is true:

| Violated | What holds |
|---|---|
| `CompletedRunHasReceipts` | without a fault (`UndisturbedRunsAreSealed`) |
| `MatchedInputsIdentical` | without a fault (`UndisturbedInputsMatch`) |
| `ProbeFallsBack` | an answer that did not rest on such a `ps` is true (`QuiescenceIsSound`) |
| `RecognisesOwnInstalls` | without `--cli-only` and torn runs: the application and the launcher always, controllers exactly if the application is in place or they are of v0.1 or of the release that replaces them (`OwnInstallsAreRecognized`) |
| `CopiesAreOneEvidence` | a copy never improves a verdict, and costs support at most (`CopiesOnlyCostSupport`) |
| `ChangedFilesComplete` | for a worker that leaves Git alone (`PlainWorkersAreSeen`) |

**What is only model-checked.**  Liveness: `ResumableRun`, `MigrationPublishes` and the
fair half of `KeepsContract`.  Fairness is defined by ENABLED, which the prover does not
know.  Every safety property of the runs is a theorem.  The induction theorems of the
library that take an operator as a parameter cannot be used with these provers
either; where a proof needs induction over numbers it uses induction over a *set* of
numbers (`LeastNumber`, `Induction` in `WorkerFinalProofs`, from the well-foundedness
of the order), which suffices for recursive functions and for the folds of the
community modules.  No module that a theorem is about declares a RECURSIVE operator.

## What is not modelled

* `validate_plan` and the JSON contracts, the assertion kinds other than those named
  above, the pull of usage and references out of a trace: pure functions of
  documents.
* Inside `migrate_v1`, the translation of a v1 pack in its private staging
  directory: it is invisible until the rename that `LabHome` has as one step.
* The command `snapshot`.  With `--replace` it removes the old snapshot before the
  ref is resolved, so a ref that does not exist costs the old one; nothing reads its
  metadata file, and a subject that lost files is caught by the digest of the plan.
* Two `fieldlab run` processes on one run directory.
* Doctor, which keeps no state; the adapter, which formats a command line; the
  bundle check, a developer script; documents, schemas and examples.

## Plan

Done: `Runner`, `BoundedProcess`, `Installer`, `EvidenceView`, `Delivery`,
`WorkerFinal`, `LabHome` and `Promotion`, with their runs and proofs.  Left, in this
order:

1. Two runners on one run directory, as a composition of `Runner` with itself:
   which of the safety properties survive without a lock.
2. `Runner` with `BoundedProcess` in place of the contract, to show that the
   contract is used as it is kept.
3. The command `snapshot`, with a death between its steps, beside a plan that
   reads the snapshot.
4. `validate_plan` and the remaining assertion kinds as operators over bounded
   documents.
