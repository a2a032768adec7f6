---------------------------- MODULE WorkerFinal ----------------------------
(***************************************************************************)
(* What an attempt makes of the workspace its worker leaves behind: the    *)
(* changed files and the diff that Git reports (fieldlab/workspace.py),    *)
(* the sealed review material (review_material.py), the assertions on      *)
(* files, commands and the trace (verify.py, trace.py, runner.py), and     *)
(* the selftest that tries the same assertions without a worker            *)
(* (selftest.py).                                                          *)
(*                                                                         *)
(* The worker edits files and uses Git as it likes, command by command;    *)
(* it is quiet when its files are read (module BoundedProcess).  How its   *)
(* exit and a timeout enter the outcome is in module Runner.  Files with   *)
(* different contents are too different for Git to see a rename.           *)
(***************************************************************************)
EXTENDS Delivery, Sequences, FiniteSetsExt

CONSTANTS
  Cases,         \* what a case declares
  Scenarios,     \* the pairs of a job and a case that are looked at
  MountPoint,    \* the path of the mount itself
  Size,          \* the size of each content
  FileBound, TotalBound,   \* bounds on the bytes of review_material.py
  ManifestName,  \* the path manifest.json
  Manifest,      \* the content of the material's own manifest
  Undeclared, Same

Needs == SUBSET (Paths \X Files)   \* <<p, c>>: reading p gives c

\* A verifier command: it exits with the declared code if it finds what it
\* needs; it may edit files, and may commit.
Programs == [needs: Needs, edits: [Paths -> Files \cup {Absent, Same}],
             commits: BOOLEAN]

CaseType ==
  [touch: SUBSET Paths,            \* where the worker may do something
   equals: Needs,                  \* file_equals
   exact: SUBSET Paths \cup {Undeclared},   \* changed_files_exact
   commands: Seq(Programs),        \* command_assertions
   declared: Seq(Paths),           \* human_review_material
   text: BOOLEAN,                  \* text_contains
   limit: Nat,                     \* max_command_executions
   expected: [Paths -> Files \cup {Absent}]]   \* the expected/ overlay

\* Cases are validated when they are loaded: the declared paths are unique, and
\* no more than MAX_REVIEW_MATERIAL_FILES.  Nobody touches the .git entry of a
\* subject.
ASSUME CasesAssumption ==
  /\ Cases \subseteq CaseType /\ Scenarios \subseteq Jobs \X Cases
  /\ \A c \in Cases :
       /\ c.touch \cap Meta = {}
       /\ \A i \in DOMAIN c.commands :
            \A p \in Meta : c.commands[i].edits[p] = Same
       /\ \A i, j \in DOMAIN c.declared :
            c.declared[i] = c.declared[j] => i = j
ASSUME LimitsAssumption ==
  /\ Size \in [Files -> Nat] /\ {FileBound, TotalBound} \subseteq Nat
  /\ MountPoint \notin Paths /\ ManifestName \in Paths
  /\ {Manifest, Same} \cap (Contents \cup {Absent}) = {}

VARIABLES
  case,
  trace,      \* the events of the host
  issued,     \* commands the worker started
  plain,      \* the worker left Git alone
  final,      \* what was captured of the worker's result
  material,   \* the review material: being staged, sealed or neither
  results,    \* of the command assertions
  verdict

vars == <<deliveryVars, case, trace, issued, plain, final, material, results,
          verdict>>

NoMaterial == [status |-> "none", count |-> 0, total |-> 0,
               dir |-> Empty, listed |-> Empty]

Init ==
  /\ DeliveryInit
  /\ \E s \in Scenarios : job = s[1] /\ case = s[2]
  /\ trace = <<>> /\ issued = 0 /\ plain = TRUE
  /\ final = [changed |-> {}, patch |-> Empty, away |-> {}]
  /\ material = NoMaterial
  /\ results = <<>>
  /\ verdict = [files |-> FALSE, passed |-> FALSE, supported |-> FALSE]

sealVars == <<final, material, results, verdict>>

-----------------------------------------------------------------------------
(* The worker *)

Events ==
  [type: {"thread.started", "item.started", "item.completed", "turn.completed",
          "turn.failed", "error", "malformed"},
   item: {"none", "command_execution", "agent_message"}, id: Nat,
   text: {"none", "right", "wrong"}]

Event(type) == [type |-> type, item |-> "none", id |-> 0, text |-> "none"]
CommandEvent(type) ==
  [type |-> type, item |-> "command_execution", id |-> issued, text |-> "none"]
Says(text) ==
  [type |-> "item.completed", item |-> "agent_message", id |-> 0, text |-> text]
TurnCompleted == Event("turn.completed")

StartWorker ==
  /\ pc = "ready" /\ pc' = "working"
  /\ trace' = <<Event("thread.started")>>
  /\ UNCHANGED <<job, source, entry, work, delivered, gitVars, moves, case,
                 issued, plain, sealVars>>

\* One command of the worker.
Command ==
  /\ pc = "working" /\ moves < MaxMoves
  /\ moves' = moves + 1 /\ issued' = issued + 1
  /\ trace' = trace \o <<CommandEvent("item.started"),
                        CommandEvent("item.completed")>>
  /\ UNCHANGED <<job, source, entry, delivered, pc, case, sealVars>>

\* It writes or removes a file, or makes a link.
Write(p, c) ==
  /\ p \in case.touch /\ c # work[p] /\ (c \in Links => p # Pointee)
  /\ Command
  /\ work' = [work EXCEPT ![p] = c] /\ WellFormed(work')
  /\ UNCHANGED <<gitVars, plain>>

GitCommand == Command /\ plain' = FALSE

\* `git add -f`, also of a removal; it makes a missing index anew.
Stage(p) ==
  /\ p \in case.touch \ Opaque(work) /\ index[p] # work[p]
  /\ GitCommand
  /\ index' = [index EXCEPT ![p] = work[p]] /\ indexed' = TRUE
  /\ UNCHANGED <<work, head>>

\* `git rm --cached`.
Untrack(p) ==
  /\ p \in case.touch /\ index[p] # Absent
  /\ GitCommand
  /\ index' = [index EXCEPT ![p] = Absent]
  /\ UNCHANGED <<work, head, indexed>>

\* `git mv`.
Rename(p, q) ==
  /\ {p, q} \subseteq case.touch \ Opaque(work)
  /\ index[p] # Absent /\ work[p] # Absent
  /\ index[q] = Absent /\ work[q] = Absent
  /\ (work[p] \in Links => q # Pointee)
  /\ GitCommand
  /\ work' = [work EXCEPT ![p] = Absent, ![q] = work[p]] /\ WellFormed(work')
  /\ index' = [index EXCEPT ![p] = Absent, ![q] = index[p]]
  /\ UNCHANGED <<head, indexed>>

Commit ==
  /\ indexed /\ head # index
  /\ GitCommand
  /\ head' = index
  /\ UNCHANGED <<work, index, indexed>>

\* It removes .git/index: Git then takes the index to be empty.  (A worker that
\* may touch nothing is idle.)
DropIndex ==
  /\ case.touch # {} /\ indexed /\ Opaque(work) = {}
  /\ GitCommand
  /\ index' = Empty /\ indexed' = FALSE
  /\ UNCHANGED <<work, head>>

\* The end of the trace: "torn" breaks off in a line, "cut" in a command.
Closing(how) ==
  CASE how = "right" -> <<Says("wrong"), Says("right"), TurnCompleted>>
    [] how = "wrong" -> <<Says("right"), Says("wrong"), TurnCompleted>>
    [] how = "recovered" -> <<Event("error"), Says("right"), TurnCompleted>>
    [] how = "failed" -> <<Says("right"), Event("turn.failed")>>
    [] how = "torn" -> <<Says("right"), TurnCompleted, Event("malformed")>>
    [] how = "cut" -> <<Says("right"), CommandEvent("item.started")>>
Closings == {"right", "wrong", "recovered", "failed", "torn", "cut"}

WorkerEnds(how) ==
  /\ pc = "working" /\ pc' = "ended"
  /\ trace' = trace \o Closing(how)
  /\ issued' = issued + (IF how = "cut" THEN 1 ELSE 0)
  /\ UNCHANGED <<job, source, entry, work, delivered, gitVars, moves, case,
                 plain, sealVars>>

Work ==
  \/ StartWorker
  \/ \E p \in Paths : \/ \E c \in Files \cup Links \cup {Absent} : Write(p, c)
                      \/ Stage(p) \/ Untrack(p)
                      \/ \E q \in Paths : Rename(p, q)
  \/ Commit
  \/ DropIndex
  \/ \E how \in Closings : WorkerEnds(how)

-----------------------------------------------------------------------------
(* changed_files and capture_diff, of a workspace s *)

Workspaces == [tree: Trees, head: Trees, index: Trees, indexed: BOOLEAN]
Worker == [tree |-> work, head |-> head, index |-> index, indexed |-> indexed]

Staged(s) == {p \in Paths : s.head[p] # s.index[p]}
Unstaged(s) == {p \in Paths : s.index[p] \notin {Absent, s.tree[p]}}
\* Mutant: ignored files are reported as well.
UntrackedOrIgnored(s) ==
  {p \in Paths \ Meta : s.index[p] = Absent /\ s.tree[p] # Absent}

Untracked(s) ==
  {p \in Visible(s.tree) : s.index[p] = Absent /\ s.tree[p] # Absent}

\* Git reports a staged removal and a staged addition of one content as a
\* rename, one for one; the record names the new path and changed_files skips
\* the old one.  Which of several Git pairs is its choice.
Removed(s, c) == {p \in Paths : s.head[p] = c /\ s.index[p] = Absent}
Added(s, c) == {p \in Paths : s.head[p] = Absent /\ s.index[p] = c}
RenamedAway(s) ==
  {away \in SUBSET UNION {Removed(s, c) : c \in Contents} :
     \A c \in Contents :
       Cardinality(away \cap Removed(s, c)) =
         Min({Cardinality(Removed(s, c)), Cardinality(Added(s, c))})}

\* An edit in an embedded checkout shows as one modified path: the mount.
Embedded(s) ==
  {MountPoint : p \in {q \in Opaque(s.tree) : s.tree[q] # delivered[q]}}

\* Mutant: untracked files are not asked for.
TrackedChanges(s, away) == (Staged(s) \ away) \cup Unstaged(s) \cup Embedded(s)

ChangedFiles(s, away) ==
  (Staged(s) \ away) \cup Unstaged(s) \cup Untracked(s) \cup Embedded(s)

\* capture_diff compares HEAD with the files in a copy of the index, or of HEAD
\* if the index is missing, to which the untracked files were added.
Compared(s) ==
  {p \in Paths : (IF s.indexed THEN s.index ELSE s.head)[p] # Absent}
    \cup {p \in Visible(s.tree) : s.tree[p] # Absent}

\* Mutant: untracked files are not added.
DiffOfIndex(s) ==
  [p \in Paths |->
     LET now == IF s.index[p] # Absent THEN s.tree[p] ELSE Absent
     IN  IF now = s.head[p] THEN Same ELSE now]

\* The patch: Same, or what a path becomes.
Diff(s) ==
  [p \in Paths |-> LET now == IF p \in Compared(s) THEN s.tree[p] ELSE Absent
                   IN  IF now = s.head[p] THEN Same ELSE now]

Patched(t, patch) ==
  [p \in Paths |-> IF patch[p] = Same THEN t[p] ELSE patch[p]]

Touched(patch) == {p \in Paths : patch[p] # Same}

Capture ==
  /\ pc = "ended"
  /\ \E away \in RenamedAway(Worker) :
       final' = [changed |-> ChangedFiles(Worker, away),
                 patch |-> Diff(Worker), away |-> away]
  /\ pc' = IF case.declared = <<>> THEN "checking" ELSE "sealing"
  /\ UNCHANGED <<job, source, entry, work, delivered, gitVars, moves, case,
                 trace, issued, plain, material, results, verdict>>

-----------------------------------------------------------------------------
(* seal_review_material *)

\* Mutant: the aggregate bound is checked before the size is added.
FitsBefore(p) ==
  /\ work[p] \in Files /\ Size[work[p]] <= FileBound
  /\ material.total <= TotalBound

\* A regular file, no link, within the bounds.
Fits(p) ==
  /\ work[p] \in Files /\ Size[work[p]] <= FileBound
  /\ material.total + Size[work[p]] <= TotalBound

sealFrame == <<job, source, entry, work, delivered, gitVars, moves, case,
               trace, issued, plain, final, results, verdict>>

\* One file is checked and copied to the staging directory.
SealFile ==
  /\ pc = "sealing" /\ material.count < Len(case.declared)
  /\ LET p == case.declared[material.count + 1] IN
       /\ Fits(p)
       /\ material' = [status |-> "staging", count |-> material.count + 1,
                       total |-> material.total + Size[work[p]],
                       dir |-> [material.dir EXCEPT ![p] = work[p]],
                       listed |-> [material.listed EXCEPT ![p] = work[p]]]
  /\ UNCHANGED <<pc, sealFrame>>

\* A file that may not be sealed: all that was staged is removed.
SealRefused ==
  /\ pc = "sealing" /\ pc' = "evidence-failed"
  /\ material.count < Len(case.declared)
  /\ ~Fits(case.declared[material.count + 1])
  /\ material' = NoMaterial
  /\ UNCHANGED sealFrame

\* The manifest is written among the files, and the directory gets its name.
SealFinish ==
  /\ pc = "sealing" /\ material.count = Len(case.declared)
  /\ material' = [material EXCEPT !.status = "sealed",
                                  !.dir = [@ EXCEPT ![ManifestName] = Manifest]]
  /\ pc' = "checking"
  /\ UNCHANGED sealFrame

\* An interrupt or an OSError, which cleans up, or a death, which does not.
SealStopped ==
  /\ pc = "sealing" /\ pc' = "stopped"
  /\ material' \in {material, NoMaterial}
  /\ UNCHANGED sealFrame

Seal == SealFile \/ SealRefused \/ SealFinish \/ SealStopped

-----------------------------------------------------------------------------
(* The assertions *)

checkFrame == <<job, source, entry, work, delivered, gitVars, moves, case,
                trace, issued, plain, final, material>>

May(t, needs) == \A n \in needs : n[2] \in Opened(t, n[1])

\* evaluate_workspace_assertions.  (Git is asked for the changed files again,
\* and answers the same.)
FilesHold(c, t, changed) ==
  /\ May(t, c.equals)
  /\ c.exact \in {Undeclared, changed}

\* A path that leaves the workspace raises an error which ends the run.
CheckFiles ==
  /\ pc = "checking"
  /\ verdict' = [verdict EXCEPT !.files = FilesHold(case, work, final.changed)]
  /\ pc' = IF \E n \in case.equals : work[n[1]] = "outer" THEN "stopped"
           ELSE "commands"
  /\ UNCHANGED <<results, checkFrame>>

\* What a command leaves in the tree it ran in.
Edited(prog, t) ==
  [p \in Paths |-> IF prog.edits[p] = Same THEN t[p] ELSE prog.edits[p]]

\* ... and in the workspace, when it commits all.
Left(prog, s) ==
  LET t == Edited(prog, s.tree)
      i == [p \in Paths |-> IF s.index[p] # Absent \/ p \in Visible(t) THEN t[p]
                            ELSE Absent]
  IN  IF prog.commits
      THEN [tree |-> t, head |-> i, index |-> i, indexed |-> TRUE]
      ELSE [s EXCEPT !.tree = t]

\* Mutant: the commands share one workspace, as in the selftest.
CommandStartShared ==
  LET after[k \in 0 .. Len(results)] ==
        IF k = 0 THEN work ELSE Edited(case.commands[k], after[k - 1])
  IN  [Worker EXCEPT !.tree = after[Len(results)]]

\* copy_workspace: every command gets its own copy of the worker's result.
CommandStart == Worker

\* Mutant: only what Git reports in the copy is compared.
DerivedFromCopy(s, changed) ==
  {p \in Paths \cap changed : work[p] # s.tree[p]}

\* _derived_changes.  (The signature of a directory never differs.)
Derived(s, changed) ==
  {p \in Paths \cap (final.changed \cup changed) : work[p] # s.tree[p]}

RunCommand ==
  /\ pc = "commands" /\ Len(results) < Len(case.commands)
  /\ LET prog == case.commands[Len(results) + 1]
         s == Left(prog, CommandStart) IN
       \E passed \in BOOLEAN, away \in RenamedAway(s) :
         /\ passed => May(CommandStart.tree, prog.needs)
         /\ ~passed => \E n \in prog.needs :
                         Opened(CommandStart.tree, n[1]) # {n[2]}
         /\ results' = Append(results,
              [passed |-> passed,
               mutated |-> ~SameBytes(s.tree, work, Paths),
               derived |-> Derived(s, ChangedFiles(s, away))])
  /\ UNCHANGED <<pc, verdict, checkFrame>>

\* parse_trace.
Commands ==
  {trace[i].id :
     i \in {j \in DOMAIN trace : trace[j].item = "command_execution"}}
Seen(type) == \E i \in DOMAIN trace : trace[i].type = type
Messages ==
  {i \in DOMAIN trace : trace[i].item = "agent_message"}
FinalMessage ==
  IF Messages = {} THEN "none" ELSE trace[Max(Messages)].text

\* Mutant: an error before the end of the turn is forgotten.
TraceHoldsAtEnd ==
  /\ ~Seen("malformed") /\ Seen("turn.completed")
  /\ Cardinality(Commands) <= case.limit

\* evaluate_trace_assertions.
TraceHolds ==
  /\ ~Seen("malformed")
  /\ Seen("thread.started") /\ Seen("turn.completed")
  /\ ~Seen("turn.failed") /\ ~Seen("error")
  /\ Cardinality(Commands) <= case.limit

\* Mutant: what Git reports decides, not the digest.
MutatedAsReported == \E i \in DOMAIN results : results[i].derived # {}

Mutated == \E i \in DOMAIN results : results[i].mutated

Complete ==
  /\ pc = "commands" /\ Len(results) = Len(case.commands)
  /\ LET passed == /\ case.text => FinalMessage = "right"
                   /\ verdict.files
                   /\ \A i \in DOMAIN results : results[i].passed
                   /\ TraceHolds
     IN  verdict' = [verdict EXCEPT !.passed = passed,
                                    !.supported = passed /\ ~Mutated]
  /\ pc' = "completed"
  /\ UNCHANGED <<results, checkFrame>>

\* A git call or a verifier cannot be run, or the runner dies.
CheckStopped ==
  /\ pc \in {"ended", "checking", "commands"} /\ pc' = "stopped"
  /\ UNCHANGED <<results, verdict, checkFrame>>

Check == CheckFiles \/ RunCommand \/ Complete \/ CheckStopped

Next ==
  \/ DeliveryNext /\ UNCHANGED <<case, trace, issued, plain, sealVars>>
  \/ Work
  \/ Capture
  \/ Seal
  \/ Check

Spec == Init /\ [][Next]_vars

-----------------------------------------------------------------------------
(* selftest_lab: no worker, one workspace for all commands of a case *)

\* The workspace of the control subject.
Prepared(t) ==
  LET tracked == [p \in Paths |-> IF p \in Visible(t) THEN t[p] ELSE Absent]
  IN  [tree |-> t, head |-> tracked, index |-> tracked, indexed |-> TRUE]

\* apply_expected; a link of the fixture is written through.
Overlaid(t, overlay) ==
  [q \in Paths |->
     LET from == {p \in Paths : overlay[p] # Absent /\ Through(t, p) = q}
     IN  IF from = {} THEN t[q] ELSE overlay[CHOOSE p \in from : TRUE]]

\* evaluate_file_assertions: the commands follow each other in one workspace.
OracleHolds(c, s) ==
  LET after[k \in 0 .. Len(c.commands)] ==
        IF k = 0 THEN s.tree ELSE Edited(c.commands[k], after[k - 1])
  IN  /\ FilesHold(c, s.tree, ChangedFiles(s, {}))
      /\ \A k \in DOMAIN c.commands : May(after[k - 1], c.commands[k].needs)

Unresolved(f) == Prepared(f)
Resolved(c, f) == [Prepared(f) EXCEPT !.tree = Overlaid(f, c.expected)]

\* The oracle fails on the fixture and holds on the expected result.
Credible(c, f) ==
  /\ \E p \in Paths : c.expected[p] # Absent
  /\ ~OracleHolds(c, Unresolved(f))
  /\ OracleHolds(c, Resolved(c, f))

-----------------------------------------------------------------------------

Captured == {"sealing", "checking", "commands", "completed"}

TypeOK ==
  /\ DeliveryTypeOK
  /\ <<job, case>> \in Scenarios
  /\ pc \in Delivering \cup Undelivered \cup Captured
             \cup {"ready", "working", "ended", "evidence-failed", "stopped"}
  /\ trace \in Seq(Events)
  /\ issued \in Nat /\ plain \in BOOLEAN
  /\ final \in [changed: SUBSET (Paths \cup {MountPoint}),
                patch: [Paths -> Contents \cup {Absent, Same}],
                away: SUBSET Paths]
  /\ material \in [status: {"none", "staging", "sealed"}, count: Nat,
                   total: Nat, dir: [Paths -> Contents \cup {Absent, Manifest}],
                   listed: Trees]
  /\ results \in Seq([passed: BOOLEAN, mutated: BOOLEAN,
                      derived: SUBSET Paths])
  /\ verdict \in [files: BOOLEAN, passed: BOOLEAN, supported: BOOLEAN]

\* What Git cannot show: files it does not track because they are ignored or
\* in an embedded checkout, and the .git entries.
Hidden == Opaque(work) \cup Meta \cup {p \in Ignored : index[p] = Absent}

\* Whatever the worker did with files, the index and commits, the sealed patch
\* turns its last commit into the worker-final tree, up to what Git cannot
\* show (capture_diff, workspace.py:105-126).
PatchRebuildsWorker ==
  pc \in Captured =>
    \A p \in Paths \ Hidden : Patched(head, final.patch)[p] = work[p]

\* The two accounts of the worker's changes agree: what the patch touches is
\* among the changed files, or was renamed (workspace.py:84-126).
SurfacesAgree ==
  pc \in Captured =>
    Touched(final.patch) \subseteq final.changed \cup final.away

\* If the worker left Git alone, the changed files are exactly the paths that
\* differ from what was delivered, and the patch applies to the delivered
\* files (workspace.py:84-126).
PlainWorkerSeenExactly ==
  pc \in Captured /\ plain =>
    /\ final.changed \cap Paths =
         {p \in Paths \ Hidden : work[p] # delivered[p]}
    /\ \A p \in Paths \ Hidden : Patched(delivered, final.patch)[p] = work[p]

\* Review material is sealed whole or not at all: outside the capture there is
\* either nothing (or, after a death, unnamed staging) or every declared file
\* with the bytes the worker left and its digest in the manifest, within the
\* bounds (review_material.py:93-145).  A declared manifest.json is the
\* exception: the manifest takes its place.
MaterialAllOrNothing ==
  LET files == {case.declared[i] : i \in DOMAIN case.declared} IN
  /\ material.status = "sealed" =>
       /\ \A p \in files : material.listed[p] = work[p] /\ work[p] \in Files
       /\ \A p \in files \ {ManifestName} : material.dir[p] = work[p]
       /\ \A p \in files : Size[work[p]] <= FileBound
       /\ MapThenSumSet(LAMBDA p : Size[work[p]], files) <= TotalBound
  /\ pc \in {"checking", "commands", "completed"} /\ files # {} =>
       material.status = "sealed"
  /\ pc = "evidence-failed" => material.status = "none"

\* Support rests on the bytes the worker left: its files satisfy every file
\* assertion, every command found what it needs in them, not in what another
\* command made of them, and no command changed a byte (runner.py:493-594).
SupportedRestsOnWorker ==
  verdict.supported =>
    /\ May(work, case.equals)
    /\ \A i \in DOMAIN case.commands :
         /\ May(work, case.commands[i].needs)
         /\ SameBytes(Edited(case.commands[i], work), work, Paths)

CleanTrace ==
  /\ trace[Len(trace)] = TurnCompleted
  /\ case.text => trace[Len(trace) - 1] = Says("right")
  /\ \A i \in DOMAIN trace :
       trace[i].type \notin {"error", "turn.failed", "malformed"}
  /\ issued <= case.limit

\* Support needs a whole trace: the worker ended its turn without an error, its
\* last message is the one asked for, and it issued no more commands than
\* declared, each counted once (trace.py:57-110, verify.py:305-343).
SupportedNeedsCleanTrace ==
  verdict.supported => CleanTrace

\* A command is held to have changed the worker's result exactly when it left
\* another tree; the paths charged to it are paths it changed, and unless it
\* committed all of them that Git can show (runner.py:285-309, 518-538).
AttributionSound ==
  \A i \in DOMAIN results :
    LET after == Edited(case.commands[i], work)
        differ == {p \in Paths : after[p] # work[p]} IN
    /\ results[i].mutated <=> differ \ Meta # {}
    /\ results[i].derived \subseteq differ
    /\ ~case.commands[i].commits => differ \ Hidden \subseteq results[i].derived

\* The selftest runs the commands of a case in one workspace, a live run each in
\* its own copy.  If the selftest finds the oracle credible, and a worker leaves
\* the expected result without using Git, says what is asked for and stays
\* within its limit, then every file assertion holds; a command passes exactly
\* if it finds what it needs in that result, whatever other commands write, and
\* it does if no earlier one edits what it reads; and the run is supported unless
\* a command fails or changes its copy, even a file that nothing checks.  The
\* subject is to lie outside of what the assertions read and the expected result
\* writes (selftest.py:57-89, runner.py:493-544).
OracleAgreesWithRun ==
  LET needs(i) == case.commands[i].needs
      reads(i) == {x[1] : x \in needs(i)} \cup {Pointee}
      edits(i) == {p \in Paths : case.commands[i].edits[p] # Same}
      touched == {x[1] : x \in case.equals} \cup {Pointee}
                   \cup {p \in Paths : case.expected[p] # Absent}
                   \cup UNION {reads(i) : i \in DOMAIN case.commands} IN
  /\ pc = "completed" /\ plain /\ Credible(case, job.fixture)
  /\ job.mounted \cap touched = {}
  /\ \A p \in Paths : work[p] = IF p \in job.mounted THEN delivered[p]
                                ELSE Overlaid(job.fixture, case.expected)[p]
  /\ CleanTrace
  => /\ verdict.files
     /\ \A i \in DOMAIN case.commands :
          /\ results[i].passed <=> May(work, needs(i))
          /\ (\A j \in 1 .. i - 1 : edits(j) \cap reads(i) = {})
               => results[i].passed
     /\ verdict.supported <=>
          \A i \in DOMAIN case.commands :
            /\ results[i].passed
            /\ SameBytes(Edited(case.commands[i], work), work, Paths)

\* A case can check the exact set of changed files (docs/EVIDENCE_MODEL.md, line
\* 76): every file that differs from what was delivered is in it, but for what
\* Git was told not to see.  It is not so once the worker has moved a file with
\* Git or committed its work.
ChangedFilesComplete ==
  pc \in Captured =>
    {p \in Paths \ Hidden : work[p] # delivered[p]} \subseteq final.changed
=============================================================================
