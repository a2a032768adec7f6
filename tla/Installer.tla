------------------------------ MODULE Installer ------------------------------
(***************************************************************************)
(* scripts/install.py: preflight, backup, staging and the replacement of   *)
(* the application, the launcher and the controller Skills, over several   *)
(* runs of the installer from sources of several releases.                 *)
(*                                                                         *)
(* The content of a target is the release it came from.  The application   *)
(* carries the installation receipt, and the receipt names the controllers *)
(* of the release that the application came from.  Stages and displaced    *)
(* targets that an earlier run left behind have names that no later run    *)
(* looks at; they are dropped from the state when a run begins.            *)
(***************************************************************************)
EXTENDS Naturals

CONSTANTS
  NumControllers,   \* len(CONTROLLERS)
  Releases,         \* what the sources can install, and Legacy
  Legacy,           \* the controllers of LEGACY_CONTROLLER_DIGESTS
  None, Foreign,    \* a missing target, and somebody else's content
  Modes,            \* the values of --cli-only that are used
  Events,           \* what may happen to the installer
  MaxRuns,          \* bound: runs of the installer
  MaxEvents         \* bound: events in one behaviour

App == 1
Launcher == 2
Targets == 1 .. NumControllers + 2     \* in the order of staged_targets
Controllers == 3 .. NumControllers + 2
Contents == Releases \cup {None, Foreign}
NoContent == [t \in Targets |-> None]

\* "io": a call before the commit, or a replacement, fails; "discard": a
\* displaced target cannot be deleted; "undo": an undo cannot be carried out;
\* "interrupt": Ctrl-C; "crash": the process dies; "owner": the owner edits.
EventKinds == {"io", "discard", "undo", "interrupt", "crash", "owner"}

ASSUME ControllersAssumption == NumControllers \in Nat
ASSUME ReleasesAssumption ==
  /\ Legacy \in Releases
  /\ None \notin Releases /\ Foreign \notin Releases /\ None # Foreign
ASSUME ModesAssumption == Modes \subseteq BOOLEAN
ASSUME EventsAssumption == Events \subseteq EventKinds
ASSUME InstallBoundsAssumption == MaxRuns \in Nat /\ MaxEvents \in Nat

VARIABLES
  target,      \* the targets
  rollback,    \* .<name>.fieldlab-old-<id>: the displaced targets of this run
  staged,      \* stages of this run that are still on disk
  backup,      \* the backup of this run
  manifest,    \* backup-manifest.json is written
  pc,          \* where main is
  i,           \* the target that a loop is at
  release,     \* the source of this run
  cliOnly,     \* args.cli_only
  runs, events,
  history      \* what has happened so far that a later run may suffer from

disk == <<target, rollback, staged, backup, manifest>>
args == <<release, cliOnly>>
past == <<runs, events, history>>
vars == <<target, rollback, staged, backup, manifest, pc, i, release, cliOnly,
          runs, events, history>>

Last == IF cliOnly THEN 2 ELSE NumControllers + 2
Selected(mode) == IF mode THEN 1 .. 2 ELSE Targets

Happens(kind) ==
  /\ kind \in Events
  /\ events < MaxEvents /\ events' = events + 1

\* This run ends with targets displaced that nothing will put back.
Torn == history' = history \cup {"torn"}

-----------------------------------------------------------------------------
\* Mutant: the prior receipt is not consulted.
RecognizedWithoutReceipt(t, source) ==
  IF t \in Controllers
  THEN target[t] \in {source, Legacy}
  ELSE target[t] \in Releases

\* The recognizers of main: the marker of the application, the path in the
\* launcher; for a controller the source, the legacy digests and the receipt.
Recognized(t, source) ==
  IF t \in Controllers
  THEN target[t] \in {source, Legacy, target[App]} \cap Releases
  ELSE target[t] \in Releases

\* Mutant: --replace is enough.
PreflightPassesAny(source, mode, replace) ==
  \A t \in Selected(mode) : target[t] # None => replace

\* _preflight_target for each target, before anything is changed.
PreflightPasses(source, mode, replace) ==
  \A t \in Selected(mode) :
    target[t] # None => replace /\ Recognized(t, source)

\* v0.1 had controllers, but no application and no launcher.
Init ==
  /\ \E c \in {None, Legacy} :
       target = [t \in Targets |-> IF t \in Controllers THEN c ELSE None]
  /\ rollback = NoContent /\ staged = {}
  /\ backup = NoContent /\ manifest = FALSE
  /\ pc = "idle" /\ i = 1 /\ release = Legacy /\ cliOnly = FALSE
  /\ runs = 0 /\ events = 0 /\ history = {}

\* The installer is newer than v0.1: its source is never Legacy.
Begin ==
  /\ pc = "idle" /\ runs < MaxRuns /\ runs' = runs + 1
  /\ \E r \in Releases \ {Legacy}, mode \in Modes, replace \in BOOLEAN :
       /\ PreflightPasses(r, mode, replace)
       /\ release' = r /\ cliOnly' = mode
       /\ history' = IF mode THEN history \cup {"cli-only"} ELSE history
  /\ pc' = "backup" /\ i' = 1
  /\ rollback' = NoContent /\ staged' = {}
  /\ backup' = NoContent /\ manifest' = FALSE
  /\ UNCHANGED <<target, events>>

(* _backup_existing *)

\* Mutant: a missing first target ends the backup.
NeedsBackupOfApp == target[App] # None

NeedsBackup == \E t \in Selected(cliOnly) : target[t] # None

CopyTarget ==
  /\ pc = "backup" /\ NeedsBackup /\ i <= Last
  /\ backup' = [backup EXCEPT ![i] = target[i]]
  /\ i' = i + 1
  /\ UNCHANGED <<target, rollback, staged, manifest, pc, args, past>>

WriteManifest ==
  /\ pc = "backup" /\ (NeedsBackup => i > Last)
  /\ manifest' = NeedsBackup
  /\ pc' = "stage" /\ i' = 1
  /\ UNCHANGED <<target, rollback, staged, backup, args, past>>

(* Staging, then _commit_transaction *)

StageTarget ==
  /\ pc = "stage" /\ i <= Last
  /\ staged' = staged \cup {i}
  /\ i' = i + 1
  /\ UNCHANGED <<target, rollback, backup, manifest, pc, args, past>>

BeginCommit ==
  /\ pc = "stage" /\ i > Last
  /\ pc' = "aside" /\ i' = 1
  /\ UNCHANGED <<disk, args, past>>

\* os.replace(target, rollback), if there is something in the way.
Aside ==
  /\ rollback' = [rollback EXCEPT ![i] = target[i]]
  /\ target' = [target EXCEPT ![i] = None]

MoveAside ==
  /\ pc = "aside" /\ i <= Last
  /\ Aside
  /\ pc' = "in"
  /\ UNCHANGED <<staged, backup, manifest, i, args, past>>

\* os.replace(staged, target); the target becomes an applied one.
In ==
  /\ target' = [target EXCEPT ![i] = release]
  /\ staged' = staged \ {i}

MoveIn ==
  /\ pc = "in"
  /\ In
  /\ pc' = "aside" /\ i' = i + 1
  /\ UNCHANGED <<rollback, backup, manifest, args, past>>

\* Every target is applied: there is no way back from here.
Commit ==
  /\ pc = "aside" /\ i > Last
  /\ pc' = "discard" /\ i' = 1
  /\ UNCHANGED <<disk, args, past>>

DiscardDisplaced ==
  /\ pc = "discard" /\ i <= Last
  /\ rollback' = [rollback EXCEPT ![i] = None]
  /\ i' = i + 1
  /\ UNCHANGED <<target, staged, backup, manifest, pc, args, past>>

Succeed ==
  /\ pc = "discard" /\ i > Last
  /\ pc' = "idle"
  /\ UNCHANGED <<disk, i, args, past>>

(* The except clauses.  In "undo", targets 1 .. i are still applied. *)

\* Mutant: the loop runs once too often.
UndoRemoveOnceMore ==
  /\ pc = "undo" /\ i >= 0
  /\ target' = [target EXCEPT ![i] = None]
  /\ pc' = "restore"
  /\ UNCHANGED <<rollback, staged, backup, manifest, i, args, past>>

UndoRemove ==
  /\ pc = "undo" /\ i > 0
  /\ target' = [target EXCEPT ![i] = None]
  /\ pc' = "restore"
  /\ UNCHANGED <<rollback, staged, backup, manifest, i, args, past>>

\* Mutant: the displaced target is left where it is.
UndoRestoreForgotten ==
  /\ pc = "restore"
  /\ pc' = "undo" /\ i' = i - 1
  /\ UNCHANGED <<disk, args, past>>

UndoRestore ==
  /\ pc = "restore"
  /\ target' = [target EXCEPT ![i] = rollback[i]]
  /\ rollback' = [rollback EXCEPT ![i] = None]
  /\ pc' = "undo" /\ i' = i - 1
  /\ UNCHANGED <<staged, backup, manifest, args, past>>

\* main removes the stages and raises.
CleanUp ==
  /\ \/ pc = "undo" /\ i = 0
     \/ pc = "cleanup"
  /\ staged' = {}
  /\ pc' = "idle"
  /\ UNCHANGED <<target, rollback, backup, manifest, i, args, past>>

(* What happens to the installer *)

\* The backup is made before the first try: nothing cleans it up.
BackupFails ==
  /\ Happens("io") \/ Happens("interrupt")
  /\ pc = "backup"
  /\ pc' = "idle"
  /\ UNCHANGED <<disk, i, args, runs, history>>

StagingFails ==
  /\ Happens("io") \/ Happens("interrupt")
  /\ pc = "stage"
  /\ pc' = "cleanup"
  /\ UNCHANGED <<disk, i, args, runs, history>>

\* os.replace(target, rollback) raises, or Ctrl-C comes before it or after the
\* last append: the applied targets are undone.
AsideFails ==
  /\ \/ Happens("io") /\ i <= Last
     \/ Happens("interrupt")
  /\ pc = "aside"
  /\ pc' = "undo" /\ i' = i - 1
  /\ UNCHANGED <<disk, args, runs, history>>

\* os.replace(staged, target) raises: its target is restored, then the others.
InFails ==
  /\ Happens("io") \/ Happens("interrupt")
  /\ pc = "in"
  /\ target' = [target EXCEPT ![i] = rollback[i]]
  /\ rollback' = [rollback EXCEPT ![i] = None]
  /\ pc' = "undo" /\ i' = i - 1
  /\ UNCHANGED <<staged, backup, manifest, args, runs, history>>

\* os.replace(staged, target) raises, and so does putting the target back.
RestoreFails ==
  /\ Happens("undo")
  /\ pc = "in" /\ rollback[i] # None
  /\ pc' = "undo" /\ i' = i - 1
  /\ Torn
  /\ UNCHANGED <<disk, args, runs>>

\* Ctrl-C arrives while os.replace(target, rollback) runs: the target has been
\* displaced, and no except clause knows of it.
InterruptedAside ==
  /\ Happens("interrupt")
  /\ pc = "aside" /\ i <= Last /\ target[i] # None
  /\ Aside
  /\ pc' = "undo" /\ i' = i - 1
  /\ Torn
  /\ UNCHANGED <<staged, backup, manifest, args, runs>>

\* Ctrl-C arrives while os.replace(staged, target) runs, or before the append:
\* the target is new and not in applied.  In the first case the old launcher is
\* put back; an old directory cannot be, because a directory that is not empty
\* is in its place.
InterruptedIn ==
  /\ Happens("interrupt")
  /\ pc = "in"
  /\ staged' = staged \ {i}
  /\ \/ /\ i = Launcher /\ rollback[i] # None
        /\ target' = [target EXCEPT ![i] = rollback[i]]
        /\ rollback' = [rollback EXCEPT ![i] = None]
     \/ target' = [target EXCEPT ![i] = release] /\ UNCHANGED rollback
  /\ pc' = "undo" /\ i' = i - 1
  /\ Torn
  /\ UNCHANGED <<backup, manifest, args, runs>>

\* An exception inside the except clause of _commit_transaction.
UndoFails ==
  /\ Happens("undo") \/ Happens("interrupt")
  /\ pc \in {"undo", "restore"}
  /\ pc' = "cleanup"
  /\ Torn
  /\ UNCHANGED <<disk, i, args, runs>>

\* An exception while the displaced targets are deleted.
DiscardFails ==
  /\ Happens("discard") \/ Happens("interrupt")
  /\ pc = "discard"
  /\ pc' = "cleanup"
  /\ UNCHANGED <<disk, i, args, runs, history>>

\* While the stages are removed; those that are left stay.
CleanUpFails ==
  /\ Happens("undo") \/ Happens("interrupt")
  /\ pc = "cleanup"
  /\ \E left \in SUBSET staged : staged' = left
  /\ pc' = "idle"
  /\ UNCHANGED <<target, rollback, backup, manifest, i, args, runs, history>>

\* Targets that an undo from here would put back.
Displaced == CASE pc = "aside" -> 1 .. i - 1
               [] pc \in {"in", "undo", "restore"} -> 1 .. i
               [] OTHER -> {}

\* The installed set as an undo would leave it: what the run has not committed
\* does not count.
Installed == [t \in Targets |-> IF t \in Displaced THEN rollback[t] ELSE target[t]]

\* The process dies; if targets are displaced, they stay so.
Crash ==
  /\ Happens("crash")
  /\ pc # "idle"
  /\ pc' = "idle"
  /\ IF target # Installed THEN Torn ELSE UNCHANGED history
  /\ UNCHANGED <<disk, i, args, runs>>

OwnerEdits ==
  /\ Happens("owner")
  /\ pc = "idle"
  /\ \E t \in Targets, content \in {None, Foreign} :
       target' = [target EXCEPT ![t] = content]
  /\ UNCHANGED <<rollback, staged, backup, manifest, pc, i, args, runs, history>>

-----------------------------------------------------------------------------
Main == \/ Begin \/ CopyTarget \/ WriteManifest \/ StageTarget \/ BeginCommit
        \/ MoveAside \/ MoveIn \/ Commit \/ DiscardDisplaced \/ Succeed
        \/ UndoRemove \/ UndoRestore \/ CleanUp

Failure == \/ BackupFails \/ StagingFails \/ AsideFails \/ InFails
           \/ RestoreFails \/ InterruptedAside \/ InterruptedIn \/ UndoFails
           \/ DiscardFails \/ CleanUpFails \/ Crash

Next == Main \/ Failure \/ OwnerEdits

Spec == Init /\ [][Next]_vars

-----------------------------------------------------------------------------
TypeOK ==
  /\ target \in [Targets -> Contents]
  /\ rollback \in [Targets -> Contents] /\ backup \in [Targets -> Contents]
  /\ staged \in SUBSET Targets
  /\ manifest \in BOOLEAN
  /\ pc \in {"idle", "backup", "stage", "aside", "in", "discard", "undo",
             "restore", "cleanup"}
  /\ i \in 0 .. NumControllers + 3
  /\ release \in Releases /\ cliOnly \in BOOLEAN
  /\ runs \in 0 .. MaxRuns /\ events \in 0 .. MaxEvents
  /\ history \subseteq {"cli-only", "torn"}

\* Whatever happens to it, the installer takes nothing away from a target that
\* it did not put there itself, unless a complete backup holds it.
NothingLost ==
  [][\A t \in Targets :
       pc # "idle" /\ target[t] \notin {None, target'[t], release} =>
         manifest /\ backup[t] = target[t]]_vars

\* The set is replaced as a whole or not at all, whatever fails and wherever
\* Ctrl-C comes, and somebody else's content is never replaced; until a run is
\* torn in the middle of a replacement or of an undo.
Atomic == INSTANCE AtomicInstall
            WITH installed <- Installed, torn <- "torn" \in history

InstallsAtomically == Atomic!Spec

\* Until the commit, the backup is the set that an undo would leave: restoring
\* it by hand and rolling back in the installer come to the same.  Histories
\* with a torn run are left out: there a target that was displaced and that no
\* undo knows of is in the backup, but not in the set.
BackupIsPreUpgradeSet ==
  "torn" \notin history /\ pc \in {"stage", "aside", "in", "undo", "restore"} =>
    \A t \in Selected(cliOnly) : backup[t] = Installed[t]

\* Between two runs, if --cli-only was never used and no run was torn: of what
\* the installer put there a later --replace recognizes the application and the
\* launcher always, and a controller exactly if the application is in place,
\* whose receipt names the digest of the controller, or the controller is of v0.1
\* or of the very release that replaces it.  Where the owner has removed the
\* application or put something else there, the receipt is gone with it, and
\* other controllers of the installer are refused.
OwnInstallsRecognized ==
  pc = "idle" /\ history = {} =>
    \A r \in Releases, t \in Targets :
      target[t] \in Releases =>
        (Recognized(t, r) <=>
           \/ t \notin Controllers
           \/ target[t] \in {r, Legacy}
           \/ target[App] \in Releases)

(* A statement of the documentation that the code does not keep *)

\* docs/PRODUCT_SPEC_V0.2.md, PS-32: the installer recognises its own installs
\* and supports --cli-only.  So what it put there, nobody else having touched
\* anything, passes a later preflight with --replace.
RecognisesOwnInstalls ==
  pc = "idle" => \A r \in Releases \ {Legacy} : PreflightPasses(r, FALSE, TRUE)
=============================================================================
