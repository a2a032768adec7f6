-------------------------- MODULE InstallerProofs --------------------------
(***************************************************************************)
(* Theorems about Installer, for any number of controllers, releases, runs *)
(* and events of every kind.                                               *)
(*                                                                         *)
(* AtPoint says what the targets, the displaced targets and the backup     *)
(* look like wherever main is: targets below the loop index are the new    *)
(* ones with the old ones beside them, those above are still the ones that *)
(* the backup copied.                                                      *)
(***************************************************************************)
EXTENDS Installer, TLAPS

USE ControllersAssumption, ReleasesAssumption, ModesAssumption,
    EventsAssumption, InstallBoundsAssumption

IsTorn == "torn" \in history

\* The backup is complete, and holds nothing of somebody else.
Held ==
  \A t \in Selected(cliOnly) : backup[t] # Foreign /\ (backup[t] # None => manifest)

\* Targets 1 .. n are replaced, and what they were is beside them.
Applied(n) ==
  \A t \in Selected(cliOnly) :
    t <= n => target[t] = release /\ rollback[t] = backup[t]

\* Target n is moved aside, and nothing is in its place.
Vacant(n) == target[n] = None /\ rollback[n] = backup[n]

\* Targets from n on are what they were when the run began.
Untouched(n) == \A t \in Selected(cliOnly) : t >= n => target[t] = backup[t]

AtPoint ==
  /\ pc # "idle" => cliOnly \in Modes
  /\ pc = "backup" =>
       /\ i \in 1 .. Last + 1
       /\ \A t \in Selected(cliOnly) :
            target[t] # Foreign /\ backup[t] = IF t < i THEN target[t] ELSE None
  /\ pc = "stage" => i \in 1 .. Last + 1 /\ Held /\ Untouched(1)
  /\ pc = "aside" => i \in 1 .. Last + 1 /\ Held /\ Applied(i - 1) /\ Untouched(i)
  /\ pc = "in" =>
       i \in 1 .. Last /\ Held /\ Applied(i - 1) /\ Vacant(i) /\ Untouched(i + 1)
  /\ pc = "discard" => i \in 1 .. Last + 1
  /\ pc = "undo" =>
       i \in 0 .. Last /\ Held /\ Applied(i) /\ (IsTorn \/ Untouched(i + 1))
  /\ pc = "restore" =>
       /\ i \in 1 .. Last /\ Held /\ Applied(i - 1) /\ Vacant(i)
       /\ IsTorn \/ Untouched(i + 1)

Inv == TypeOK /\ AtPoint

\* The targets that a run is about are the first ones.
LEMMA SelectedTargets ==
  /\ Last \in Nat /\ Last <= NumControllers + 2
  /\ Selected(cliOnly) = 1 .. Last /\ Selected(cliOnly) \subseteq Targets
  /\ Targets = 1 .. NumControllers + 2
<1>1. CASE cliOnly
  BY <1>1 DEF Last, Selected, Targets
<1>2. CASE ~cliOnly
  BY <1>2 DEF Last, Selected, Targets
<1> QED BY <1>1, <1>2

\* Nothing is installed, or v0.1.
LEMMA InitTyped == Init => Inv
<1> SUFFICES ASSUME Init PROVE Inv
  OBVIOUS
<1>1. TypeOK
  <2>1. target \in [Targets -> Contents]
    BY DEF Init, Contents
  <2>2. rollback \in [Targets -> Contents] /\ backup \in [Targets -> Contents]
    BY DEF Init, Contents, NoContent
  <2>3. i \in 0 .. NumControllers + 3 /\ runs \in 0 .. MaxRuns
        /\ events \in 0 .. MaxEvents
    BY DEF Init
  <2> QED BY <2>1, <2>2, <2>3 DEF Init, TypeOK
<1>2. AtPoint
  BY DEF Init, AtPoint
<1> QED BY <1>1, <1>2 DEF Inv

\* The loop index stays where the targets are.
LEMMA IndexRange ==
  ASSUME Inv
  PROVE  /\ pc \in {"backup", "stage", "aside", "discard"} => i \in 1 .. Last + 1
         /\ pc \in {"in", "restore"} => i \in 1 .. Last
         /\ pc = "undo" => i \in 0 .. Last
         /\ \A n \in 1 .. Last : n \in Targets /\ n + 1 \in 0 .. NumControllers + 3
         /\ \A n \in 0 .. Last : n \in 0 .. NumControllers + 3
         /\ \A n \in 1 .. Last + 1 : n - 1 \in 0 .. NumControllers + 3
BY SelectedTargets DEF Inv, AtPoint

\* Every action keeps the types of the targets and of what is beside them.
LEMMA DiskTyped ==
  ASSUME Inv, Next
  PROVE  /\ target' \in [Targets -> Contents]
         /\ rollback' \in [Targets -> Contents]
         /\ backup' \in [Targets -> Contents]
         /\ staged' \in SUBSET Targets
         /\ manifest' \in BOOLEAN
<1> USE IndexRange DEF Inv, TypeOK, disk
<1>1. CASE Begin
  <2>1. NoContent \in [Targets -> Contents]
    BY DEF NoContent, Contents
  <2> QED BY <1>1, <2>1 DEF Begin
<1>2. CASE CopyTarget \/ StageTarget
  <2>1. i \in 1 .. Last
    BY <1>2 DEF CopyTarget, StageTarget
  <2>2. i \in Targets
    BY <2>1
  <2> QED BY <1>2, <2>2 DEF CopyTarget, StageTarget
<1>3. CASE WriteManifest
  BY <1>3 DEF WriteManifest, NeedsBackup
<1>4. CASE MoveAside \/ MoveIn \/ UndoRemove \/ UndoRestore
  <2>1. i \in 1 .. Last
    BY <1>4 DEF MoveAside, MoveIn, UndoRemove, UndoRestore
  <2>2. i \in Targets /\ None \in Contents /\ release \in Contents
    BY <2>1 DEF Contents
  <2> QED BY <1>4, <2>2 DEF MoveAside, Aside, MoveIn, In, UndoRemove, UndoRestore
<1>5. CASE BeginCommit \/ Commit \/ Succeed \/ CleanUp
  BY <1>5 DEF BeginCommit, Commit, Succeed, CleanUp
<1>6. CASE DiscardDisplaced
  BY <1>6 DEF DiscardDisplaced, Contents
<1>7. CASE BackupFails \/ StagingFails \/ AsideFails \/ RestoreFails \/ UndoFails
           \/ DiscardFails \/ CleanUpFails \/ Crash
  BY <1>7 DEF BackupFails, StagingFails, AsideFails, RestoreFails, UndoFails,
              DiscardFails, CleanUpFails, Crash
<1>8. CASE InFails \/ InterruptedAside \/ InterruptedIn
  <2>1. i \in 1 .. Last
    BY <1>8 DEF InFails, InterruptedAside, InterruptedIn
  <2>2. i \in Targets /\ None \in Contents /\ release \in Contents
    BY <2>1 DEF Contents
  <2> QED BY <1>8, <2>2 DEF InFails, InterruptedAside, Aside, InterruptedIn
<1>9. CASE OwnerEdits
  BY <1>9 DEF OwnerEdits, Contents
<1> QED
  BY <1>1, <1>2, <1>3, <1>4, <1>5, <1>6, <1>7, <1>8, <1>9 DEF Next, Main, Failure

\* Every action keeps the types of where main is and of what it counts.
LEMMA MainTyped ==
  ASSUME Inv, Next
  PROVE  /\ pc' \in {"idle", "backup", "stage", "aside", "in", "discard", "undo",
                     "restore", "cleanup"}
         /\ i' \in 0 .. NumControllers + 3
         /\ release' \in Releases /\ cliOnly' \in BOOLEAN
         /\ runs' \in 0 .. MaxRuns /\ events' \in 0 .. MaxEvents
         /\ history' \subseteq {"cli-only", "torn"}
<1> USE IndexRange DEF Inv, TypeOK, args, past
<1>1. CASE Begin
  <2>1. runs' \in 0 .. MaxRuns /\ i' = 1
    BY <1>1 DEF Begin
  <2> QED BY <1>1, <2>1 DEF Begin
<1>2. CASE CopyTarget \/ StageTarget \/ MoveIn \/ DiscardDisplaced
  <2>1. i \in 1 .. Last /\ i' = i + 1
    BY <1>2 DEF CopyTarget, StageTarget, MoveIn, DiscardDisplaced
  <2>2. i' \in 0 .. NumControllers + 3
    BY <2>1
  <2> QED BY <1>2, <2>2 DEF CopyTarget, StageTarget, MoveIn, DiscardDisplaced
<1>3. CASE WriteManifest \/ BeginCommit \/ MoveAside \/ Commit \/ Succeed
           \/ UndoRemove \/ CleanUp
  <2>1. i' \in {1, i}
    BY <1>3 DEF WriteManifest, BeginCommit, MoveAside, Commit, Succeed, UndoRemove,
                CleanUp
  <2>2. i' \in 0 .. NumControllers + 3
    BY <2>1
  <2> QED
    BY <1>3, <2>2 DEF WriteManifest, BeginCommit, MoveAside, Commit, Succeed,
                      UndoRemove, CleanUp
<1>4. CASE UndoRestore
  <2>1. i \in 1 .. Last + 1 /\ i' = i - 1
    BY <1>4, SelectedTargets DEF UndoRestore
  <2>2. i' \in 0 .. NumControllers + 3
    BY <2>1
  <2> QED BY <1>4, <2>2 DEF UndoRestore
<1>5. CASE Failure
  <2>1. events' \in 0 .. MaxEvents /\ UNCHANGED <<release, cliOnly, runs>>
    BY <1>5 DEF Failure, BackupFails, StagingFails, AsideFails, InFails,
       RestoreFails, InterruptedAside, InterruptedIn, UndoFails, DiscardFails,
       CleanUpFails, Crash, Happens
  <2>2. history' \subseteq {"cli-only", "torn"}
    BY <1>5 DEF Failure, BackupFails, StagingFails, AsideFails, InFails,
       RestoreFails, InterruptedAside, InterruptedIn, UndoFails, DiscardFails,
       CleanUpFails, Crash, Torn
  <2>3. CASE AsideFails \/ InFails \/ RestoreFails \/ InterruptedAside
             \/ InterruptedIn
    <3>1. i \in 1 .. Last + 1 /\ i' = i - 1 /\ pc' = "undo"
      BY <2>3, SelectedTargets DEF AsideFails, InFails, RestoreFails,
         InterruptedAside, InterruptedIn
    <3>2. i' \in 0 .. NumControllers + 3
      BY <3>1
    <3> QED BY <2>1, <2>2, <3>1, <3>2
  <2>4. CASE BackupFails \/ StagingFails \/ UndoFails \/ DiscardFails
             \/ CleanUpFails \/ Crash
    <3>1. i' = i /\ pc' \in {"idle", "cleanup"}
      BY <2>4 DEF BackupFails, StagingFails, UndoFails, DiscardFails, CleanUpFails,
         Crash
    <3> QED BY <2>1, <2>2, <3>1
  <2> QED BY <1>5, <2>3, <2>4 DEF Failure
<1>6. CASE OwnerEdits
  BY <1>6 DEF OwnerEdits, Happens
<1> QED BY <1>1, <1>2, <1>3, <1>4, <1>5, <1>6 DEF Next, Main

\* The program itself goes from one point to the next.
LEMMA MainStep == ASSUME Inv, Main PROVE AtPoint'
<1> USE SelectedTargets DEF Inv, TypeOK, args, past, disk
<1>1. CASE Begin
  BY <1>1 DEF Begin, AtPoint, PreflightPasses, Recognized, NoContent, Last, Selected
<1>2. CASE CopyTarget
  <2>1. pc = "backup" /\ pc' = "backup" /\ i' = i + 1 /\ i \in 1 .. Last
        /\ backup' = [backup EXCEPT ![i] = target[i]]
        /\ UNCHANGED <<target, cliOnly>>
    BY <1>2 DEF CopyTarget, AtPoint
  <2>2. Last' = Last /\ Selected(cliOnly)' = Selected(cliOnly)
    BY <2>1 DEF Last, Selected
  <2>3. \A t \in Selected(cliOnly) :
          target'[t] # Foreign /\ backup'[t] = IF t < i + 1 THEN target[t] ELSE None
    BY <2>1 DEF AtPoint
  <2> QED BY <2>1, <2>2, <2>3 DEF AtPoint
<1>3. CASE WriteManifest
  <2>1. pc = "backup" /\ pc' = "stage" /\ i' = 1 /\ manifest' = NeedsBackup
        /\ UNCHANGED <<target, backup, cliOnly>> /\ (NeedsBackup => i > Last)
    BY <1>3 DEF WriteManifest
  <2>2. Last' = Last /\ Selected(cliOnly)' = Selected(cliOnly)
    BY <2>1 DEF Last, Selected
  <2>3. \A t \in Selected(cliOnly) : backup[t] = target[t] /\ target[t] # Foreign
    BY <2>1 DEF AtPoint, NeedsBackup
  <2>4. \A t \in Selected(cliOnly) : target[t] # None => NeedsBackup
    BY DEF NeedsBackup
  <2>5. Held' /\ Untouched(1)'
    BY <2>1, <2>2, <2>3, <2>4 DEF Held, Untouched
  <2> QED BY <2>1, <2>2, <2>5 DEF AtPoint
<1>4. CASE StageTarget \/ BeginCommit
  <2>1. pc = "stage" /\ pc' \in {"stage", "aside"} /\ i' \in 1 .. Last + 1
        /\ (pc' = "aside" => i' = 1)
        /\ UNCHANGED <<target, rollback, backup, manifest, cliOnly, release>>
    BY <1>4 DEF StageTarget, BeginCommit, AtPoint
  <2>2. Last' = Last /\ Selected(cliOnly)' = Selected(cliOnly)
    BY <2>1 DEF Last, Selected
  <2> QED BY <2>1, <2>2 DEF AtPoint, Held, Untouched, Applied
<1>5. CASE MoveAside
  <2>1. pc = "aside" /\ pc' = "in" /\ i' = i /\ i \in 1 .. Last
        /\ rollback' = [rollback EXCEPT ![i] = target[i]]
        /\ target' = [target EXCEPT ![i] = None]
        /\ UNCHANGED <<backup, manifest, cliOnly, release>>
    BY <1>5 DEF MoveAside, Aside, AtPoint
  <2>2. Last' = Last /\ Selected(cliOnly)' = Selected(cliOnly)
    BY <2>1 DEF Last, Selected
  <2> QED BY <2>1, <2>2 DEF AtPoint, Held, Untouched, Applied, Vacant
<1>6. CASE MoveIn
  <2>1. pc = "in" /\ pc' = "aside" /\ i' = i + 1 /\ i \in 1 .. Last
        /\ target' = [target EXCEPT ![i] = release]
        /\ UNCHANGED <<backup, rollback, manifest, cliOnly, release>>
    BY <1>6 DEF MoveIn, In, AtPoint
  <2>2. Last' = Last /\ Selected(cliOnly)' = Selected(cliOnly)
    BY <2>1 DEF Last, Selected
  <2> QED BY <2>1, <2>2 DEF AtPoint, Held, Untouched, Applied, Vacant
<1>7. CASE Commit \/ DiscardDisplaced \/ Succeed \/ CleanUp
  <2>1. pc' \in {"discard", "idle"} /\ UNCHANGED cliOnly /\ pc # "idle"
        /\ (pc' = "discard" => i' \in 1 .. Last + 1)
    BY <1>7 DEF Commit, DiscardDisplaced, Succeed, CleanUp, AtPoint
  <2>2. Last' = Last
    BY <2>1 DEF Last
  <2> QED BY <2>1, <2>2 DEF AtPoint
<1>8. CASE UndoRemove
  <2>1. pc = "undo" /\ pc' = "restore" /\ i' = i /\ i \in 1 .. Last
        /\ target' = [target EXCEPT ![i] = None]
        /\ UNCHANGED <<backup, rollback, manifest, cliOnly, release, history>>
    BY <1>8 DEF UndoRemove, AtPoint
  <2>2. Last' = Last /\ Selected(cliOnly)' = Selected(cliOnly) /\ IsTorn' = IsTorn
    BY <2>1 DEF Last, Selected, IsTorn
  <2>3. Held' /\ Applied(i - 1)' /\ Vacant(i)'
    BY <2>1, <2>2 DEF AtPoint, Held, Applied, Vacant
  <2>4. IsTorn \/ Untouched(i + 1)'
    BY <2>1, <2>2 DEF AtPoint, Untouched
  <2> QED BY <2>1, <2>2, <2>3, <2>4 DEF AtPoint, Applied, Vacant, Untouched
<1>9. CASE UndoRestore
  <2>1. pc = "restore" /\ pc' = "undo" /\ i' = i - 1 /\ i \in 1 .. Last
        /\ target' = [target EXCEPT ![i] = rollback[i]]
        /\ rollback' = [rollback EXCEPT ![i] = None]
        /\ UNCHANGED <<backup, manifest, cliOnly, release, history>>
    BY <1>9 DEF UndoRestore, AtPoint
  <2>2. Last' = Last /\ Selected(cliOnly)' = Selected(cliOnly) /\ IsTorn' = IsTorn
    BY <2>1 DEF Last, Selected, IsTorn
  <2> QED BY <2>1, <2>2 DEF AtPoint, Held, Untouched, Applied, Vacant
<1> QED BY <1>1, <1>2, <1>3, <1>4, <1>5, <1>6, <1>7, <1>8, <1>9 DEF Main

\* A failure before or in the middle of the commit leads to the undo of what is
\* applied; any other ends the run.
LEMMA FailureStep == ASSUME Inv, Failure \/ OwnerEdits PROVE AtPoint'
<1> USE SelectedTargets DEF Inv, TypeOK, args, past, disk
<1>1. CASE BackupFails \/ StagingFails \/ UndoFails \/ DiscardFails
           \/ CleanUpFails \/ Crash \/ OwnerEdits
  <2>1. pc' \in {"idle", "cleanup"} /\ UNCHANGED cliOnly
        /\ (pc' = "cleanup" => pc # "idle")
    BY <1>1 DEF BackupFails, StagingFails, UndoFails, DiscardFails, CleanUpFails,
                Crash, OwnerEdits
  <2> QED BY <2>1 DEF AtPoint
<1>2. CASE AsideFails
  <2>1. pc = "aside" /\ pc' = "undo" /\ i' = i - 1 /\ i \in 1 .. Last + 1
        /\ UNCHANGED <<target, backup, rollback, manifest, cliOnly, release>>
    BY <1>2 DEF AsideFails, AtPoint
  <2>2. Last' = Last /\ Selected(cliOnly)' = Selected(cliOnly)
    BY <2>1 DEF Last, Selected
  <2> QED BY <2>1, <2>2 DEF AtPoint, Held, Untouched, Applied
<1>3. CASE InFails
  <2>1. pc = "in" /\ pc' = "undo" /\ i' = i - 1 /\ i \in 1 .. Last
        /\ target' = [target EXCEPT ![i] = rollback[i]]
        /\ rollback' = [rollback EXCEPT ![i] = None]
        /\ UNCHANGED <<backup, manifest, cliOnly, release>>
    BY <1>3 DEF InFails, AtPoint
  <2>2. Last' = Last /\ Selected(cliOnly)' = Selected(cliOnly)
    BY <2>1 DEF Last, Selected
  <2> QED BY <2>1, <2>2 DEF AtPoint, Held, Untouched, Applied, Vacant
<1>4. CASE RestoreFails \/ InterruptedAside \/ InterruptedIn
  <2>1. pc \in {"aside", "in"} /\ pc' = "undo" /\ i' = i - 1 /\ i \in 1 .. Last
        /\ UNCHANGED <<backup, manifest, cliOnly, release>> /\ IsTorn'
    BY <1>4 DEF RestoreFails, InterruptedAside, InterruptedIn, Torn, IsTorn, AtPoint
  <2>2. \A t \in Targets : t # i =>
          target'[t] = target[t] /\ rollback'[t] = rollback[t]
    BY <1>4, <2>1 DEF RestoreFails, InterruptedAside, Aside, InterruptedIn
  <2>3. Last' = Last /\ Selected(cliOnly)' = Selected(cliOnly)
    BY <2>1 DEF Last, Selected
  <2>4. Held' /\ Applied(i)'
    BY <2>1, <2>2, <2>3 DEF AtPoint, Held, Applied
  <2>5. i - 1 \in 0 .. Last
    BY <2>1
  <2> QED BY <2>1, <2>3, <2>4, <2>5 DEF AtPoint
<1> QED BY <1>1, <1>2, <1>3, <1>4 DEF Failure

\* Every step keeps the invariant.
LEMMA NextTyped == Inv /\ [Next]_vars => Inv'
<1> SUFFICES ASSUME Inv, [Next]_vars PROVE Inv'
  OBVIOUS
<1>1. CASE Next
  <2>1. TypeOK'
    BY <1>1, DiskTyped, MainTyped DEF TypeOK
  <2> QED BY <1>1, <2>1, MainStep, FailureStep DEF Next, Inv
<1>2. CASE UNCHANGED vars
  BY <1>2 DEF vars, Inv, TypeOK, AtPoint, Held, Applied, Vacant, Untouched, IsTorn,
              Last, Selected
<1> QED BY <1>1, <1>2

\* The invariant holds throughout.
LEMMA Invariant == Spec => []Inv
BY InitTyped, NextTyped, PTL DEF Spec

\* Every variable of the installer keeps its type.
THEOREM TypeCorrect == Spec => []TypeOK
<1>1. Inv => TypeOK
  BY DEF Inv
<1> QED BY <1>1, Invariant, PTL

-----------------------------------------------------------------------------
(* Nothing is lost *)

\* Wherever main is, a step takes away only what the backup has.
LEMMA LossStep ==
  ASSUME Inv, [Next]_vars, NEW t \in Targets, pc # "idle",
         target[t] \notin {None, target'[t], release}
  PROVE  manifest /\ backup[t] = target[t]
<1> USE SelectedTargets, IndexRange DEF Inv, TypeOK
<1>1. target' # target
  OBVIOUS
<1>2. MoveAside \/ MoveIn \/ UndoRemove \/ UndoRestore \/ InFails
      \/ InterruptedAside \/ InterruptedIn
  BY <1>1 DEF Next, Main, Failure, vars, disk, Begin, CopyTarget, WriteManifest,
     StageTarget, BeginCommit, Commit, DiscardDisplaced, Succeed, CleanUp,
     BackupFails, StagingFails, AsideFails, RestoreFails, UndoFails, DiscardFails,
     CleanUpFails, Crash, OwnerEdits
<1>3. i \in 1 .. Last /\ (t # i => target'[t] = target[t])
  BY <1>2 DEF MoveAside, Aside, MoveIn, In, UndoRemove, UndoRestore, InFails,
     InterruptedAside, InterruptedIn
<1>4. t = i
  BY <1>3
<1>5. CASE MoveAside \/ InterruptedAside
  <2>1. pc = "aside"
    BY <1>5 DEF MoveAside, InterruptedAside
  <2> QED BY <1>3, <1>4, <2>1 DEF AtPoint, Held, Untouched
<1>6. CASE UndoRemove
  <2>1. pc = "undo"
    BY <1>6 DEF UndoRemove
  <2> QED BY <1>3, <1>4, <2>1 DEF AtPoint, Applied
<1>7. CASE MoveIn \/ UndoRestore \/ InFails \/ InterruptedIn
  <2>1. pc \in {"in", "restore"}
    BY <1>7 DEF MoveIn, UndoRestore, InFails, InterruptedIn
  <2> QED BY <1>4, <2>1 DEF AtPoint, Vacant
<1> QED BY <1>2, <1>5, <1>6, <1>7

\* Whatever fails, is interrupted or dies, in any number of runs: what the
\* installer takes away it had put there itself, or a complete backup holds it.
THEOREM NothingIsLost == Spec => NothingLost
<1> DEFINE NoLoss == \A t \in Targets :
       pc # "idle" /\ target[t] \notin {None, target'[t], release} =>
         manifest /\ backup[t] = target[t]
<1>1. Inv /\ [Next]_vars => [NoLoss]_vars
  BY LossStep
<1> QED BY <1>1, Invariant, PTL DEF Spec, NothingLost

\* The backup and the undo agree, as long as no run was torn.
THEOREM BackupsAreThePreUpgradeSet == Spec => []BackupIsPreUpgradeSet
<1>1. Inv => BackupIsPreUpgradeSet
  BY SelectedTargets DEF Inv, TypeOK, AtPoint, BackupIsPreUpgradeSet, Displaced,
     Installed, Untouched, Applied, Vacant, IsTorn
<1> QED BY <1>1, Invariant, PTL

-----------------------------------------------------------------------------
(* The installer keeps what AtomicInstall promises *)

\* Before the commit and after it, every step but the commit leaves the set
\* alone, or tears it.
LEMMA QuietStep ==
  ASSUME Inv, Inv', Main \/ Failure, ~Commit
  PROVE  \/ IsTorn'
         \/ Installed' = Installed /\ IsTorn' = IsTorn
<1> USE IndexRange DEF Inv, TypeOK
<1>1. CASE IsTorn'
  BY <1>1
<1>2. CASE ~IsTorn'
  <2>1. IsTorn' = IsTorn
    BY <1>2 DEF IsTorn, Main, Failure, Begin, CopyTarget, WriteManifest, StageTarget,
       BeginCommit, MoveAside, MoveIn, Commit, DiscardDisplaced, Succeed, UndoRemove,
       UndoRestore, CleanUp, BackupFails, StagingFails, AsideFails, InFails,
       RestoreFails, InterruptedAside, InterruptedIn, UndoFails, DiscardFails,
       CleanUpFails, Crash, Torn, past
  <2>2. CASE Begin \/ CopyTarget \/ WriteManifest \/ StageTarget \/ BeginCommit
             \/ DiscardDisplaced \/ Succeed \/ BackupFails \/ StagingFails
             \/ DiscardFails \/ CleanUpFails
    <3>1. /\ pc \in {"idle", "backup", "stage", "discard", "cleanup"}
          /\ \/ pc' \in {"idle", "backup", "stage", "discard", "cleanup"}
             \/ pc' = "aside" /\ i' = 1
          /\ target' = target
      BY <2>2 DEF Begin, CopyTarget, WriteManifest, StageTarget, BeginCommit,
         DiscardDisplaced, Succeed, BackupFails, StagingFails, DiscardFails,
         CleanUpFails, disk
    <3>2. Displaced = {} /\ Displaced' = {}
      BY <3>1 DEF Displaced
    <3> QED BY <2>1, <3>1, <3>2 DEF Installed
  <2>3. CASE MoveAside \/ MoveIn \/ UndoRemove
    <3>1. i \in 1 .. Last /\ i \in Targets
      BY <2>3 DEF MoveAside, MoveIn, UndoRemove
    <3>2. \A t \in Targets : t # i =>
            target'[t] = target[t] /\ rollback'[t] = rollback[t]
      BY <2>3 DEF MoveAside, Aside, MoveIn, In, UndoRemove
    <3>3. /\ Displaced' = 1 .. i
          /\ Displaced = IF pc = "aside" THEN 1 .. i - 1 ELSE 1 .. i
      BY <2>3, <3>1 DEF Displaced, MoveAside, MoveIn, UndoRemove
    <3>4. rollback'[i] = IF pc = "aside" THEN target[i] ELSE rollback[i]
      BY <2>3, <3>1 DEF MoveAside, Aside, MoveIn, In, UndoRemove
    <3>5. \A t \in Targets :
            (IF t \in Displaced' THEN rollback'[t] ELSE target'[t]) =
              IF t \in Displaced THEN rollback[t] ELSE target[t]
      BY <3>1, <3>2, <3>3, <3>4 DEF Targets
    <3> QED BY <2>1, <3>5 DEF Installed
  <2>4. CASE UndoRestore \/ InFails
    <3>1. i \in 1 .. Last /\ i \in Targets
      BY <2>4 DEF UndoRestore, InFails
    <3>2. /\ Displaced = 1 .. i /\ Displaced' = 1 .. i - 1
          /\ target' = [target EXCEPT ![i] = rollback[i]]
          /\ rollback' = [rollback EXCEPT ![i] = None]
      BY <2>4, <3>1 DEF Displaced, UndoRestore, InFails
    <3>3. \A t \in Targets :
            (IF t \in Displaced' THEN rollback'[t] ELSE target'[t]) =
              IF t \in Displaced THEN rollback[t] ELSE target[t]
      BY <3>1, <3>2 DEF Targets
    <3> QED BY <2>1, <3>3 DEF Installed
  <2>5. CASE AsideFails \/ CleanUp
    <3>1. Displaced' = Displaced /\ UNCHANGED <<target, rollback>>
      BY <2>5 DEF Displaced, AsideFails, CleanUp, disk
    <3> QED BY <2>1, <3>1 DEF Installed
  <2>6. CASE Crash
    <3>1. target' = target /\ pc' = "idle"
      BY <2>6 DEF Crash, disk
    <3>2. target = Installed
      BY <1>2, <2>6 DEF Crash, Torn, IsTorn
    <3>3. Installed' = target
      BY <3>1 DEF Installed, Displaced
    <3> QED BY <2>1, <3>2, <3>3
  <2>7. ~(RestoreFails \/ InterruptedAside \/ InterruptedIn \/ UndoFails)
    BY <1>2 DEF RestoreFails, InterruptedAside, InterruptedIn, UndoFails, Torn, IsTorn
  <2> QED BY <2>2, <2>3, <2>4, <2>5, <2>6, <2>7 DEF Main, Failure
<1> QED BY <1>1, <1>2

\* The commit replaces all selected targets at once, and none is foreign.
LEMMA CommitStep == ASSUME Inv, Commit PROVE Atomic!Install
<1> USE SelectedTargets, IndexRange DEF Inv, TypeOK
<1>1. pc = "aside" /\ i = Last + 1 /\ pc' = "discard" /\ Held /\ Applied(Last)
      /\ UNCHANGED <<target, history>>
  BY DEF Commit, AtPoint, disk, past
<1>2. Displaced = 1 .. Last /\ Displaced' = {}
  BY <1>1 DEF Displaced
<1>3. Atomic!Targets = Targets /\ Atomic!Selected(cliOnly) = 1 .. Last
  BY DEF Atomic!Targets, Atomic!Selected, Selected, Targets
<1>4. \A t \in 1 .. Last : Installed[t] # Foreign
  BY <1>1, <1>2 DEF Installed, Held, Applied
<1>5. Installed' = [t \in Targets |-> IF t \in 1 .. Last THEN release
                                     ELSE Installed[t]]
  BY <1>1, <1>2 DEF Installed, Applied
<1>6. cliOnly \in Modes /\ release \in Releases
  BY <1>1 DEF AtPoint
<1> QED BY <1>1, <1>3, <1>4, <1>5, <1>6 DEF Atomic!Install

\* Every step of a run, of what happens to it and of the owner is a step that
\* AtomicInstall allows.
LEMMA AtomicStep ==
  ASSUME Inv, Inv', [Next]_vars
  PROVE  [Atomic!Next]_<<Installed, "torn" \in history>>
<1>1. CASE UNCHANGED vars
  BY <1>1 DEF vars, Installed, Displaced
<1>2. CASE Commit
  BY <1>2, CommitStep DEF Atomic!Next
<1>3. CASE (Main \/ Failure) /\ ~Commit
  <2>1. CASE IsTorn'
    <3>1. Installed' \in [Targets -> Contents]
      BY DEF Inv, TypeOK, Installed
    <3>2. Atomic!Tear
      BY <2>1, <3>1 DEF Atomic!Tear, Atomic!Targets, Targets, Contents, IsTorn
    <3> QED BY <3>2 DEF Atomic!Next
  <2> QED BY <1>3, <2>1, QuietStep DEF IsTorn
<1>4. CASE OwnerEdits
  <2>1. pc = "idle" /\ pc' = "idle" /\ UNCHANGED history
    BY <1>4 DEF OwnerEdits
  <2>2. Installed = target /\ Installed' = target'
    BY <2>1 DEF Inv, TypeOK, Installed, Displaced, OwnerEdits
  <2> QED
    BY <1>4, <2>1, <2>2 DEF OwnerEdits, Atomic!OwnerEdits, Atomic!Next,
       Atomic!Targets, Targets
<1> QED BY <1>1, <1>2, <1>3, <1>4 DEF Next

\* install.py replaces the installed set as a whole or not at all, for any number
\* of controllers, until a run is torn.
THEOREM ImplementsAtomicInstall == Spec => InstallsAtomically
<1>1. Init => Atomic!Init
  BY DEF Init, Atomic!Init, Atomic!Targets, Targets, Installed, Displaced
<1>2. Inv /\ Inv' /\ [Next]_vars => [Atomic!Next]_<<Installed, "torn" \in history>>
  BY AtomicStep
<1> QED BY <1>1, <1>2, Invariant, PTL DEF Spec, InstallsAtomically, Atomic!Spec

-----------------------------------------------------------------------------
(* Own installs are recognized *)

\* As long as --cli-only is not used and no run is torn, the controllers are of
\* v0.1 or of the release of the application, whose receipt names them.
OneRelease ==
  /\ cliOnly => "cli-only" \in history
  /\ history = {} /\ Installed[App] \in Releases =>
       \A t \in Controllers :
         Installed[t] \in Releases => Installed[t] \in {Legacy, Installed[App]}

\* Nothing that happened is forgotten.
LEMMA HistoryGrows ==
  ASSUME Inv, Next
  PROVE  /\ history \subseteq history'
         /\ cliOnly' => cliOnly \/ "cli-only" \in history'
<1>1. CASE Begin
  BY <1>1 DEF Begin
<1>2. CASE ~Begin
  BY <1>2 DEF Next, Main, Failure, CopyTarget, WriteManifest, StageTarget,
     BeginCommit, MoveAside, MoveIn, Commit, DiscardDisplaced, Succeed, UndoRemove,
     UndoRestore, CleanUp, BackupFails, StagingFails, AsideFails, InFails,
     RestoreFails, InterruptedAside, InterruptedIn, UndoFails, DiscardFails,
     CleanUpFails, Crash, OwnerEdits, Torn, past, args
<1> QED BY <1>1, <1>2

\* Only the commit and the owner change the set.
LEMMA OneReleaseStep ==
  ASSUME Inv, Inv', OneRelease, [Next]_vars
  PROVE  OneRelease'
<1>1. CASE UNCHANGED vars
  BY <1>1 DEF vars, OneRelease, Installed, Displaced
<1>2. CASE Next
  <2>1. cliOnly' => "cli-only" \in history'
    BY <1>2, HistoryGrows DEF OneRelease
  <2> SUFFICES ASSUME history' = {}, Installed'[App] \in Releases,
                      NEW t \in Controllers, Installed'[t] \in Releases
               PROVE  Installed'[t] \in {Legacy, Installed'[App]}
    BY <2>1 DEF OneRelease
  <2>2. history = {} /\ ~cliOnly /\ ~cliOnly' /\ ~IsTorn'
    BY <1>2, <2>1, HistoryGrows DEF OneRelease, IsTorn
  <2>3. App \in Targets /\ t \in Targets /\ t # App
    BY DEF App, Targets, Controllers
  <2>4. CASE Commit
    <3>1. pc = "aside" /\ i = Last + 1 /\ pc' = "discard" /\ Applied(Last)
          /\ target' = target
      BY <2>4, IndexRange, SelectedTargets DEF Commit, AtPoint, Inv, TypeOK, disk
    <3>2. Selected(cliOnly) = Targets /\ Last = NumControllers + 2
      BY <2>2 DEF Selected, Last
    <3>3. Installed' = target
      BY <3>1 DEF Installed, Displaced, Inv, TypeOK
    <3>4. target[t] = release /\ target[App] = release
      BY <2>3, <3>1, <3>2 DEF Applied, Targets
    <3> QED BY <3>3, <3>4
  <2>5. CASE OwnerEdits
    <3>1. Installed = target /\ Installed' = target'
      BY <2>5 DEF OwnerEdits, Inv, TypeOK, Installed, Displaced
    <3>2. \A u \in Targets : target'[u] \in Releases => target'[u] = target[u]
      BY <2>5 DEF OwnerEdits, Inv, TypeOK
    <3> QED BY <2>2, <2>3, <3>1, <3>2 DEF OneRelease
  <2>6. CASE (Main \/ Failure) /\ ~Commit
    <3>1. Installed' = Installed
      BY <2>2, <2>6, QuietStep
    <3> QED BY <2>2, <3>1 DEF OneRelease
  <2> QED BY <1>2, <2>4, <2>5, <2>6 DEF Next
<1> QED BY <1>1, <1>2

\* Between two runs, without --cli-only and torn runs, a later --replace of any
\* release recognizes what the installer put there as long as the application is
\* in place; without it, of the controllers exactly those of v0.1 and of the
\* release that replaces them (install.py:149-164, 295).
THEOREM OwnInstallsAreRecognized == Spec => []OwnInstallsRecognized
<1>1. Init => OneRelease
  <2> SUFFICES ASSUME Init PROVE OneRelease
    OBVIOUS
  <2>1. App \in Targets /\ App \notin Controllers
    BY DEF App, Targets, Controllers
  <2>2. Installed[App] = None
    BY <2>1 DEF Init, Installed, Displaced
  <2> QED BY <2>2 DEF Init, OneRelease
<1>2. Inv /\ Inv' /\ OneRelease /\ [Next]_vars => OneRelease'
  BY OneReleaseStep
<1>3. Inv /\ OneRelease => OwnInstallsRecognized
  <2> SUFFICES ASSUME Inv, OneRelease, pc = "idle", history = {},
                      NEW r \in Releases, NEW t \in Targets,
                      target[t] \in Releases
               PROVE  Recognized(t, r) <=> \/ t \notin Controllers
                                           \/ target[t] \in {r, Legacy}
                                           \/ target[App] \in Releases
    BY DEF OwnInstallsRecognized
  <2>1. Installed = target
    BY DEF Inv, TypeOK, Installed, Displaced
  <2> QED BY <2>1 DEF OneRelease, Recognized
<1> QED BY <1>1, <1>2, <1>3, Invariant, PTL DEF Spec
-----------------------------------------------------------------------------
(* A run ends *)

\* Two measures of what a run still has to do: the phases, and the calls of its
\* phase, of which a replacement and an undo have two for each target.
PhasesLeft ==
  CASE pc = "backup" -> 6 [] pc = "stage" -> 5 [] pc \in {"aside", "in"} -> 4
    [] pc = "discard" -> 3 [] pc \in {"undo", "restore"} -> 2
    [] pc = "cleanup" -> 1 [] pc = "idle" -> 0

CallsLeft ==
  CASE pc \in {"backup", "stage", "discard"} -> Last + 1 - i
    [] pc = "aside" -> 2 * (Last + 1 - i) [] pc = "in" -> 2 * (Last + 1 - i) - 1
    [] pc = "undo" -> 2 * i [] pc = "restore" -> 2 * i - 1
    [] pc \in {"cleanup", "idle"} -> 0

\* The first of them that moves moves down.
Nearer ==
  \/ PhasesLeft' < PhasesLeft
  \/ PhasesLeft' = PhasesLeft /\ CallsLeft' < CallsLeft

LEMMA MeasuresAreNumbers == Inv => PhasesLeft \in Nat /\ CallsLeft \in Nat
<1> SUFFICES ASSUME Inv PROVE PhasesLeft \in Nat /\ CallsLeft \in Nat
  OBVIOUS
<1>1. pc \in {"idle", "backup", "stage", "aside", "in", "discard", "undo",
             "restore", "cleanup"}
  BY DEF Inv, TypeOK
<1>2. PhasesLeft \in Nat
  BY <1>1 DEF PhasesLeft
<1>3. CallsLeft \in Nat
  BY <1>1, SelectedTargets DEF CallsLeft, Inv, AtPoint
<1> QED BY <1>2, <1>3

LEMMA MainIsNearer ==
  ASSUME Inv, Main, pc # "idle"
  PROVE  Nearer
<1>1. Last' = Last /\ Last \in Nat /\ i \in Nat
  <2>1. cliOnly' = cliOnly
    BY DEF Main, Begin, CopyTarget, WriteManifest, StageTarget, BeginCommit,
      MoveAside, MoveIn, Commit, DiscardDisplaced, Succeed, UndoRemove,
      UndoRestore, CleanUp, args
  <2> QED BY <2>1, SelectedTargets DEF Last, Inv, TypeOK
<1>2. CASE CopyTarget \/ StageTarget \/ DiscardDisplaced
  BY <1>1, <1>2 DEF CopyTarget, StageTarget, DiscardDisplaced, Nearer,
    PhasesLeft, CallsLeft
<1>3. CASE WriteManifest \/ BeginCommit \/ Commit \/ Succeed \/ CleanUp
  BY <1>3 DEF WriteManifest, BeginCommit, Commit, Succeed, CleanUp, Nearer,
    PhasesLeft
<1>4. CASE MoveAside \/ MoveIn
  BY <1>1, <1>4 DEF MoveAside, MoveIn, Nearer, PhasesLeft, CallsLeft
<1>5. CASE UndoRemove \/ UndoRestore
  BY <1>1, <1>5 DEF UndoRemove, UndoRestore, Nearer, PhasesLeft, CallsLeft
<1> QED BY <1>2, <1>3, <1>4, <1>5 DEF Main, Begin

\* A failure leads to a later phase, never back.
LEMMA FailureIsNearer ==
  ASSUME Inv, Failure
  PROVE  Nearer
<1>1. CASE BackupFails \/ StagingFails \/ AsideFails \/ InFails \/ RestoreFails
  BY <1>1 DEF BackupFails, StagingFails, AsideFails, InFails, RestoreFails,
    Nearer, PhasesLeft
<1>2. CASE InterruptedAside \/ InterruptedIn \/ UndoFails \/ DiscardFails
             \/ CleanUpFails
  BY <1>2 DEF InterruptedAside, InterruptedIn, UndoFails, DiscardFails,
    CleanUpFails, Nearer, PhasesLeft
<1>3. CASE Crash
  BY <1>3 DEF Crash, Nearer, PhasesLeft, Inv, TypeOK
<1> QED BY <1>1, <1>2, <1>3 DEF Failure

\* A run of the installer ends after boundedly many steps, whatever fails: an
\* error in the middle of the replacements leads into the undo, one in the undo
\* out of it, and no call is made twice (install.py:207-423).
THEOREM RunIsFinite ==
  Spec => /\ [](PhasesLeft \in Nat /\ CallsLeft \in Nat)
          /\ [][Main \/ Failure => pc = "idle" \/ Nearer]_vars
<1>1. Inv => [Main \/ Failure => pc = "idle" \/ Nearer]_vars
  BY MainIsNearer, FailureIsNearer
<1> QED BY <1>1, Invariant, MeasuresAreNumbers, PTL DEF Spec
=============================================================================
