------------------------------ MODULE LabHome ------------------------------
(***************************************************************************)
(* The making of a lab in a directory (fieldlab/lab.py): `fieldlab init`,  *)
(* which creates its directories in place and writes the manifest last,    *)
(* and `fieldlab migrate-v1`, which builds a lab beside it and renames it. *)
(* Several of them may run at once, fail, die and be run again.            *)
(*                                                                         *)
(* The lab a migration builds is private until the rename, which puts all  *)
(* of it in place, its records too: how it is built is one step here.      *)
(***************************************************************************)
EXTENDS Naturals, Sequences, FiniteSets

CONSTANTS
  Inits, Migrations,   \* processes that make a lab of the directory
  LabDirectories,      \* LAB_DIRECTORIES, in their order
  Records,             \* record files, in a lab or among those of the host
  Contents,            \* what is in one
  Staged,              \* the records of the lab that each migration builds
  Partial,             \* what a copy holds before it is complete
  MaxFaults,           \* bound on deaths and failures
  None

Makers == Inits \cup Migrations
Dirs == {LabDirectories[i] : i \in DOMAIN LabDirectories}
FileState == Contents \cup {Partial, None}

ASSUME MakersAssumption ==
  /\ Inits \cap Migrations = {} /\ None \notin Makers \cup Contents
  /\ Partial \notin Contents \cup {None} /\ MaxFaults \in Nat
ASSUME DirectoriesAssumption ==
  /\ LabDirectories \in Seq(Dirs) /\ LabDirectories # <<>>
  /\ \A i, j \in DOMAIN LabDirectories :
       LabDirectories[i] = LabDirectories[j] => i = j
\* A pack without a case is not migrated, and each migration leaves a receipt.
ASSUME StagedAssumption ==
  /\ Staged \in [Migrations -> [Records -> Contents \cup {None}]]
  /\ \A m \in Migrations : \E f \in Records : Staged[m][f] # None

VARIABLES
  exists,     \* the directory is there
  dirs,       \* the directories of a lab that are in it
  files,      \* the records in it
  manifest,   \* None, or who wrote its fieldlab.json
  maker,      \* what each maker does next
  made,       \* how many directories an init has created
  foreign,    \* somebody else than a migration has put something there
  faults

home == <<exists, dirs, files, manifest>>
labVars == <<home, maker, made, foreign, faults>>

NoFiles == [f \in Records |-> None]

\* The directory is not there, empty, or belongs to a host with files in it.
LabInit ==
  /\ \/ exists \in BOOLEAN /\ files = NoFiles
     \/ \E f \in Records, c \in Contents :
          exists = TRUE /\ files = [NoFiles EXCEPT ![f] = c]
  /\ dirs = {}
  /\ manifest = None
  /\ maker = [m \in Makers |-> "idle"]
  /\ made = [m \in Makers |-> 0]
  /\ foreign = exists
  /\ faults = 0

IsEmpty == dirs = {} /\ files = NoFiles /\ manifest = None

Goes(m, to) == maker' = [maker EXCEPT ![m] = to]

-----------------------------------------------------------------------------
(* initialize_lab *)

InitRefuses == exists /\ ~IsEmpty

InitCheck(m) ==
  /\ maker[m] = "idle"
  /\ Goes(m, IF InitRefuses THEN "refused" ELSE "checked")
  /\ UNCHANGED <<home, made, foreign, faults>>

\* mkdir(parents=True, exist_ok=True)
InitRoot(m) ==
  /\ maker[m] = "checked" /\ Goes(m, "making")
  /\ exists' = TRUE /\ foreign' = TRUE
  /\ made' = [made EXCEPT ![m] = 0]
  /\ UNCHANGED <<dirs, files, manifest, faults>>

\* Mutant: mkdir(exist_ok=True).
InitDirectoryExistOk(m) ==
  /\ maker[m] = "making" /\ made[m] < Len(LabDirectories)
  /\ dirs' = dirs \cup {LabDirectories[made[m] + 1]}
  /\ made' = [made EXCEPT ![m] = @ + 1]
  /\ UNCHANGED <<exists, files, manifest, maker, foreign, faults>>

\* mkdir() of the next directory: one that is there is an error.
InitDirectory(m) ==
  /\ maker[m] = "making" /\ made[m] < Len(LabDirectories)
  /\ LET d == LabDirectories[made[m] + 1] IN
       IF d \in dirs THEN Goes(m, "failed") /\ UNCHANGED <<dirs, made>>
       ELSE /\ dirs' = dirs \cup {d}
            /\ made' = [made EXCEPT ![m] = @ + 1]
            /\ UNCHANGED maker
  /\ UNCHANGED <<exists, files, manifest, foreign, faults>>

InitManifest(m) ==
  /\ maker[m] = "making" /\ made[m] = Len(LabDirectories)
  /\ Goes(m, "done")
  /\ manifest' = m
  /\ UNCHANGED <<exists, dirs, files, made, foreign, faults>>

InitStep(m) ==
  InitCheck(m) \/ InitRoot(m) \/ InitDirectory(m) \/ InitManifest(m)

-----------------------------------------------------------------------------
(* migrate_v1 *)

MigrateCheck(m) ==
  /\ maker[m] = "idle"
  /\ Goes(m, IF exists THEN "refused" ELSE "checked")
  /\ UNCHANGED <<home, made, foreign, faults>>

\* The staged lab is complete and was validated.
MigrateStage(m) ==
  /\ maker[m] = "checked" /\ Goes(m, "staged")
  /\ UNCHANGED <<home, made, foreign, faults>>

\* Mutant: what is in the way is removed first.
NothingInTheWay == TRUE

\* os.replace takes the place of nothing or of an empty directory.
Replaceable == ~exists \/ IsEmpty

MigratePublish(m) ==
  /\ maker[m] = "staged"
  /\ IF Replaceable
     THEN /\ exists' = TRUE /\ dirs' = Dirs /\ manifest' = m
          /\ files' = Staged[m] /\ Goes(m, "done")
     ELSE UNCHANGED home /\ Goes(m, "failed")
  /\ UNCHANGED <<made, foreign, faults>>

MigrateStep(m) == MigrateCheck(m) \/ MigrateStage(m) \/ MigratePublish(m)

-----------------------------------------------------------------------------

\* Mutant: a migration builds the lab in place.
MakerFailsInPlace(m) ==
  /\ maker[m] \in {"checked", "making", "staged"}
  /\ faults < MaxFaults /\ faults' = faults + 1
  /\ Goes(m, "failed") /\ exists' = TRUE
  /\ UNCHANGED <<dirs, files, manifest, made, foreign>>

\* An error or a death: an init leaves what it made, a migration nothing here.
MakerFails(m) ==
  /\ maker[m] \in {"checked", "making", "staged"}
  /\ faults < MaxFaults /\ faults' = faults + 1
  /\ Goes(m, "failed")
  /\ UNCHANGED <<home, made, foreign>>

\* The operator runs the command again.
Retry(m) ==
  /\ maker[m] \in {"failed", "refused"} /\ Goes(m, "idle")
  /\ UNCHANGED <<home, made, foreign, faults>>

MakerStep(m) ==
  \/ m \in Inits /\ InitStep(m)
  \/ m \in Migrations /\ MigrateStep(m)
  \/ Retry(m)

LabNext == \E m \in Makers : MakerStep(m) \/ MakerFails(m)

-----------------------------------------------------------------------------

LabTypeOK ==
  /\ exists \in BOOLEAN /\ dirs \subseteq Dirs
  /\ files \in [Records -> FileState]
  /\ manifest \in Makers \cup {None}
  /\ maker \in [Makers -> {"idle", "refused", "checked", "making", "staged",
                           "failed", "done"}]
  /\ made \in [Makers -> 0 .. Len(LabDirectories)]
  /\ foreign \in BOOLEAN /\ faults \in 0 .. MaxFaults
  /\ ~exists => IsEmpty

Published ==
  IF manifest = None THEN None ELSE [maker |-> manifest, dirs |-> dirs]

Atomic == INSTANCE AtomicLab WITH lab <- Published, Directories <- Dirs

\* However inits, migrations and promotions into the directory interleave, fail
\* and die, it becomes a lab in one step, with every directory, made by one of
\* them (lab.py:54-68, 279-395).
MadeOnce == Atomic!Spec
=============================================================================
