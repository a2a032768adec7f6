--------------------------- MODULE PromotionProofs ---------------------------
(***************************************************************************)
(* Theorems about LabHome and Promotion, for any number of inits and       *)
(* migrations, any directories and records, and failures, deaths and edits *)
(* in any number.                                                          *)
(*                                                                         *)
(* Nothing locks the directory.  What keeps two inits apart is the first   *)
(* mkdir: who created the first directory is the only one that goes on     *)
(* (Builders).  A promotion takes records that are not there when it looks *)
(* (Copying): only the rename of a migration can bring one before the      *)
(* promotion has copied it, and what is in a receipt is out of its reach.  *)
(***************************************************************************)
EXTENDS Promotion, TLAPS

USE MakersAssumption, RecordsAssumption, StagedAssumption

\* An init under way has created the first directories of the list; at most one
\* has created any, and then nobody has made the lab.
Builders ==
  /\ manifest # None => dirs = Dirs
  /\ \A m \in Makers : maker[m] = "making" =>
       exists /\ \A k \in 1 .. made[m] : LabDirectories[k] \in dirs
  /\ \A m \in Makers : maker[m] = "making" /\ made[m] > 0 => manifest = None
  /\ \A m, n \in Makers :
       /\ maker[m] = "making" /\ made[m] > 0
       /\ maker[n] = "making" /\ made[n] > 0
       => m = n

\* What a migration has put there.
Migrated(f) == manifest \in Migrations /\ files[f] = Staged[manifest][f]

\* A record that is left is not in the directory, or a migration has put it
\* there, but for the one being copied; a record that was copied is whole.
Copying ==
  /\ step # "copying" => left = {} /\ open = None
  /\ open # None =>
       /\ open.file \in left /\ exists
       /\ open.bytes # None => files[open.file] = Partial
  /\ step = "copying" =>
       /\ \A f \in left :
            \/ files[f] = None
            \/ Migrated(f)
            \/ open # None /\ open.file = f /\ files[f] = Partial
       /\ \A f \in selected \ left : files[f] \in Contents

\* No promotion has a record to copy that is in a receipt.
Promoted == \A r \in receipts : r.listed \cap left = {}

Inv == TypeOK /\ Builders /\ Copying /\ Promoted /\ PromotionReceiptTrue

\* What NothingOverwritten says of a step.
Kept ==
  /\ \A f \in left' \ left : files[f] = None
  /\ \A f \in Records :
       files[f] \notin {None, Partial} /\ files'[f] # files[f] =>
         /\ manifest \in Migrations /\ files[f] = Staged[manifest][f]
         /\ f \in left /\ files'[f] = Partial

LEMMA NumberOfDirectories ==
  /\ Len(LabDirectories) \in Nat /\ Len(LabDirectories) > 0
  /\ Dirs = {LabDirectories[k] : k \in 1 .. Len(LabDirectories)}
  /\ \A k \in 1 .. Len(LabDirectories) : LabDirectories[k] \in Dirs
<1>1. DOMAIN LabDirectories = 1 .. Len(LabDirectories) /\ Len(LabDirectories) \in Nat
  BY DirectoriesAssumption
<1>2. Len(LabDirectories) # 0
  <2>1. SUFFICES ASSUME Len(LabDirectories) = 0 PROVE FALSE
    OBVIOUS
  <2>2. LabDirectories = <<>>
    BY <2>1, DirectoriesAssumption
  <2> QED BY <2>2, DirectoriesAssumption
<1> QED BY <1>1, <1>2 DEF Dirs

\* The receipts of promotions hold, for what they list is not left to any.
LEMMA ReceiptsKept ==
  ASSUME Inv, Kept, receipts' = receipts
  PROVE  PromotionReceiptTrue' /\ Promoted'
<1>1. \A f \in Records :
        files[f] \in Contents /\ f \notin left =>
          files'[f] = files[f] /\ f \notin left'
  BY DEF Kept
<1>2. \A r \in receipts, f \in Records :
        f \in r.listed => files[f] = r.digests[f] /\ files[f] \in Contents /\ f \notin left
  BY DEF Inv, PromotionReceiptTrue, Promoted
<1>3. \A r \in receipts : r.listed \subseteq Records
  BY DEF Inv, TypeOK
<1>4. PromotionReceiptTrue'
  BY <1>1, <1>2, <1>3 DEF PromotionReceiptTrue
<1>5. Promoted'
  BY <1>1, <1>2, <1>3 DEF Promoted
<1> QED BY <1>4, <1>5

LEMMA Initially == Init => Inv
<1> SUFFICES ASSUME Init PROVE Inv
  OBVIOUS
<1>1. files \in [Records -> FileState]
  <2>1. NoFiles \in [Records -> FileState]
    BY DEF NoFiles, FileState
  <2> QED BY <2>1 DEF Init, LabInit, FileState
<1>2. LabTypeOK
  <2>1. ~exists => files = NoFiles
    BY DEF Init, LabInit
  <2>2. made \in [Makers -> 0 .. Len(LabDirectories)]
    BY NumberOfDirectories DEF Init, LabInit
  <2>3. exists \in BOOLEAN /\ foreign \in BOOLEAN
    BY DEF Init, LabInit
  <2>4. maker \in [Makers -> {"idle", "refused", "checked", "making", "staged",
                            "failed", "done"}]
    BY DEF Init, LabInit
  <2>5. dirs = {} /\ manifest = None /\ faults \in 0 .. MaxFaults
    BY DEF Init, LabInit
  <2> QED BY <1>1, <2>1, <2>2, <2>3, <2>4, <2>5 DEF LabTypeOK, IsEmpty
<1>3. TypeOK
  BY <1>2 DEF Init, TypeOK, SrcState, Odd, Links
<1> QED BY <1>3 DEF Init, LabInit, Inv, Builders, Copying, Promoted,
                   PromotionReceiptTrue

-----------------------------------------------------------------------------
(* The makers of the lab *)

\* What a step of a maker has to show.
MakersKeep ==
  /\ LabTypeOK' /\ Builders' /\ (exists => exists')
  /\ \/ files' = files /\ (manifest \in Migrations => manifest' = manifest)
     \/ /\ files = NoFiles
        /\ manifest' \in Migrations /\ files' = Staged[manifest']

LEMMA CheckSteps ==
  ASSUME Inv, NEW m \in Makers, UNCHANGED <<home, made, foreign>>,
         faults' \in 0 .. MaxFaults,
         NEW to \in {"idle", "refused", "checked", "staged", "failed"}, Goes(m, to)
  PROVE  MakersKeep
<1>1. LabTypeOK'
  BY DEF Inv, TypeOK, LabTypeOK, Goes, home, IsEmpty
<1>2. \A n \in Makers : maker'[n] = "making" => maker[n] = "making"
  BY DEF Inv, TypeOK, LabTypeOK, Goes
<1>3. Builders'
  BY <1>2 DEF Inv, Builders, home
<1> QED BY <1>1, <1>3 DEF MakersKeep, home

LEMMA RootStep ==
  ASSUME Inv, NEW m \in Makers, InitRoot(m)
  PROVE  MakersKeep
<1>1. LabTypeOK'
  <2>1. made' \in [Makers -> 0 .. Len(LabDirectories)]
    BY NumberOfDirectories DEF Inv, TypeOK, LabTypeOK, InitRoot
  <2> QED BY <2>1 DEF Inv, TypeOK, LabTypeOK, InitRoot, Goes
<1>2. \A n \in Makers : made'[n] = (IF n = m THEN 0 ELSE made[n])
  BY DEF Inv, TypeOK, LabTypeOK, InitRoot
<1>3. \A n \in Makers : n # m => maker'[n] = maker[n]
  BY DEF Inv, TypeOK, LabTypeOK, InitRoot, Goes
<1>4. Builders'
  BY <1>2, <1>3 DEF Inv, Builders, InitRoot
<1> QED BY <1>1, <1>4 DEF MakersKeep, InitRoot

LEMMA DirectoryStep ==
  ASSUME Inv, NEW m \in Makers, InitDirectory(m)
  PROVE  MakersKeep
<1> DEFINE d == LabDirectories[made[m] + 1]
<1>1. CASE d \in dirs
  BY <1>1, CheckSteps DEF InitDirectory, home, Inv, TypeOK, LabTypeOK
<1>2. CASE d \notin dirs
  <2>1. /\ dirs' = dirs \cup {d} /\ made' = [made EXCEPT ![m] = @ + 1]
        /\ maker[m] = "making" /\ made[m] < Len(LabDirectories)
        /\ UNCHANGED <<exists, files, manifest, maker, foreign, faults>>
    BY <1>2 DEF InitDirectory
  <2>2. made[m] \in Nat /\ made[m] + 1 \in 1 .. Len(LabDirectories) /\ d \in Dirs
    <3>1. made[m] \in 0 .. Len(LabDirectories)
      BY DEF Inv, TypeOK, LabTypeOK
    <3>2. made[m] < Len(LabDirectories)
      BY <2>1
    <3>3. made[m] \in Nat /\ made[m] + 1 \in 1 .. Len(LabDirectories)
      BY <3>1, <3>2, NumberOfDirectories
    <3> QED BY <3>3, NumberOfDirectories
  <2>3. exists /\ manifest = None
    BY <1>2, <2>1, <2>2 DEF Inv, Builders
  <2>4. LabTypeOK'
    BY <2>1, <2>2, <2>3 DEF Inv, TypeOK, LabTypeOK
  <2>5. \A n \in Makers : made'[n] = (IF n = m THEN made[m] + 1 ELSE made[n])
    BY <2>1 DEF Inv, TypeOK, LabTypeOK
  <2>6. ASSUME NEW n \in Makers, n # m, maker[n] = "making", made[n] > 0
        PROVE  FALSE
    <3>1. made[n] \in Nat /\ LabDirectories[1] \in dirs
      BY <2>6 DEF Inv, Builders, TypeOK, LabTypeOK
    <3>2. made[m] > 0
      BY <1>2, <2>2, <3>1
    <3> QED BY <2>1, <2>6, <3>2 DEF Inv, Builders
  <2>7. Builders'
    <3>1. ASSUME NEW n \in Makers, maker[n] = "making", NEW k \in 1 .. made'[n]
          PROVE  LabDirectories[k] \in dirs'
      <4>1. CASE n = m /\ k = made[m] + 1
        BY <2>1, <4>1
      <4>2. CASE ~(n = m /\ k = made[m] + 1)
        <5>1. made[n] \in Nat /\ k \in 1 .. made[n]
          BY <2>2, <2>5, <4>2 DEF Inv, TypeOK, LabTypeOK
        <5> QED BY <2>1, <3>1, <5>1 DEF Inv, Builders
      <4> QED BY <4>1, <4>2
    <3>2. \A n, l \in Makers :
            /\ maker[n] = "making" /\ made'[n] > 0
            /\ maker[l] = "making" /\ made'[l] > 0
            => n = l
      BY <2>5, <2>6
    <3> QED BY <2>1, <2>3, <3>1, <3>2 DEF Builders
  <2> QED BY <2>1, <2>4, <2>7 DEF MakersKeep
<1> QED BY <1>1, <1>2

LEMMA ManifestStep ==
  ASSUME Inv, NEW m \in Makers, InitManifest(m)
  PROVE  /\ MakersKeep
         /\ manifest = None /\ manifest' = m /\ dirs' = Dirs
<1>1. /\ maker[m] = "making" /\ made[m] = Len(LabDirectories)
      /\ maker' = [maker EXCEPT ![m] = "done"] /\ manifest' = m
      /\ UNCHANGED <<exists, dirs, files, made, foreign, faults>>
  BY DEF InitManifest, Goes
<1>2. exists /\ manifest = None /\ dirs = Dirs
  <2>1. exists /\ manifest = None
    BY <1>1, NumberOfDirectories DEF Inv, Builders
  <2>2. Dirs \subseteq dirs
    BY <1>1, NumberOfDirectories DEF Inv, Builders
  <2> QED BY <2>1, <2>2 DEF Inv, TypeOK, LabTypeOK
<1>3. LabTypeOK'
  BY <1>1, <1>2 DEF Inv, TypeOK, LabTypeOK
<1>4. Builders'
  <2>1. \A n \in Makers : maker'[n] = "making" => n # m /\ maker[n] = "making"
    BY <1>1 DEF Inv, TypeOK, LabTypeOK
  <2>2. made[m] > 0
    BY <1>1, NumberOfDirectories
  <2>3. \A n \in Makers : maker'[n] = "making" => ~(made[n] > 0)
    BY <1>1, <2>1, <2>2 DEF Inv, Builders
  <2> QED BY <1>1, <1>2, <2>1, <2>3 DEF Inv, Builders
<1> QED BY <1>1, <1>2, <1>3, <1>4 DEF MakersKeep, Makers

LEMMA PublishStep ==
  ASSUME Inv, NEW m \in Migrations, MigratePublish(m), Replaceable
  PROVE  /\ MakersKeep
         /\ manifest = None /\ manifest' = m /\ dirs' = Dirs
<1> USE DEF Makers
<1>1. /\ exists' = TRUE /\ dirs' = Dirs /\ manifest' = m /\ files' = Staged[m]
      /\ maker[m] = "staged" /\ maker' = [maker EXCEPT ![m] = "done"]
      /\ UNCHANGED <<made, foreign, faults>>
  BY DEF MigratePublish, Goes
<1>2. IsEmpty
  BY DEF Replaceable, Inv, TypeOK, LabTypeOK
<1>3. dirs = {} /\ files = NoFiles /\ manifest = None
  BY <1>2 DEF IsEmpty
<1>4. LabTypeOK'
  <2>1. files' \in [Records -> FileState]
    BY <1>1 DEF FileState
  <2> QED BY <1>1, <1>3, <2>1 DEF Inv, TypeOK, LabTypeOK
<1>5. Builders'
  <2>1. \A n \in Makers : maker'[n] = "making" => maker[n] = "making"
    BY <1>1 DEF Inv, TypeOK, LabTypeOK
  <2>2. ASSUME NEW n \in Makers, maker[n] = "making", made[n] > 0
        PROVE  FALSE
    <3>1. made[n] \in Nat /\ LabDirectories[1] \in dirs
      BY <2>2 DEF Inv, Builders, TypeOK, LabTypeOK
    <3> QED BY <1>3, <3>1
  <2>3. ASSUME NEW n \in Makers, NEW k \in 1 .. made[n]
        PROVE  LabDirectories[k] \in Dirs
    <3>1. made[n] \in 0 .. Len(LabDirectories)
      BY DEF Inv, TypeOK, LabTypeOK
    <3>2. k \in 1 .. Len(LabDirectories)
      BY <3>1, NumberOfDirectories
    <3> QED BY <3>2, NumberOfDirectories
  <2> QED BY <1>1, <2>1, <2>2, <2>3 DEF Builders
<1> QED BY <1>1, <1>3, <1>4, <1>5 DEF MakersKeep

-----------------------------------------------------------------------------
(* Every step *)

\* A step of a maker keeps everything, and makes the lab at most once.
LEMMA MakerSteps ==
  ASSUME Inv, LabNext
  PROVE  /\ MakersKeep
         /\ \/ UNCHANGED <<manifest, dirs>>
            \/ manifest = None /\ manifest' = None
            \/ manifest = None /\ manifest' \in Makers /\ dirs' = Dirs
<1> USE DEF Inv, TypeOK, LabTypeOK
<1>1. PICK m \in Makers : MakerStep(m) \/ MakerFails(m)
  BY DEF LabNext
<1> DEFINE publishes == m \in Migrations /\ MigratePublish(m)
<1>2. CASE InitCheck(m) \/ MigrateCheck(m) \/ MigrateStage(m)
  BY <1>1, <1>2, CheckSteps
     DEF InitCheck, MigrateCheck, MigrateStage, home
<1>3. CASE InitRoot(m)
  BY <1>1, <1>3, RootStep DEF InitRoot
<1>4. CASE InitDirectory(m)
  <2>1. manifest = None \/ dirs' = dirs
    BY <1>1, <1>4, DirectoryStep DEF MakersKeep, Builders, InitDirectory
  <2> QED BY <1>1, <1>4, <2>1, DirectoryStep DEF InitDirectory
<1>5. CASE InitManifest(m)
  BY <1>1, <1>5, ManifestStep
<1>6. CASE publishes
  <2>1. CASE Replaceable
    BY <1>1, <1>6, <2>1, PublishStep
  <2>2. CASE ~Replaceable
    BY <1>1, <1>6, <2>2, CheckSteps DEF MigratePublish, home
  <2> QED BY <2>1, <2>2
<1>7. CASE Retry(m) \/ MakerFails(m)
  BY <1>1, <1>7, CheckSteps DEF Retry, MakerFails, home
<1> QED BY <1>1, <1>2, <1>3, <1>4, <1>5, <1>6, <1>7
        DEF MakerStep, InitStep, MigrateStep

\* A promotion changes neither the manifest nor who makes the lab.
LEMMA PromotionFrame ==
  ASSUME Inv, SourceNext \/ Promote
  PROVE  /\ UNCHANGED <<manifest, maker, made>>
         /\ \/ UNCHANGED <<exists, dirs, files>>
            \/ FillTarget
            \/ OpenTarget /\ UNCHANGED <<exists, dirs>>
            \/ exists' = TRUE /\ \E f \in Records : dirs' = dirs \cup {DirOf[f]}
<1>1. CASE SourceNext
  BY <1>1 DEF SourceNext, EditRecord, WriteTemporary, ReplaceRecord, Edited,
              labVars, home
<1>2. CASE Promote
  BY <1>2 DEF Promote, Validate, Select, CheckCollisions, MakeParent, OpenTarget,
              FillTarget, WriteReceipt, PromotionFails, promoteFrame, home
<1> QED BY <1>1, <1>2

LEMMA BuildersUndisturbed ==
  ASSUME Inv, SourceNext \/ Promote
  PROVE  Builders'
<1>1. UNCHANGED <<manifest, maker, made>>
  BY PromotionFrame
<1>2. dirs \subseteq dirs' /\ (exists => exists') /\ (dirs = Dirs => dirs' = Dirs)
  <2>1. CASE UNCHANGED <<exists, dirs, files>>
    BY <2>1
  <2>2. CASE FillTarget \/ UNCHANGED <<exists, dirs>>
    BY <2>2 DEF FillTarget
  <2>3. ASSUME exists' = TRUE, NEW f \in Records, dirs' = dirs \cup {DirOf[f]}
        PROVE  dirs \subseteq dirs' /\ exists' /\ (dirs = Dirs => dirs' = Dirs)
    <3>1. DirOf[f] \in Dirs
      OBVIOUS
    <3> QED BY <2>3, <3>1
  <2> QED BY <2>1, <2>2, <2>3, PromotionFrame
<1> QED BY <1>1, <1>2 DEF Inv, Builders

LEMMA EditStep ==
  ASSUME Inv, SourceNext
  PROVE  Inv' /\ Kept
<1>1. /\ UNCHANGED <<labVars, step, selected, left, open, receipts>>
      /\ src' \in [Records -> SrcState] /\ edits' \in 0 .. MaxEdits
  <2>1. ASSUME NEW f \in Records, NEW c \in SrcState, EditRecord(f, c)
        PROVE  <1>1!1 /\ <1>1!2
    BY <2>1 DEF EditRecord, Edited, Inv, TypeOK
  <2>2. ASSUME NEW c \in Versions, WriteTemporary(c)
        PROVE  <1>1!1 /\ <1>1!2
    BY <2>2 DEF WriteTemporary, Edited, Inv, TypeOK, SrcState
  <2>3. CASE ReplaceRecord
    <3>1. src[Temporary] \in SrcState /\ None \in SrcState
      BY DEF Inv, TypeOK, SrcState
    <3>2. src' \in [Records -> SrcState] /\ edits' = edits
      BY <2>3, <3>1 DEF ReplaceRecord, Inv, TypeOK
    <3> QED BY <2>3, <3>2 DEF ReplaceRecord, Inv, TypeOK
  <2> QED BY <2>1, <2>2, <2>3 DEF SourceNext
<1>2. Kept
  BY <1>1 DEF Kept, labVars, home
<1>3. TypeOK' /\ Copying'
  BY <1>1 DEF Inv, TypeOK, LabTypeOK, IsEmpty, Copying, Migrated, labVars, home
<1> QED BY <1>1, <1>2, <1>3, BuildersUndisturbed, ReceiptsKept DEF Inv

LEMMA MakerStepsKeep ==
  ASSUME Inv, LabNext, UNCHANGED promotionVars
  PROVE  Inv' /\ Kept
<1>1. MakersKeep
  BY MakerSteps
<1>2. Kept
  BY <1>1 DEF Kept, MakersKeep, NoFiles, promotionVars
<1>3. TypeOK'
  BY <1>1 DEF Inv, TypeOK, MakersKeep, promotionVars
<1>4. Copying'
  <2>1. CASE files' = files /\ (manifest \in Migrations => manifest' = manifest)
    BY <1>1, <2>1 DEF Inv, Copying, Migrated, MakersKeep, promotionVars
  <2>2. CASE files = NoFiles /\ manifest' \in Migrations /\ files' = Staged[manifest']
    <3>1. \A f \in Records : files[f] = None
      BY <2>2 DEF NoFiles
    <3>2. selected \subseteq Records /\ left \subseteq Records
      BY DEF Inv, TypeOK
    <3>3. step = "copying" => selected \ left = {}
      BY <3>1, <3>2 DEF Inv, Copying
    <3>4. open # None => open.bytes = None
      BY <3>1, <3>2 DEF Inv, Copying
    <3> QED BY <1>1, <2>2, <3>3, <3>4
            DEF Inv, Copying, Migrated, MakersKeep, promotionVars
  <2> QED BY <1>1, <2>1, <2>2 DEF MakersKeep
<1> QED BY <1>1, <1>2, <1>3, <1>4, ReceiptsKept DEF Inv, MakersKeep, promotionVars

\* The steps of a promotion that leave the directory alone.
LEMMA QuietSteps ==
  ASSUME Inv, Promote, UNCHANGED home
  PROVE  LabTypeOK'
<1>1. /\ UNCHANGED <<maker, made>> /\ foreign' \in BOOLEAN
      /\ faults' \in 0 .. MaxFaults
  <2> USE DEF promoteFrame, Inv, TypeOK, LabTypeOK
  <2>1. CASE Validate \/ CheckCollisions \/ OpenTarget \/ FillTarget \/ WriteReceipt
    BY <2>1 DEF Validate, CheckCollisions, OpenTarget, FillTarget, WriteReceipt
  <2>2. ASSUME NEW names \in SUBSET Records, Select(names)
        PROVE  UNCHANGED <<maker, made, foreign, faults>>
    BY <2>2 DEF Select
  <2>3. ASSUME NEW f \in Records, MakeParent(f)
        PROVE  UNCHANGED <<maker, made, faults>> /\ foreign' \in BOOLEAN
    BY <2>3 DEF MakeParent
  <2>4. CASE PromotionFails
    BY <2>4 DEF PromotionFails
  <2> QED BY <2>1, <2>2, <2>3, <2>4 DEF Promote
<1> QED BY <1>1 DEF Inv, TypeOK, LabTypeOK, IsEmpty, home

\* ... and those that end it.
LEMMA EndSteps ==
  ASSUME Inv, Promote, UNCHANGED <<home, src, edits, receipts>>, Ends
  PROVE  Inv' /\ Kept
<1>1. TypeOK' /\ Copying'
  BY QuietSteps DEF Inv, TypeOK, Copying, Ends
<1>2. Kept
  BY DEF Kept, Ends, home
<1> QED BY <1>1, <1>2, ReceiptsKept, BuildersUndisturbed DEF Inv

LEMMA ValidateStep ==
  ASSUME Inv, Validate
  PROVE  Inv' /\ Kept
<1>1. Promote /\ UNCHANGED <<home, src, edits, receipts>>
  BY DEF Promote, Validate, promoteFrame
<1>2. TypeOK' /\ Copying'
  BY <1>1, QuietSteps DEF Inv, TypeOK, Copying, Validate, GoesOn
<1>3. Kept
  BY <1>1 DEF Kept, Validate, home
<1> QED BY <1>1, <1>2, <1>3, ReceiptsKept, BuildersUndisturbed DEF Inv

LEMMA SelectStep ==
  ASSUME Inv, NEW names \in SUBSET Records, Select(names)
  PROVE  Inv' /\ Kept
<1>1. Promote /\ UNCHANGED <<home, src, edits, receipts>>
  BY DEF Promote, Select, promoteFrame
<1>2. CASE Ends
  BY <1>1, <1>2, EndSteps
<1>3. CASE ~Ends
  <2>1. /\ selected' \subseteq Records /\ step' = "selected"
        /\ left' = left /\ open' = open /\ step = "validated"
    BY <1>3 DEF Select, GoesOn
  <2>2. TypeOK' /\ Copying'
    BY <1>1, <2>1, QuietSteps DEF Inv, TypeOK, Copying
  <2>3. Kept
    BY <1>1, <2>1 DEF Kept, home
  <2> QED BY <1>1, <2>2, <2>3, ReceiptsKept, BuildersUndisturbed DEF Inv
<1> QED BY <1>2, <1>3

LEMMA CollisionStep ==
  ASSUME Inv, CheckCollisions
  PROVE  Inv' /\ Kept
<1>1. Promote /\ UNCHANGED <<home, src, edits, receipts>>
  BY DEF Promote, CheckCollisions, promoteFrame
<1>2. CASE Ends
  BY <1>1, <1>2, EndSteps
<1>3. CASE ~Ends
  <2>1. /\ step = "selected" /\ step' = "copying" /\ left' = selected
        /\ selected' = selected /\ open' = open
        /\ \A f \in selected : files[f] = None
    BY <1>3 DEF CheckCollisions, Collisions, GoesOn
  <2>2. TypeOK' /\ Copying'
    BY <1>1, <2>1, QuietSteps DEF Inv, TypeOK, Copying, home
  <2>3. Kept
    BY <1>1, <2>1 DEF Kept, home
  <2> QED BY <1>1, <2>2, <2>3, ReceiptsKept, BuildersUndisturbed DEF Inv
<1> QED BY <1>2, <1>3

\* The directory of a record is made, or the promotion ends.
LEMMA ParentStep ==
  ASSUME Inv, NEW f \in Records, MakeParent(f)
  PROVE  Inv' /\ Kept
<1>1. Promote /\ UNCHANGED <<src, edits, receipts, faults, maker, made>>
  BY DEF Promote, MakeParent, promoteFrame
<1>2. CASE Ends /\ UNCHANGED home
  BY <1>1, <1>2, EndSteps
<1>3. CASE ~(Ends /\ UNCHANGED home)
  <2>1. /\ step = "copying" /\ open = None /\ f \in left
        /\ open' = [file |-> f, bytes |-> None]
        /\ exists' = TRUE /\ dirs' = dirs \cup {DirOf[f]} /\ foreign' = TRUE
        /\ UNCHANGED <<files, manifest, step, selected, left>>
    BY <1>3 DEF MakeParent
  <2>2. DirOf[f] \in Dirs
    OBVIOUS
  <2>3. TypeOK'
    BY <1>1, <2>1, <2>2 DEF Inv, TypeOK, LabTypeOK
  <2>4. Copying'
    BY <2>1 DEF Inv, Copying, Migrated
  <2>5. Kept
    BY <2>1 DEF Kept
  <2> QED BY <1>1, <2>3, <2>4, <2>5, ReceiptsKept, BuildersUndisturbed DEF Inv
<1> QED BY <1>2, <1>3

\* Opening creates a target that was not there, or empties one that a migration
\* has brought.
LEMMA OpenStep ==
  ASSUME Inv, OpenTarget
  PROVE  Inv' /\ Kept
<1> DEFINE f == open.file
<1>1. /\ Promote /\ UNCHANGED <<src, edits, receipts, faults, maker, made>>
      /\ UNCHANGED <<exists, dirs, manifest, foreign>>
      /\ step = "copying" /\ open # None /\ open.bytes = None
  BY DEF Promote, OpenTarget, promoteFrame
<1>2. CASE Ends /\ UNCHANGED files
  BY <1>1, <1>2, EndSteps DEF home
<1>3. CASE ~(Ends /\ UNCHANGED files)
  <2>1. PICK bytes \in Bytes(f) :
          /\ bytes # None /\ open' = [open EXCEPT !.bytes = bytes]
          /\ files' = [files EXCEPT ![f] = Partial]
          /\ UNCHANGED <<step, selected, left>>
    BY <1>3 DEF OpenTarget
  <2>2. f \in left /\ f \in Records /\ exists
    BY <1>1 DEF Inv, TypeOK, Copying
  <2>3. bytes \in Contents
    <3>1. src[f] \in SrcState
      BY <2>2 DEF Inv, TypeOK
    <3> QED BY <2>1, <3>1 DEF Bytes, SrcState, Odd, Links
  <2>4. open' = [file |-> f, bytes |-> bytes]
    BY <1>1, <2>1 DEF Inv, TypeOK
  <2>5. TypeOK'
    BY <1>1, <2>1, <2>2, <2>3, <2>4 DEF Inv, TypeOK, LabTypeOK, FileState
  <2>6. \A g \in Records : files'[g] = (IF g = f THEN Partial ELSE files[g])
    BY <2>1, <2>2 DEF Inv, TypeOK, LabTypeOK
  <2>7. selected \subseteq Records /\ left \subseteq Records
    BY DEF Inv, TypeOK
  <2>8. Copying'
    <3>1. open' # None /\ open'.file = f /\ step' = "copying"
      BY <1>1, <2>1, <2>2, <2>3, <2>4
    <3>2. \A g \in left' :
            \/ files'[g] = None
            \/ Migrated(g)'
            \/ open'.file = g /\ files'[g] = Partial
      BY <1>1, <2>1, <2>4, <2>6, <2>7 DEF Inv, Copying, Migrated
    <3>3. \A g \in selected' \ left' : files'[g] \in Contents
      BY <1>1, <2>1, <2>2, <2>6, <2>7 DEF Inv, Copying
    <3>4. open'.file \in left' /\ exists' /\ files'[f] = Partial
      BY <1>1, <2>1, <2>2, <2>4, <2>6
    <3> QED BY <3>1, <3>2, <3>3, <3>4 DEF Copying
  <2>9. Kept
    <3>1. files[f] \in {None, Partial} \/ Migrated(f)
      BY <1>1, <2>2 DEF Inv, Copying
    <3> QED BY <2>1, <2>2, <2>6, <3>1 DEF Kept, Migrated
  <2> QED BY <1>1, <2>5, <2>8, <2>9, ReceiptsKept, BuildersUndisturbed DEF Inv
<1> QED BY <1>2, <1>3

\* Filling makes it whole.
LEMMA FillStep ==
  ASSUME Inv, FillTarget
  PROVE  Inv' /\ Kept
<1>1. Promote /\ UNCHANGED <<src, edits, receipts, maker, made>>
  BY DEF Promote, FillTarget, promoteFrame
<1>2. /\ step = "copying" /\ open # None /\ open.bytes # None
      /\ files' = [files EXCEPT ![open.file] = open.bytes]
      /\ left' = left \ {open.file} /\ open' = None
      /\ UNCHANGED <<exists, dirs, manifest, foreign, faults, step, selected>>
  BY DEF FillTarget
<1>3. /\ open.file \in left /\ open.file \in Records /\ open.bytes \in Contents
      /\ files[open.file] = Partial /\ exists
  BY <1>2 DEF Inv, TypeOK, Copying
<1>4. \A g \in Records :
        files'[g] = (IF g = open.file THEN open.bytes ELSE files[g])
  BY <1>2 DEF Inv, TypeOK, LabTypeOK
<1>5. LabTypeOK'
  BY <1>1, <1>2, <1>3 DEF Inv, TypeOK, LabTypeOK, FileState
<1>6. TypeOK'
  BY <1>1, <1>2, <1>5 DEF Inv, TypeOK
<1>7. Copying'
  BY <1>2, <1>3, <1>4 DEF Inv, TypeOK, Copying, Migrated
<1>8. Kept
  BY <1>2, <1>3, <1>4 DEF Kept
<1> QED BY <1>1, <1>6, <1>7, <1>8, ReceiptsKept, BuildersUndisturbed DEF Inv

\* The receipt is written when nothing is left, so every target is whole.
LEMMA ReceiptStep ==
  ASSUME Inv, WriteReceipt
  PROVE  Inv' /\ Kept
<1> DEFINE r == [listed |-> selected,
                 digests |-> [f \in Records |-> IF f \in selected THEN Digest(f)
                                               ELSE None]]
<1>1. /\ Promote /\ UNCHANGED <<home, src, edits>> /\ Ends
      /\ step = "copying" /\ left = {} /\ receipts' = receipts \cup {r}
  BY DEF Promote, WriteReceipt, promoteFrame
<1>2. \A f \in selected : files[f] \in Contents
  BY <1>1 DEF Inv, Copying
<1>3. r \in [listed: SUBSET Records, digests: [Records -> FileState]]
  BY DEF Inv, TypeOK, LabTypeOK, Digest, FileState
<1>4. TypeOK' /\ Copying'
  BY <1>1, <1>3, QuietSteps DEF Inv, TypeOK, Copying, Ends
<1>5. \A f \in r.listed : files[f] = r.digests[f] /\ files[f] \in Contents
  BY <1>2 DEF Inv, TypeOK, Digest
<1>6. PromotionReceiptTrue' /\ Promoted'
  BY <1>1, <1>5 DEF Inv, PromotionReceiptTrue, Promoted, Ends, home
<1>7. Kept
  BY <1>1 DEF Kept, Ends, home
<1> QED BY <1>1, <1>4, <1>6, <1>7, BuildersUndisturbed DEF Inv

\* Every step keeps the invariant, and every file that is whole.
LEMMA Steps ==
  ASSUME Inv, [Next]_vars
  PROVE  Inv' /\ Kept
<1>1. CASE LabNext /\ UNCHANGED promotionVars
  BY <1>1, MakerStepsKeep
<1>2. CASE SourceNext
  BY <1>2, EditStep
<1>3. CASE Promote
  <2>1. CASE PromotionFails
    BY <1>3, <2>1, EndSteps DEF PromotionFails, promoteFrame
  <2> QED BY <1>3, <2>1, ValidateStep, SelectStep, CollisionStep, ParentStep,
             OpenStep, FillStep, ReceiptStep DEF Promote
<1>4. CASE UNCHANGED vars
  BY <1>4 DEF vars, labVars, home, promotionVars, Inv, TypeOK, LabTypeOK, IsEmpty,
              Builders, Copying, Migrated, Promoted, PromotionReceiptTrue, Kept
<1> QED BY <1>1, <1>2, <1>3, <1>4 DEF Next

LEMMA Invariant == Spec => []Inv
<1>1. Init => Inv
  BY Initially
<1>2. Inv /\ [Next]_vars => Inv'
  BY Steps
<1> QED BY <1>1, <1>2, PTL DEF Spec

-----------------------------------------------------------------------------

\* The directory, the makers, the promotion and its receipts keep their types.
THEOREM TypeCorrect == Spec => []TypeOK
<1>1. Inv => TypeOK
  BY DEF Inv
<1> QED BY <1>1, Invariant, PTL

\* A receipt of a promotion lists records that are whole in the directory, with
\* the bytes it lists, from when it is written on (lab.py:111-145).
THEOREM PromotionReceiptsAreTrue == Spec => []PromotionReceiptTrue
<1>1. Inv => PromotionReceiptTrue
  BY DEF Inv
<1> QED BY <1>1, Invariant, PTL

\* A record that is whole in the directory is changed by a promotion that has it
\* left to copy, when a migration has put it there since the promotion found it
\* missing, and by nothing else, whatever fails (lab.py:57-62, 111-120, 394-395).
THEOREM NothingIsOverwritten == Spec => NothingOverwritten
<1>1. Inv /\ [Next]_vars => [Kept]_vars
  BY Steps
<1> QED BY <1>1, Invariant, PTL DEF Spec, NothingOverwritten, Kept

\* Any number of inits, migrations and promotions in one directory implement the
\* making of a lab in one step, once (lab.py:54-68, 279-395).
THEOREM LabsAreMadeOnce == Spec => MadeOnce
<1>1. Init => Atomic!Init
  BY DEF Init, LabInit, Atomic!Init, Published
<1>2. Inv /\ [Next]_vars => [Atomic!Next]_Published
  <2> SUFFICES ASSUME Inv, [Next]_vars PROVE [Atomic!Next]_Published
    OBVIOUS
  <2>1. CASE LabNext
    <3>1. CASE UNCHANGED <<manifest, dirs>>
      BY <3>1 DEF Published
    <3>2. CASE manifest = None /\ manifest' = None
      BY <3>2 DEF Published
    <3>3. CASE manifest = None /\ manifest' \in Makers /\ dirs' = Dirs
      <4>1. Atomic!Publish(manifest')
        BY <3>3 DEF Atomic!Publish, Published
      <4> QED BY <3>3, <4>1 DEF Atomic!Next
    <3> QED BY <2>1, <3>1, <3>2, <3>3, MakerSteps
  <2>2. CASE SourceNext \/ Promote
    <3>1. manifest' = manifest /\ (manifest # None => dirs' = dirs)
      <4>1. \A f \in Records : DirOf[f] \in Dirs
        OBVIOUS
      <4> QED BY <2>2, <4>1, PromotionFrame DEF Inv, Builders, OpenTarget, FillTarget
    <3> QED BY <3>1 DEF Published
  <2>3. CASE UNCHANGED vars
    BY <2>3 DEF vars, labVars, home, Published
  <2> QED BY <2>1, <2>2, <2>3 DEF Next
<1> QED BY <1>1, <1>2, Invariant, PTL DEF Spec, MadeOnce, Atomic!Spec
-----------------------------------------------------------------------------
(* A migration that is run again *)

\* Until there is a lab, nothing but somebody else's doing makes the directory.
Clear == manifest # None \/ foreign \/ ~exists

LEMMA StaysClear ==
  ASSUME Inv, Clear, [Next]_vars
  PROVE  Clear'
<1>1. CASE LabNext
  <2>1. PICK m \in Makers : MakerStep(m) \/ MakerFails(m)
    BY <1>1 DEF LabNext
  <2>2. m # None
    BY MakersAssumption
  <2>3. CASE InitCheck(m) \/ MigrateCheck(m) \/ MigrateStage(m) \/ MakerFails(m)
               \/ Retry(m)
    BY <2>3 DEF InitCheck, MigrateCheck, MigrateStage, MakerFails, Retry, home,
      Clear
  <2>4. CASE InitRoot(m) \/ InitDirectory(m) \/ InitManifest(m)
    BY <2>2, <2>4 DEF InitRoot, InitDirectory, InitManifest, Clear
  <2>5. CASE MigratePublish(m)
    BY <2>2, <2>5 DEF MigratePublish, home, Clear
  <2> QED BY <2>1, <2>3, <2>4, <2>5 DEF MakerStep, InitStep, MigrateStep
<1>2. CASE SourceNext
  BY <1>2 DEF SourceNext, EditRecord, WriteTemporary, ReplaceRecord, Edited,
    labVars, home, Clear
<1>3. CASE \E f \in Records : MakeParent(f)
  BY <1>3 DEF MakeParent, home, Clear
<1>4. CASE Promote /\ ~\E f \in Records : MakeParent(f)
  BY <1>4 DEF Promote, Validate, Select, CheckCollisions, OpenTarget, FillTarget,
    WriteReceipt, PromotionFails, home, Clear
<1>5. CASE UNCHANGED vars
  BY <1>5 DEF vars, labVars, home, Clear
<1> QED BY <1>1, <1>2, <1>3, <1>4, <1>5 DEF Next

\* What a failed migration, and any other maker, leaves is in no migration's way:
\* each step of one takes it on until there is a lab, unless somebody else has
\* put something there.  MigrationPublishes adds to it that the steps are taken
\* (lab.py:283-395).
THEOREM MigrationsAdvance ==
  Spec => [][\A m \in Migrations :
               MigrateStep(m) => \/ manifest' # None \/ foreign
                                 \/ maker[m] = "idle" /\ maker'[m] = "checked"
                                 \/ maker[m] = "checked" /\ maker'[m] = "staged"]_vars
<1>1. Init => Clear
  BY DEF Init, LabInit, Clear
<1>2. Inv /\ Clear =>
        [\A m \in Migrations :
           MigrateStep(m) => \/ manifest' # None \/ foreign
                             \/ maker[m] = "idle" /\ maker'[m] = "checked"
                             \/ maker[m] = "checked" /\ maker'[m] = "staged"]_vars
  <2> SUFFICES ASSUME Inv, Clear, NEW m \in Migrations, MigrateStep(m)
               PROVE  \/ manifest' # None \/ foreign
                      \/ maker[m] = "idle" /\ maker'[m] = "checked"
                      \/ maker[m] = "checked" /\ maker'[m] = "staged"
    OBVIOUS
  <2>1. m \in Makers /\ m # None
    BY MakersAssumption DEF Makers
  <2>2. \A to : Goes(m, to) => maker'[m] = to
    BY <2>1 DEF Goes, Inv, TypeOK, LabTypeOK
  <2>3. CASE MigrateCheck(m)
    BY <2>2, <2>3 DEF MigrateCheck, Clear, home
  <2>4. CASE MigrateStage(m)
    BY <2>2, <2>4 DEF MigrateStage
  <2>5. CASE MigratePublish(m)
    BY <2>1, <2>5 DEF MigratePublish, Replaceable, Clear, home
  <2> QED BY <2>3, <2>4, <2>5 DEF MigrateStep
<1> QED BY <1>1, <1>2, StaysClear, Invariant, PTL DEF Spec
=============================================================================
