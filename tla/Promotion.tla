----------------------------- MODULE Promotion -----------------------------
(***************************************************************************)
(* Promotion (promote_lab in fieldlab/lab.py): the records of a source lab *)
(* are copied one by one into a directory of a host, which module LabHome  *)
(* makes labs of, and a receipt is written.  Meanwhile the owner of the    *)
(* source lab edits records, and another command writes one through a      *)
(* temporary file beside it (fieldlab/io.py, atomic_write_text).           *)
(*                                                                         *)
(* Promotions follow each other; they may fail and die at any point.       *)
(***************************************************************************)
EXTENDS LabHome

CONSTANTS
  Versions,      \* bytes of a record
  DirOf,         \* the directory each record is in
  Record,        \* the record that is written through ...
  Temporary,     \* ... this file beside it
  Validated,     \* the records that validate_record_tree reads
  MaxEdits       \* bound on what changes in the source lab

\* A record that is not valid, and links that stay in the lab or leave it.
Links == {"inner", "outer"}
Odd == {"invalid"} \cup Links

ASSUME RecordsAssumption ==
  /\ {Record, Temporary} \subseteq Records /\ Record # Temporary
  /\ DirOf \in [Records -> Dirs] /\ Validated \subseteq Records \ {Temporary}
  /\ Contents = Versions \cup {"invalid"} /\ MaxEdits \in Nat
  /\ Odd \cap (Versions \cup {Partial, None}) = {}
  /\ None \notin [file: Records, bytes: Contents \cup {None}]

VARIABLES
  src,        \* the records of the source lab
  step,       \* what the promotion does next
  selected,   \* the files it is to copy
  left,       \* those it has not copied
  open,       \* None, or the file it copies and, once read, its bytes
  receipts,   \* the receipts of promotions
  edits

promotionVars == <<src, step, selected, left, open, receipts, edits>>
vars == <<labVars, promotionVars>>

SrcState == Versions \cup Odd \cup {None}

Init ==
  /\ LabInit
  /\ src \in [Records -> Versions \cup {"inner", None}]
  /\ src[Temporary] = None
  /\ step = "idle" /\ selected = {} /\ left = {} /\ open = None
  /\ receipts = {} /\ edits = 0

-----------------------------------------------------------------------------
(* The source lab *)

Edited(s) ==
  /\ edits < MaxEdits /\ edits' = edits + 1
  /\ src' = s
  /\ UNCHANGED <<labVars, step, selected, left, open, receipts>>

EditRecord(f, c) ==
  f # Temporary /\ c # src[f] /\ Edited([src EXCEPT ![f] = c])

\* atomic_write_text: the file is complete when it gets its name; a death
\* before leaves the temporary file.
WriteTemporary(c) ==
  src[Temporary] = None /\ Edited([src EXCEPT ![Temporary] = c])

ReplaceRecord ==
  /\ src[Temporary] # None
  /\ src' = [src EXCEPT ![Record] = src[Temporary], ![Temporary] = None]
  /\ UNCHANGED <<labVars, step, selected, left, open, receipts, edits>>

SourceNext ==
  \/ \E f \in Records, c \in SrcState : EditRecord(f, c)
  \/ \E c \in Versions : WriteTemporary(c)
  \/ ReplaceRecord

-----------------------------------------------------------------------------
(* promote_lab *)

promoteFrame == <<src, edits, maker, made>>

\* The promotion is over, with or without a receipt.
Ends == step' = "idle" /\ selected' = {} /\ left' = {} /\ open' = None

GoesOn(to) == step' = to

\* The records are validated before they are selected.
Validate ==
  /\ step = "idle"
  /\ \A f \in Validated : src[f] # "invalid"
  /\ GoesOn("validated")
  /\ UNCHANGED <<home, foreign, faults, selected, left, open, receipts,
                 promoteFrame>>

\* Without names everything is selected, hidden files too, and links that leave
\* the lab are refused.  A record that is named must be there.
Select(names) ==
  /\ step = "validated"
  /\ LET there == {f \in Records : src[f] # None} IN
       IF IF names = {} THEN \E f \in Records : src[f] = "outer"
          ELSE ~(names \subseteq there)
       THEN Ends
       ELSE /\ selected' = IF names = {} THEN there ELSE names
            /\ GoesOn("selected") /\ UNCHANGED <<left, open>>
  /\ UNCHANGED <<home, foreign, faults, receipts, promoteFrame>>

\* The targets that exist already.
Collisions == {f \in selected : files[f] # None}

CheckCollisions ==
  /\ step = "selected"
  /\ IF Collisions # {} THEN Ends
     ELSE GoesOn("copying") /\ left' = selected /\ UNCHANGED <<selected, open>>
  /\ UNCHANGED <<home, foreign, faults, receipts, promoteFrame>>

\* A record that is a link by now ends the promotion with some records copied;
\* the directory of any other is made, with its parents.
MakeParent(f) ==
  /\ step = "copying" /\ open = None /\ f \in left
  /\ IF src[f] \in Links THEN Ends /\ UNCHANGED <<home, foreign>>
     ELSE /\ open' = [file |-> f, bytes |-> None]
          /\ exists' = TRUE /\ dirs' = dirs \cup {DirOf[f]} /\ foreign' = TRUE
          /\ UNCHANGED <<files, manifest, step, selected, left>>
  /\ UNCHANGED <<faults, receipts, promoteFrame>>

\* What copy2 finds in a record: it follows a link that has come since.
Bytes(f) ==
  IF src[f] \in Links THEN Contents \cup {None} ELSE {src[f]}

\* copy2 raises for a record that is gone.  It empties a target that is there or
\* creates it, and then fills it.
OpenTarget ==
  /\ step = "copying" /\ open # None /\ open.bytes = None
  /\ \E bytes \in Bytes(open.file) :
       IF bytes = None THEN Ends /\ UNCHANGED files
       ELSE /\ open' = [open EXCEPT !.bytes = bytes]
            /\ files' = [files EXCEPT ![open.file] = Partial]
            /\ UNCHANGED <<step, selected, left>>
  /\ UNCHANGED <<exists, dirs, manifest, foreign, faults, receipts, promoteFrame>>

FillTarget ==
  /\ step = "copying" /\ open # None /\ open.bytes # None
  /\ files' = [files EXCEPT ![open.file] = open.bytes]
  /\ left' = left \ {open.file} /\ open' = None
  /\ UNCHANGED <<exists, dirs, manifest, foreign, faults, step, selected,
                 receipts, promoteFrame>>

\* Mutant: the digests are those of the source.
DigestOfSource(f) == src[f]

\* The digest of the target.
Digest(f) == files[f]

\* The receipt lists the files with the digests of the targets.
WriteReceipt ==
  /\ step = "copying" /\ left = {}
  /\ receipts' = receipts \cup
       {[listed |-> selected,
         digests |-> [f \in Records |-> IF f \in selected THEN Digest(f)
                                        ELSE None]]}
  /\ Ends
  /\ UNCHANGED <<home, foreign, faults, promoteFrame>>

\* An OSError, an interrupt or a death.
PromotionFails ==
  /\ step # "idle" /\ Ends
  /\ faults < MaxFaults /\ faults' = faults + 1
  /\ UNCHANGED <<home, foreign, receipts, promoteFrame>>

Promote ==
  \/ Validate
  \/ \E names \in SUBSET Records : Select(names)
  \/ CheckCollisions
  \/ \E f \in Records : MakeParent(f)
  \/ OpenTarget
  \/ FillTarget
  \/ WriteReceipt
  \/ PromotionFails

Next ==
  \/ LabNext /\ UNCHANGED promotionVars
  \/ SourceNext
  \/ Promote

Spec == Init /\ [][Next]_vars

\* A migration that was started goes on, and one that failed is run again.
Fairness ==
  \A m \in Migrations : WF_vars(MakerStep(m) /\ UNCHANGED promotionVars)

FairSpec == Spec /\ Fairness

-----------------------------------------------------------------------------

TypeOK ==
  /\ LabTypeOK
  /\ src \in [Records -> SrcState]
  /\ step \in {"idle", "validated", "selected", "copying"}
  /\ selected \subseteq Records /\ left \subseteq selected
  /\ open \in [file: Records, bytes: Contents \cup {None}] \cup {None}
  /\ receipts \subseteq
       [listed: SUBSET Records, digests: [Records -> FileState]]
  /\ edits \in 0 .. MaxEdits

\* A record that is whole in the directory changes in one way only: a migration
\* has put it there after a promotion looked for collisions, when it was not
\* there, and it is one that the promotion has yet to copy, so copy2 empties it.
\* What the host has, what was promoted, and what a lab was given before a
\* promotion looked is never changed by an init, a migration or a promotion
\* (lab.py:57-62, 111-120, 394-395).
NothingOverwritten ==
  [][/\ \A f \in left' \ left : files[f] = None
     /\ \A f \in Records :
          files[f] \notin {None, Partial} /\ files'[f] # files[f] =>
            /\ manifest \in Migrations /\ files[f] = Staged[manifest][f]
            /\ f \in left /\ files'[f] = Partial]_vars

\* A promotion leaves a receipt only when every record it selected is whole in
\* the directory, with the bytes the receipt lists, and it stays so; what a
\* promotion that stopped half way left is in no receipt (lab.py:111-145).
PromotionReceiptTrue ==
  \A r \in receipts : \A f \in r.listed :
    files[f] = r.digests[f] /\ files[f] \in Contents

\* A migration that is run again until it succeeds makes the directory a lab,
\* whatever fails and dies before, unless somebody else has put something
\* there (lab.py:283-395: nothing of a failed migration is in its way).
MigrationPublishes == <>(manifest # None \/ foreign)
=============================================================================
