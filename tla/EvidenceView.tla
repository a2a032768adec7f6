----------------------------- MODULE EvidenceView -----------------------------
(***************************************************************************)
(* The evidence of one claim: the receipts that bind it, their copies, the *)
(* artifacts beside them and the reviews of them; and the verdict that     *)
(* `fieldlab explain` (fieldlab/explain.py) recomputes from these files.   *)
(*                                                                         *)
(* A receipt file is abstracted to the fields that the verdict reads; two  *)
(* files have the same digest when these fields, the receipt they came     *)
(* from and their edition agree.  A receipt declares at most one review    *)
(* requirement.  Files that do not parse, other claims and the rendering   *)
(* of the view are not modelled.                                           *)
(***************************************************************************)
EXTENDS Naturals, FiniteSets

CONSTANTS
  Receipts,      \* attempts and observations of this claim
  Outcomes,      \* outcomes that attempt receipts seal
  Judgments,     \* what reviewers and observers say
  ReviewIds,     \* names of review files
  None

Assessments == {"supported", "not-supported", "inconclusive"}
AttemptOutcomes == {"pass", "fail", "error", "timeout", "inconclusive",
                    "input-drift", "preflight-failed"}
NeverInvoked == {"input-drift", "preflight-failed"}

ASSUME OutcomesAssumption == Outcomes \subseteq AttemptOutcomes
ASSUME JudgmentsAssumption == Judgments \subseteq Assessments

\* "home" is where a receipt is written: in the attempt directory below runs/,
\* or in receipts/ for an observation.  "copy" is a copy in receipts/.
Places == Receipts \X {"home", "copy"}

Contents ==
  [id: Receipts, type: {"attempt", "observed"}, outcome: AttemptOutcomes,
   assessment: Assessments \cup {None},   \* claim_assessment of an observation
   workerFinal: BOOLEAN,                  \* the worker-final boundary marker
   required: BOOLEAN,                     \* a human-review requirement
   edition: 0 .. 1]

\* The path that a review also names only tells stale reviews from others.
Reviews == [bytes: Contents, judgment: Assessments,
            requirement: Assessments \cup {None}]

\* "damaged": one of them is missing or has another digest.
ArtifactStates == {"intact", "damaged"}

ASSUME NoneAssumption ==
  /\ None \notin Assessments \cup {"mixed", "pending"}
  /\ None \notin Contents /\ None \notin Reviews

VARIABLES
  file,        \* the receipt files
  artifacts,   \* the artifacts in the attempt directory of a receipt
  review       \* the review files

vars == <<file, artifacts, review>>

Init ==
  /\ file = [p \in Places |-> None]
  /\ artifacts = [r \in Receipts |-> "intact"]
  /\ review = [id \in ReviewIds |-> None]

-----------------------------------------------------------------------------
(* explain_claim *)

Present == {file[p] : p \in {q \in Places : file[q] # None}}

\* The locations of one digest, in the order of their labels: receipts/ comes
\* before runs/, and the artifacts are looked for beside the first of them.
Locations(c) == {p \in Places : file[p] = c}
Primary(c) == IF <<c.id, "copy">> \in Locations(c) THEN "copy" ELSE "home"

\* Mutant: a review is bound by the id of its receipt.
BoundById(c) ==
  {id \in ReviewIds : review[id] # None /\ review[id].bytes.id = c.id}

\* _split_reviews: the reviews whose digest is the digest of these bytes.
Bound(c) == {id \in ReviewIds : review[id] # None /\ review[id].bytes = c}

\* _receipt_assessment and OUTCOME_ASSESSMENT.
OwnAssessment(c) ==
  IF c.type = "observed" THEN c.assessment
  ELSE CASE c.outcome = "pass" -> "supported"
         [] c.outcome = "fail" -> "not-supported"
         [] OTHER -> "inconclusive"

\* What two bound reviews must agree in.
Fingerprint(id) == <<review[id].judgment, review[id].requirement>>

Conflicting(c) ==
  \E a, b \in Bound(c) : Fingerprint(a) # Fingerprint(b)

\* The assessment of one receipt: its reviews if it has any, else its own.
Assessment(c) ==
  IF Bound(c) = {} THEN OwnAssessment(c)
  ELSE IF Conflicting(c) THEN "mixed"
  ELSE review[CHOOSE id \in Bound(c) : TRUE].judgment

\* _requirements.
RequirementOutcomes(c) == {review[id].requirement : id \in Bound(c)}
Requirement(c) ==
  CASE ~c.required -> None
    [] c.required /\ Bound(c) = {} -> "pending"
    [] c.required /\ Cardinality(RequirementOutcomes(c)) = 1 ->
         CHOOSE o \in Assessments : o \in RequirementOutcomes(c)
    [] OTHER -> "mixed"

\* _artifact_report: an observation records no paths.
ArtifactsDamaged(c) ==
  /\ c.type = "attempt"
  /\ Primary(c) = "copy" \/ artifacts[c.id] # "intact"

\* _boundary.
LegacyAmbiguous(c) ==
  c.type = "attempt" /\ c.outcome \notin NeverInvoked /\ ~c.workerFinal

Assessed(a) == {c \in Present : Assessment(c) = a}
WithRequirement(status) == {c \in Present : Requirement(c) = status}

SealedSupported == {c \in Assessed("supported") : ~LegacyAmbiguous(c)}

\* Mutant: a contradiction outranks a conflict.
VerdictUnsupportedFirst ==
  IF Assessed("not-supported") \cup WithRequirement("not-supported") # {}
  THEN "unsupported"
  ELSE IF Assessed("mixed") \cup WithRequirement("mixed") # {} THEN "mixed"
  ELSE "inconclusive"

Verdict ==
  IF Assessed("mixed") \cup WithRequirement("mixed") # {} THEN "mixed"
  ELSE IF Assessed("not-supported") \cup WithRequirement("not-supported") # {}
  THEN "unsupported"
  ELSE IF \/ WithRequirement("pending") # {}
          \/ WithRequirement("inconclusive") # {}
          \/ \E c \in Present : ArtifactsDamaged(c)
          \/ Assessed("inconclusive") # {}
          \/ SealedSupported = {}
  THEN "inconclusive"
  ELSE "supported"

-----------------------------------------------------------------------------
(* The files *)

\* run_attempt seals a receipt.  Without the marker: an attempt of a version
\* before the marker, or one whose target never ran.
SealAttempt(r) ==
  /\ file[<<r, "home">>] = None
  /\ \E outcome \in Outcomes, workerFinal, required \in BOOLEAN :
       /\ workerFinal => outcome \notin NeverInvoked
       /\ file' = [file EXCEPT ![<<r, "home">>] =
                     [id |-> r, type |-> "attempt", outcome |-> outcome,
                      assessment |-> None, workerFinal |-> workerFinal,
                      required |-> required, edition |-> 0]]
  /\ UNCHANGED <<artifacts, review>>

\* Mutant: the outcome repeats the assessment.
ObservedOutcomeAsSaid(assessment) == assessment

ObservedOutcome(assessment) ==
  CASE assessment = "supported" -> "pass"
    [] assessment = "not-supported" -> "fail"
    [] assessment = "inconclusive" -> "inconclusive"

\* command_observe writes an observed receipt; it declares no requirement.
Observe(r) ==
  /\ file[<<r, "home">>] = None
  /\ \E assessment \in Judgments :
       file' = [file EXCEPT ![<<r, "home">>] =
                  [id |-> r, type |-> "observed",
                   outcome |-> ObservedOutcome(assessment),
                   assessment |-> assessment, workerFinal |-> FALSE,
                   required |-> FALSE, edition |-> 0]]
  /\ UNCHANGED <<artifacts, review>>

\* command_review reads the receipt, demands an outcome for exactly the
\* requirements that it declares, and writes reviews/<review-id>.json, whether
\* or not there is such a file.
Review(id, p) ==
  /\ file[p] # None
  /\ \E judgment \in Judgments, requirement \in Judgments \cup {None} :
       /\ requirement # None <=> file[p].required
       /\ review' = [review EXCEPT ![id] =
                       [bytes |-> file[p], judgment |-> judgment,
                        requirement |-> requirement]]
  /\ UNCHANGED <<file, artifacts>>

\* Somebody copies a receipt into receipts/.
CopyReceipt(r) ==
  /\ file[<<r, "home">>] # None
  /\ file' = [file EXCEPT ![<<r, "copy">>] = file[<<r, "home">>]]
  /\ UNCHANGED <<artifacts, review>>

\* Somebody edits a receipt file: nothing but its digest protects it.
EditReceipt(p) ==
  /\ file[p] # None /\ file[p].edition = 0
  /\ file' = [file EXCEPT ![p].edition = 1]
  /\ UNCHANGED <<artifacts, review>>

ChangeArtifacts(r) ==
  /\ file[<<r, "home">>] # None
  /\ \E state \in ArtifactStates \ {artifacts[r]} :
       artifacts' = [artifacts EXCEPT ![r] = state]
  /\ UNCHANGED <<file, review>>

-----------------------------------------------------------------------------
Next ==
  \/ \E r \in Receipts : \/ SealAttempt(r) \/ Observe(r)
                         \/ CopyReceipt(r) \/ ChangeArtifacts(r)
  \/ \E p \in Places : \/ EditReceipt(p)
                       \/ \E id \in ReviewIds : Review(id, p)

Spec == Init /\ [][Next]_vars

-----------------------------------------------------------------------------
TypeOK ==
  /\ file \in [Places -> Contents \cup {None}]
  /\ artifacts \in [Receipts -> ArtifactStates]
  /\ review \in [ReviewIds -> Reviews \cup {None}]

\* What a supported claim rests on, said without the aggregation: no file is
\* contradicted, pending or damaged, every review of it agrees, and one of the
\* files that were sealed before their verifier carries the claim.
Carried(p) ==
  LET c == file[p]
      bound == {id \in ReviewIds : review[id] # None /\ review[id].bytes = c}
  IN  /\ \A id \in bound : /\ review[id].judgment = "supported"
                           /\ review[id].requirement \in {"supported", None}
      /\ bound = {} => /\ ~c.required
                       /\ "supported" = IF c.type = "observed" THEN c.assessment
                                        ELSE IF c.outcome = "pass" THEN "supported"
                                        ELSE None
      /\ c.type = "attempt" =>
           artifacts[c.id] = "intact" /\ file[<<c.id, "copy">>] # c

SupportedExactly ==
  Verdict = "supported" <=>
    /\ \A p \in Places : file[p] # None => Carried(p)
    /\ \E p \in Places :
         /\ file[p] # None
         /\ \/ file[p].type = "observed" \/ file[p].workerFinal
            \/ file[p].outcome \in NeverInvoked

\* Reviews of edited bytes count for nothing: when a receipt that demands a
\* review is edited, no claim that rests on it stays supported.
EditedReceiptNeedsReview ==
  [][\A p \in Places :
       file[p] # None /\ file'[p] # file[p] /\ file'[p].required
         => Verdict' # "supported"]_vars

\* A conflict between reviews is settled by no further evidence, whatever
\* arrives in whatever order: only overwriting a receipt or a review ends it.
Overwrites == \/ \E p \in Places : file[p] # None /\ file'[p] # file[p]
              \/ \E id \in ReviewIds :
                   review[id] # None /\ review'[id] # review[id]

ConflictIsSticky ==
  [][~Overwrites /\ Verdict = "mixed" => Verdict' = "mixed"]_vars

(* A statement of the documentation that the code does not keep *)

\* docs/EVIDENCE_MODEL.md: explain deduplicates the same receipt copied to
\* several canonical locations; so a copy changes no verdict.
CopiesAreOneEvidence ==
  [][(\E r \in Receipts : CopyReceipt(r) /\ file[<<r, "copy">>] = None)
       => Verdict' = Verdict]_vars
=============================================================================
