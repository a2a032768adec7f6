------------------------- MODULE EvidenceViewProofs -------------------------
(***************************************************************************)
(* Theorems about EvidenceView, for any number of receipts and reviews.    *)
(*                                                                         *)
(* The verdict is computed from sets of assessments and requirement        *)
(* outcomes; the lemmas give what one receipt contributes to them, once    *)
(* for receipts whose reviews agree and once for those in conflict.        *)
(***************************************************************************)
EXTENDS EvidenceView, FiniteSetTheorems, TLAPS

USE OutcomesAssumption, JudgmentsAssumption, NoneAssumption

\* What run_attempt, command_observe and command_review can have written.
Genuine(c) ==
  /\ c.type = "observed" => c.assessment \in Assessments /\ ~c.required
  /\ c.type = "attempt" => c.assessment = None

Written ==
  /\ \A p \in Places : file[p] # None => Genuine(file[p])
  /\ \A id \in ReviewIds : review[id] # None =>
       (review[id].requirement # None <=> review[id].bytes.required)

\* Where files come from: a copy is one of the receipt at home, and edited bytes
\* that were reviewed are, or have been copied, where they were edited.
Origins ==
  /\ \A r \in Receipts :
       /\ file[<<r, "home">>] # None => file[<<r, "home">>].id = r
       /\ file[<<r, "copy">>] # None =>
            /\ file[<<r, "home">>] # None
            /\ file[<<r, "copy">>].id = r
            /\ file[<<r, "copy">>].type = file[<<r, "home">>].type
  /\ \A id \in ReviewIds : review[id] # None =>
       LET r == review[id].bytes.id
       IN  /\ file[<<r, "home">>] # None
           /\ review[id].bytes.edition = 1 =>
                file[<<r, "home">>].edition = 1 \/ file[<<r, "copy">>] # None

Inv == TypeOK /\ Written /\ Origins

-----------------------------------------------------------------------------
(* The files *)

\* No files: the invariant holds.
LEMMA InitTyped == Init => Inv
<1> SUFFICES ASSUME Init PROVE Inv
  OBVIOUS
<1>1. \A r \in Receipts : <<r, "home">> \in Places /\ <<r, "copy">> \in Places
  BY DEF Places
<1>2. TypeOK
  BY DEF Init, TypeOK, ArtifactStates
<1> QED BY <1>1, <1>2 DEF Init, Inv, Written, Origins

\* The places of a receipt.
LEMMA PlacesOf ==
  /\ \A r \in Receipts : <<r, "home">> \in Places /\ <<r, "copy">> \in Places
  /\ \A r \in Receipts, s \in Receipts : <<r, "home">> # <<s, "copy">>
  /\ \A p \in Places : \E r \in Receipts : p = <<r, "home">> \/ p = <<r, "copy">>
BY DEF Places

\* A receipt is sealed or observed once, at home.
LEMMA NewReceipt ==
  ASSUME Inv, NEW r \in Receipts, SealAttempt(r) \/ Observe(r)
  PROVE  Inv'
<1> USE PlacesOf DEF Inv
<1>1. file[<<r, "home">>] = None /\ UNCHANGED <<artifacts, review>>
  BY DEF SealAttempt, Observe
<1>2. PICK c \in Contents : /\ file' = [file EXCEPT ![<<r, "home">>] = c]
                            /\ Genuine(c) /\ c.id = r
  <2>1. CASE SealAttempt(r)
    <3>1. PICK outcome \in Outcomes, workerFinal \in BOOLEAN, required \in BOOLEAN :
            file' = [file EXCEPT ![<<r, "home">>] =
                       [id |-> r, type |-> "attempt", outcome |-> outcome,
                        assessment |-> None, workerFinal |-> workerFinal,
                        required |-> required, edition |-> 0]]
      BY <2>1 DEF SealAttempt
    <3> DEFINE c == [id |-> r, type |-> "attempt", outcome |-> outcome,
                     assessment |-> None, workerFinal |-> workerFinal,
                     required |-> required, edition |-> 0]
    <3>2. c \in Contents /\ Genuine(c) /\ c.id = r
      BY DEF Contents, Genuine
    <3> QED BY <3>1, <3>2
  <2>2. CASE Observe(r)
    <3>1. PICK assessment \in Judgments :
            file' = [file EXCEPT ![<<r, "home">>] =
                       [id |-> r, type |-> "observed",
                        outcome |-> ObservedOutcome(assessment),
                        assessment |-> assessment, workerFinal |-> FALSE,
                        required |-> FALSE, edition |-> 0]]
      BY <2>2 DEF Observe
    <3> DEFINE c == [id |-> r, type |-> "observed",
                     outcome |-> ObservedOutcome(assessment),
                     assessment |-> assessment, workerFinal |-> FALSE,
                     required |-> FALSE, edition |-> 0]
    <3>2. ObservedOutcome(assessment) \in AttemptOutcomes
      BY DEF ObservedOutcome, AttemptOutcomes, Assessments
    <3>3. c \in Contents /\ Genuine(c) /\ c.id = r
      BY <3>2 DEF Contents, Genuine
    <3> QED BY <3>1, <3>3
  <2> QED BY <2>1, <2>2
<1>3. TypeOK'
  BY <1>1, <1>2 DEF TypeOK
<1>4. file' = [file EXCEPT ![<<r, "home">>] = c] /\ c # None
  BY <1>2
<1>5. Written'
  BY <1>1, <1>2, <1>4 DEF Written, TypeOK
<1>6. Origins'
  BY <1>1, <1>2, <1>4 DEF Origins, TypeOK, Reviews, Contents
<1> QED BY <1>3, <1>5, <1>6

\* A review is about bytes that are there.
LEMMA NewReview ==
  ASSUME Inv, NEW id \in ReviewIds, NEW p \in Places, Review(id, p)
  PROVE  Inv'
<1> USE PlacesOf DEF Inv
<1>1. file[p] # None /\ UNCHANGED <<file, artifacts>>
  BY DEF Review
<1>2. PICK judgment \in Judgments, requirement \in Judgments \cup {None} :
        /\ requirement # None <=> file[p].required
        /\ review' = [review EXCEPT ![id] =
                        [bytes |-> file[p], judgment |-> judgment,
                         requirement |-> requirement]]
  BY DEF Review
<1> DEFINE new == [bytes |-> file[p], judgment |-> judgment,
                   requirement |-> requirement]
<1>3. file[p] \in Contents
  BY <1>1 DEF TypeOK
<1>4. new \in Reviews /\ new # None
  BY <1>3 DEF Reviews
<1>5. new.bytes = file[p] /\ new.requirement = requirement
  OBVIOUS
<1>6. review' = [review EXCEPT ![id] = new]
  BY <1>2
<1> HIDE DEF new
<1>7. TypeOK'
  BY <1>1, <1>4, <1>6 DEF TypeOK
<1>8. Written'
  BY <1>1, <1>2, <1>5, <1>6 DEF Written, TypeOK
<1>9. Origins'
  <2>1. PICK r \in Receipts : p = <<r, "home">> \/ p = <<r, "copy">>
    OBVIOUS
  <2>2. file[p].id = r /\ file[<<r, "home">>] # None
    BY <1>1, <2>1 DEF Origins
  <2>3. file[p].edition = 1 =>
          file[<<r, "home">>].edition = 1 \/ file[<<r, "copy">>] # None
    BY <1>1, <2>1
  <2>4. \A k \in ReviewIds : review'[k] # None => k = id \/ review'[k] = review[k]
    BY <1>6 DEF TypeOK
  <2>5. review'[id] = new
    BY <1>6 DEF TypeOK
  <2> QED BY <1>1, <1>5, <2>2, <2>3, <2>4, <2>5 DEF Origins
<1> QED BY <1>7, <1>8, <1>9

\* Copying and editing keep the receipt that a file is of.
LEMMA ChangedFile ==
  ASSUME Inv, (\E r \in Receipts : CopyReceipt(r)) \/ (\E p \in Places : EditReceipt(p))
  PROVE  Inv'
<1> USE PlacesOf DEF Inv
<1>1. CASE \E r \in Receipts : CopyReceipt(r)
  <2>1. PICK r \in Receipts : CopyReceipt(r)
    BY <1>1
  <2>2. /\ file[<<r, "home">>] # None
        /\ file' = [file EXCEPT ![<<r, "copy">>] = file[<<r, "home">>]]
        /\ UNCHANGED <<artifacts, review>>
    BY <2>1 DEF CopyReceipt
  <2>3. TypeOK'
    BY <2>2 DEF TypeOK
  <2>4. Written'
    BY <2>2 DEF Written, TypeOK
  <2>5. Origins'
    BY <2>2 DEF Origins, TypeOK, Reviews, Contents
  <2> QED BY <2>3, <2>4, <2>5
<1>2. CASE \E p \in Places : EditReceipt(p)
  <2>1. PICK p \in Places : EditReceipt(p)
    BY <1>2
  <2>2. file[p] # None /\ UNCHANGED <<artifacts, review>>
    BY <2>1 DEF EditReceipt
  <2>3. PICK c \in Contents :
          /\ file' = [file EXCEPT ![p] = c]
          /\ c.id = file[p].id /\ c.type = file[p].type
          /\ c.assessment = file[p].assessment /\ c.required = file[p].required
          /\ c.edition = 1
    <3> DEFINE c == [file[p] EXCEPT !.edition = 1]
    <3>1. file[p] \in Contents
      BY <2>2 DEF TypeOK
    <3>2. c \in Contents /\ c.edition = 1 /\ c.id = file[p].id /\ c.type = file[p].type
          /\ c.assessment = file[p].assessment /\ c.required = file[p].required
      BY <3>1 DEF Contents
    <3>3. file' = [file EXCEPT ![p] = c]
      BY <2>1 DEF EditReceipt
    <3> QED BY <3>2, <3>3
  <2>4. TypeOK'
    BY <2>2, <2>3 DEF TypeOK
  <2>5. Written'
    BY <2>2, <2>3 DEF Written, TypeOK, Genuine
  <2>6. c # None
    BY <2>3
  <2>7. Origins'
    BY <2>2, <2>3, <2>6 DEF Origins, TypeOK, Reviews, Contents
  <2> QED BY <2>4, <2>5, <2>7
<1> QED BY <1>1, <1>2

\* Every step keeps the invariant.
LEMMA NextTyped == Inv /\ [Next]_vars => Inv'
<1> SUFFICES ASSUME Inv, [Next]_vars PROVE Inv'
  OBVIOUS
<1>1. CASE UNCHANGED vars
  BY <1>1 DEF vars, Inv, TypeOK, Written, Origins
<1>2. CASE \E r \in Receipts : ChangeArtifacts(r)
  <2>1. PICK r \in Receipts : ChangeArtifacts(r)
    BY <1>2
  <2>2. UNCHANGED <<file, review>> /\ artifacts' \in [Receipts -> ArtifactStates]
    BY <2>1 DEF ChangeArtifacts, Inv, TypeOK
  <2> QED BY <2>2 DEF Inv, TypeOK, Written, Origins
<1> QED BY <1>1, <1>2, NewReceipt, NewReview, ChangedFile DEF Next

\* The invariant holds throughout.
LEMMA Invariant == Spec => []Inv
BY InitTyped, NextTyped, PTL DEF Spec

\* The files keep their shape, whoever writes, copies and edits them.
THEOREM TypeCorrect == Spec => []TypeOK
<1>1. Inv => TypeOK
  BY DEF Inv
<1> QED BY <1>1, Invariant, PTL

-----------------------------------------------------------------------------
(* What one receipt contributes to the verdict *)

\* The receipts of the view are genuine contents.
LEMMA PresentIsGenuine ==
  ASSUME Inv, NEW c \in Present
  PROVE  /\ c \in Contents /\ c # None /\ Genuine(c)
         /\ \A id \in Bound(c) :
              /\ review[id] \in Reviews /\ review[id].bytes = c
              /\ review[id].requirement # None <=> c.required
<1>1. PICK p \in Places : c = file[p] /\ file[p] # None
  BY DEF Present
<1>2. c \in Contents /\ c # None /\ Genuine(c)
  BY <1>1 DEF Inv, TypeOK, Written
<1> QED BY <1>2 DEF Inv, TypeOK, Written, Bound

\* Reviews that agree speak with one voice; reviews that do not make it mixed.
LEMMA OneVoice ==
  ASSUME Inv, NEW c \in Present
  PROVE  /\ Bound(c) = {} => Assessment(c) = OwnAssessment(c)
         /\ Conflicting(c) => Assessment(c) = "mixed"
         /\ ~Conflicting(c) => \A id \in Bound(c) :
              Assessment(c) = review[id].judgment
<1>1. Conflicting(c) => Bound(c) # {}
  BY DEF Conflicting
<1>2. ASSUME ~Conflicting(c), NEW id \in Bound(c)
      PROVE  Assessment(c) = review[id].judgment
  <2>1. \A k \in Bound(c) : review[k].judgment = review[id].judgment
    BY <1>2 DEF Conflicting, Fingerprint
  <2>2. (CHOOSE k \in Bound(c) : TRUE) \in Bound(c)
    BY <1>2
  <2>3. Assessment(c) = review[CHOOSE k \in Bound(c) : TRUE].judgment
    BY <1>2 DEF Assessment
  <2> QED BY <2>1, <2>2, <2>3
<1> QED BY <1>1, <1>2 DEF Assessment

\* The same of a requirement that reviews have decided.
LEMMA OneOutcome ==
  ASSUME Inv, NEW c \in Present
  PROVE  /\ ~c.required => Requirement(c) = None
         /\ c.required /\ Bound(c) = {} => Requirement(c) = "pending"
         /\ c.required /\ ~Conflicting(c) => \A id \in Bound(c) :
              Requirement(c) = review[id].requirement
<1>1. ASSUME c.required, ~Conflicting(c), NEW id \in Bound(c)
      PROVE  Requirement(c) = review[id].requirement
  <2> DEFINE o == review[id].requirement
  <2>1. \A k \in Bound(c) : review[k].requirement = o
    BY <1>1 DEF Conflicting, Fingerprint
  <2>2. RequirementOutcomes(c) = {o}
    BY <1>1, <2>1 DEF RequirementOutcomes
  <2>3. Cardinality(RequirementOutcomes(c)) = 1
    BY <2>2, FS_Singleton
  <2>4. o \in Assessments
    BY <1>1, PresentIsGenuine DEF Reviews
  <2>5. (CHOOSE a \in Assessments : a \in RequirementOutcomes(c)) = o
    BY <2>2, <2>4
  <2>6. Bound(c) # {}
    BY <1>1
  <2>7. Requirement(c) = CHOOSE a \in Assessments : a \in RequirementOutcomes(c)
    BY <1>1, <2>3, <2>6 DEF Requirement
  <2> QED BY <2>5, <2>7
<1>2. ~c.required => Requirement(c) = None
  BY DEF Requirement
<1>3. c.required /\ Bound(c) = {} => Requirement(c) = "pending"
  <2>1. Bound(c) = {} => RequirementOutcomes(c) = {}
    BY DEF RequirementOutcomes
  <2>2. Bound(c) = {} => Cardinality(RequirementOutcomes(c)) # 1
    BY <2>1, FS_EmptySet
  <2> QED BY <2>2 DEF Requirement
<1> QED BY <1>1, <1>2, <1>3

-----------------------------------------------------------------------------
(* A supported claim *)

\* No receipt of these bytes stands in the way of the claim.
Clean(c) == /\ Assessment(c) = "supported"
            /\ Requirement(c) \in {"supported", None}
            /\ ~ArtifactsDamaged(c)

\* The aggregation of the verdict, undone.
LEMMA SupportedWhenClean ==
  ASSUME Inv
  PROVE  Verdict = "supported" <=>
           /\ \A c \in Present : Clean(c)
           /\ \E c \in Present : ~LegacyAmbiguous(c)
<1>1. ASSUME NEW c \in Present, Assessment(c) # "mixed"
      PROVE  /\ Assessment(c) \in Assessments
             /\ Requirement(c) \in Assessments \cup {"pending", None}
  <2>1. ~Conflicting(c)
    BY <1>1, OneVoice
  <2>2. c \in Contents /\ Genuine(c)
    BY PresentIsGenuine
  <2>3. OwnAssessment(c) \in Assessments
    BY <2>2 DEF OwnAssessment, Assessments, Contents, Genuine
  <2>4. \A id \in Bound(c) : /\ review[id].judgment \in Assessments
                             /\ review[id].requirement \in Assessments \cup {None}
    BY PresentIsGenuine DEF Reviews
  <2>5. CASE Bound(c) = {}
    BY <2>3, <2>5, OneVoice, OneOutcome
  <2>6. CASE Bound(c) # {}
    BY <2>1, <2>4, <2>6, OneVoice, OneOutcome
  <2> QED BY <2>5, <2>6
<1>2. ASSUME Verdict = "supported"
      PROVE  /\ \A c \in Present : Clean(c)
             /\ \E c \in Present : ~LegacyAmbiguous(c)
  <2>1. /\ \A c \in Present :
             /\ Assessment(c) \notin {"mixed", "not-supported", "inconclusive"}
             /\ Requirement(c) \notin {"mixed", "not-supported", "pending", "inconclusive"}
             /\ ~ArtifactsDamaged(c)
        /\ SealedSupported # {}
    BY <1>2 DEF Verdict, Assessed, WithRequirement
  <2> QED BY <1>1, <2>1 DEF Clean, Assessments, SealedSupported, Assessed
<1>3. ASSUME \A c \in Present : Clean(c), \E c \in Present : ~LegacyAmbiguous(c)
      PROVE  Verdict = "supported"
  <2>1. None \notin {"mixed", "not-supported", "pending", "inconclusive"}
    BY DEF Assessments
  <2>2. /\ Assessed("mixed") = {} /\ Assessed("not-supported") = {}
        /\ Assessed("inconclusive") = {}
    BY <1>3 DEF Assessed, Clean
  <2>3. /\ WithRequirement("mixed") = {} /\ WithRequirement("not-supported") = {}
        /\ WithRequirement("pending") = {} /\ WithRequirement("inconclusive") = {}
    BY <1>3, <2>1 DEF WithRequirement, Clean
  <2>4. SealedSupported # {}
    BY <1>3 DEF SealedSupported, Assessed, Clean
  <2>5. ~\E c \in Present : ArtifactsDamaged(c)
    BY <1>3 DEF Clean
  <2> QED BY <2>2, <2>3, <2>4, <2>5 DEF Verdict
<1> QED BY <1>2, <1>3

\* A receipt is clean exactly when its file carries the claim.
LEMMA CleanWhenCarried ==
  ASSUME Inv, NEW p \in Places, file[p] # None
  PROVE  Clean(file[p]) <=> Carried(p)
<1> DEFINE c == file[p]
<1>1. c \in Present
  BY DEF Present
<1>2. c \in Contents /\ Genuine(c)
  BY <1>1, PresentIsGenuine
<1>3. {id \in ReviewIds : review[id] # None /\ review[id].bytes = c} = Bound(c)
  BY DEF Bound
<1>4. ArtifactsDamaged(c) <=>
        ~(c.type = "attempt" =>
            artifacts[c.id] = "intact" /\ file[<<c.id, "copy">>] # c)
  <2>1. c.id \in Receipts
    BY <1>2 DEF Contents
  <2>2. Primary(c) = "copy" <=> file[<<c.id, "copy">>] = c
    BY <2>1, PlacesOf DEF Primary, Locations
  <2> QED BY <2>2 DEF ArtifactsDamaged
<1> DEFINE Agreed == \A id \in Bound(c) :
                        /\ review[id].judgment = "supported"
                        /\ review[id].requirement \in {"supported", None}
           Alone == Bound(c) = {} =>
                      /\ ~c.required
                      /\ "supported" = IF c.type = "observed" THEN c.assessment
                                       ELSE IF c.outcome = "pass" THEN "supported"
                                       ELSE None
<1>5. Assessment(c) = "supported" /\ Requirement(c) \in {"supported", None}
        <=> Agreed /\ Alone
  <2>1. CASE Bound(c) = {}
    <3>1. OwnAssessment(c) = "supported" <=>
            "supported" = IF c.type = "observed" THEN c.assessment
                          ELSE IF c.outcome = "pass" THEN "supported" ELSE None
      BY <1>2 DEF OwnAssessment, Assessments
    <3>2. Requirement(c) \in {"supported", None} <=> ~c.required
      BY <1>1, <1>2, <2>1, OneOutcome DEF Contents
    <3> QED BY <1>1, <2>1, <3>1, <3>2, OneVoice
  <2>2. CASE Conflicting(c)
    <3>1. PICK a \in Bound(c), b \in Bound(c) : Fingerprint(a) # Fingerprint(b)
      BY <2>2 DEF Conflicting
    <3>2. review[a].requirement # None <=> review[b].requirement # None
      BY <1>1, PresentIsGenuine
    <3>3. ~Agreed
      BY <3>1, <3>2 DEF Fingerprint
    <3> QED BY <1>1, <2>2, <3>3, OneVoice
  <2>3. CASE Bound(c) # {} /\ ~Conflicting(c)
    <3>1. \A id \in Bound(c) : Assessment(c) = review[id].judgment
      BY <1>1, <2>3, OneVoice
    <3>2. \A id \in Bound(c) : Requirement(c) = review[id].requirement
      <4>1. CASE c.required
        BY <1>1, <2>3, <4>1, OneOutcome
      <4>2. CASE ~c.required
        BY <1>1, <4>2, OneOutcome, PresentIsGenuine
      <4> QED BY <4>1, <4>2
    <3> QED BY <2>3, <3>1, <3>2
  <2> QED BY <2>1, <2>2, <2>3
<1>6. Carried(p) <=> /\ Agreed /\ Alone
                     /\ c.type = "attempt" =>
                          artifacts[c.id] = "intact" /\ file[<<c.id, "copy">>] # c
  BY <1>3 DEF Carried
<1> HIDE DEF Agreed, Alone
<1> QED BY <1>4, <1>5, <1>6 DEF Clean

\* The verdict "supported", from the files alone.
LEMMA SupportedIsExact == Inv => SupportedExactly
<1> SUFFICES ASSUME Inv PROVE SupportedExactly
  OBVIOUS
<1>1. (\A c \in Present : Clean(c)) <=>
        \A p \in Places : file[p] # None => Carried(p)
  BY CleanWhenCarried DEF Present
<1>2. (\E c \in Present : ~LegacyAmbiguous(c)) <=>
        \E p \in Places :
          /\ file[p] # None
          /\ \/ file[p].type = "observed" \/ file[p].workerFinal
             \/ file[p].outcome \in NeverInvoked
  <2>1. ASSUME NEW p \in Places, file[p] # None
        PROVE  ~LegacyAmbiguous(file[p]) <=>
                 \/ file[p].type = "observed" \/ file[p].workerFinal
                 \/ file[p].outcome \in NeverInvoked
    <3>1. file[p] \in Contents
      BY <2>1 DEF Inv, TypeOK
    <3> QED BY <3>1 DEF LegacyAmbiguous, Contents
  <2> QED BY <2>1 DEF Present
<1> QED BY <1>1, <1>2, SupportedWhenClean DEF SupportedExactly

\* `explain` calls a claim supported exactly when each of its files carries it
\* and one of them was sealed before its verifier.
THEOREM SupportedMeansCarried == Spec => []SupportedExactly
BY Invariant, SupportedIsExact, PTL

-----------------------------------------------------------------------------
(* A mixed claim *)

\* A claim is mixed for one reason only: reviews of the same bytes disagree.
MixedExactly == Verdict = "mixed" <=> \E c \in Present : Conflicting(c)

\* A claim is mixed when, and only when, reviews of present bytes conflict.
LEMMA MixedIsExact == Inv => MixedExactly
<1> SUFFICES ASSUME Inv PROVE MixedExactly
  OBVIOUS
<1>1. ASSUME NEW c \in Present, ~Conflicting(c)
      PROVE  Assessment(c) # "mixed" /\ Requirement(c) # "mixed"
  <2>1. c \in Contents /\ Genuine(c)
    BY PresentIsGenuine
  <2>2. OwnAssessment(c) # "mixed"
    BY <2>1 DEF OwnAssessment, Assessments, Contents, Genuine
  <2>3. \A id \in Bound(c) : /\ review[id].judgment # "mixed"
                             /\ review[id].requirement # "mixed"
    BY PresentIsGenuine DEF Reviews, Assessments
  <2>4. CASE Bound(c) = {}
    BY <2>2, <2>4, OneVoice, OneOutcome
  <2>5. CASE Bound(c) # {}
    BY <1>1, <2>3, <2>5, OneVoice, OneOutcome
  <2> QED BY <2>4, <2>5
<1>2. (\E c \in Present : Conflicting(c)) <=>
        Assessed("mixed") \cup WithRequirement("mixed") # {}
  BY <1>1, OneVoice DEF Assessed, WithRequirement
<1>3. Verdict = "mixed" <=> Assessed("mixed") \cup WithRequirement("mixed") # {}
  BY DEF Verdict
<1> QED BY <1>2, <1>3 DEF MixedExactly

\* A claim is mixed when, and only when, two reviews of the same bytes that are
\* there disagree: contradiction between receipts is never called a conflict.
THEOREM MixedMeansConflict == Spec => []MixedExactly
BY Invariant, MixedIsExact, PTL

\* Evidence that overwrites nothing leaves the disagreement where it was.
LEMMA ConflictStays ==
  ASSUME MixedExactly, MixedExactly', ~Overwrites, Verdict = "mixed"
  PROVE  Verdict' = "mixed"
<1>1. PICK c \in Present : Conflicting(c)
  BY DEF MixedExactly
<1>2. c \in Present'
  BY <1>1 DEF Present, Overwrites
<1>3. PICK a \in Bound(c), b \in Bound(c) : Fingerprint(a) # Fingerprint(b)
  BY <1>1 DEF Conflicting
<1>4. /\ review'[a] = review[a] /\ review'[b] = review[b]
      /\ a \in ReviewIds /\ b \in ReviewIds
  BY <1>3 DEF Bound, Overwrites
<1>5. Conflicting(c)'
  BY <1>3, <1>4 DEF Conflicting, Bound, Fingerprint
<1> QED BY <1>2, <1>5 DEF MixedExactly

\* Reviews that disagree keep the claim mixed, whatever arrives in whatever
\* order, until a receipt or a review is overwritten.
THEOREM ConflictsStay == Spec => ConflictIsSticky
<1>1. Spec => []MixedExactly
  BY Invariant, MixedIsExact, PTL
<1>2. MixedExactly /\ MixedExactly'
        => [~Overwrites /\ Verdict = "mixed" => Verdict' = "mixed"]_vars
  BY ConflictStays
<1> QED BY <1>1, <1>2, PTL DEF ConflictIsSticky

-----------------------------------------------------------------------------
(* An unsupported claim *)

\* The receipt says so, unless it has been reviewed; then a review does.
Contradicts(p) ==
  LET c == file[p]
      bound == {id \in ReviewIds : review[id] # None /\ review[id].bytes = c}
  IN  \/ \E id \in bound : "not-supported" \in {review[id].judgment,
                                              review[id].requirement}
      \/ /\ bound = {}
         /\ "not-supported" = IF c.type = "observed" THEN c.assessment
                              ELSE IF c.outcome = "fail" THEN "not-supported"
                              ELSE None

UnsupportedExactly ==
  Verdict = "unsupported" <=>
    /\ \A c \in Present : ~Conflicting(c)
    /\ \E p \in Places : file[p] # None /\ Contradicts(p)

\* Without conflicts, a file contradicts the claim by its assessment or by its
\* requirement.
LEMMA WhatContradicts ==
  ASSUME Inv, NEW p \in Places, file[p] # None, ~Conflicting(file[p])
  PROVE  Contradicts(p) <=> \/ Assessment(file[p]) = "not-supported"
                            \/ Requirement(file[p]) = "not-supported"
<1> DEFINE c == file[p]
<1>1. c \in Present
  BY DEF Present
<1>2. c \in Contents /\ Genuine(c)
  BY <1>1, PresentIsGenuine
<1>3. {id \in ReviewIds : review[id] # None /\ review[id].bytes = c} = Bound(c)
  BY DEF Bound
<1>4. CASE Bound(c) = {}
  <2>1. Contradicts(p) <=>
          "not-supported" = IF c.type = "observed" THEN c.assessment
                            ELSE IF c.outcome = "fail" THEN "not-supported"
                            ELSE None
    BY <1>3, <1>4 DEF Contradicts
  <2>2. Assessment(c) = OwnAssessment(c)
    BY <1>1, <1>4, OneVoice
  <2>3. Requirement(c) \in {None, "pending"}
    BY <1>1, <1>2, <1>4, OneOutcome DEF Contents
  <2>4. Requirement(c) # "not-supported"
    BY <2>3 DEF Assessments
  <2>5. "not-supported" = OwnAssessment(c) <=>
          "not-supported" = IF c.type = "observed" THEN c.assessment
                            ELSE IF c.outcome = "fail" THEN "not-supported"
                            ELSE None
    BY <1>2 DEF OwnAssessment, Assessments
  <2> QED BY <2>1, <2>2, <2>4, <2>5
<1>5. CASE Bound(c) # {}
  <2>1. Contradicts(p) <=>
          \E id \in Bound(c) : "not-supported" \in {review[id].judgment,
                                                 review[id].requirement}
    BY <1>3, <1>5 DEF Contradicts
  <2>2. \A id \in Bound(c) : Assessment(c) = review[id].judgment
    BY <1>1, OneVoice
  <2>3. \A id \in Bound(c) : Requirement(c) = review[id].requirement
    <3>1. CASE c.required
      BY <1>1, <3>1, OneOutcome
    <3>2. CASE ~c.required
      BY <1>1, <3>2, OneOutcome, PresentIsGenuine
    <3> QED BY <3>1, <3>2
  <2> QED BY <1>5, <2>1, <2>2, <2>3
<1> QED BY <1>4, <1>5

\* `explain` calls a claim unsupported exactly when no reviews conflict and one
\* file contradicts it, however many others support it or wait for a review.
THEOREM UnsupportedMeansContradicted == Spec => []UnsupportedExactly
<1>1. Inv => UnsupportedExactly
  <2> SUFFICES ASSUME Inv PROVE UnsupportedExactly
    OBVIOUS
  <2>1. Verdict = "mixed" <=> \E c \in Present : Conflicting(c)
    BY MixedIsExact DEF MixedExactly
  <2>2. Verdict = "unsupported" <=>
          /\ Verdict # "mixed"
          /\ \E c \in Present : \/ Assessment(c) = "not-supported"
                               \/ Requirement(c) = "not-supported"
    BY DEF Verdict, Assessed, WithRequirement
  <2> QED BY <2>1, <2>2, WhatContradicts DEF UnsupportedExactly, Present
<1> QED BY <1>1, Invariant, PTL

-----------------------------------------------------------------------------
(* A copied receipt *)

\* The bytes that are there, and the reviews of them, stay.
LEMMA CopyAddsNothing ==
  ASSUME Inv, NEW r \in Receipts, CopyReceipt(r), file[<<r, "copy">>] = None
  PROVE  /\ Present' = Present /\ review' = review /\ artifacts' = artifacts
         /\ \A c \in Present :
              Primary(c)' = IF c = file[<<r, "home">>] THEN "copy" ELSE Primary(c)
<1>1. /\ file[<<r, "home">>] # None /\ UNCHANGED <<artifacts, review>>
      /\ file' = [file EXCEPT ![<<r, "copy">>] = file[<<r, "home">>]]
  BY DEF CopyReceipt
<1>2. /\ file'[<<r, "copy">>] = file[<<r, "home">>]
      /\ \A p \in Places : p # <<r, "copy">> => file'[p] = file[p]
  BY <1>1, PlacesOf DEF Inv, TypeOK
<1>3. Present' = Present
  BY <1>1, <1>2, PlacesOf DEF Present
<1>4. ASSUME NEW c \in Present
      PROVE  Primary(c)' = IF c = file[<<r, "home">>] THEN "copy" ELSE Primary(c)
  <2>1. c \in Contents /\ c # None /\ c.id \in Receipts
    BY PresentIsGenuine DEF Contents
  <2>2. /\ Primary(c) = "copy" <=> file[<<c.id, "copy">>] = c
        /\ Primary(c)' = "copy" <=> file'[<<c.id, "copy">>] = c
        /\ Primary(c) \in {"copy", "home"} /\ Primary(c)' \in {"copy", "home"}
    BY <2>1, PlacesOf DEF Primary, Locations
  <2>3. file[<<r, "home">>].id = r
    BY <1>1 DEF Inv, Origins
  <2>4. CASE c.id = r
    BY <1>2, <2>1, <2>2, <2>4
  <2>5. CASE c.id # r
    BY <1>2, <2>1, <2>2, <2>3, <2>5, PlacesOf
  <2> QED BY <2>4, <2>5
<1> QED BY <1>1, <1>3, <1>4

\* The remainder of a promise of docs/EVIDENCE_MODEL.md that the code does not
\* keep: a copy of a receipt moves the verdict in one case only, from supported
\* to inconclusive, when the receipt is of an attempt and so is looked for
\* beside the copy, where its artifacts are not (explain.py:205-330).
THEOREM CopiesOnlyCostSupport ==
  Spec => [][\A r \in Receipts :
               CopyReceipt(r) /\ file[<<r, "copy">>] = None =>
                 Verdict' = IF /\ Verdict = "supported"
                               /\ file[<<r, "home">>].type = "attempt"
                            THEN "inconclusive" ELSE Verdict]_vars
<1>1. ASSUME Inv, NEW r \in Receipts, CopyReceipt(r), file[<<r, "copy">>] = None
      PROVE  Verdict' = IF /\ Verdict = "supported"
                           /\ file[<<r, "home">>].type = "attempt"
                        THEN "inconclusive" ELSE Verdict
  <2> DEFINE d == file[<<r, "home">>]
  <2>1. /\ Present' = Present /\ review' = review /\ artifacts' = artifacts
        /\ \A c \in Present : Primary(c)' = IF c = d THEN "copy" ELSE Primary(c)
    BY <1>1, CopyAddsNothing
  <2>2. d \in Present
    BY <1>1, PlacesOf DEF CopyReceipt, Present
  <2> HIDE DEF d
  <2>3. /\ \A a : Assessed(a)' = Assessed(a)
        /\ \A a : WithRequirement(a)' = WithRequirement(a)
        /\ SealedSupported' = SealedSupported
    <3>1. \A c : /\ Bound(c)' = Bound(c) /\ Conflicting(c)' = Conflicting(c)
                 /\ RequirementOutcomes(c)' = RequirementOutcomes(c)
      BY <2>1 DEF Bound, Conflicting, Fingerprint, RequirementOutcomes
    <3>2. ASSUME NEW c
          PROVE  Assessment(c)' = Assessment(c) /\ Requirement(c)' = Requirement(c)
      <4>1. (CHOOSE id \in Bound(c) : TRUE)' = (CHOOSE id \in Bound(c) : TRUE)
        BY <3>1, Zenon
      <4>2. (CHOOSE o \in Assessments : o \in RequirementOutcomes(c))'
              = (CHOOSE o \in Assessments : o \in RequirementOutcomes(c))
        BY <3>1, Zenon
      <4>3. Cardinality(RequirementOutcomes(c))' = Cardinality(RequirementOutcomes(c))
        BY <3>1
      <4>4. Assessment(c)' = Assessment(c)
        BY <2>1, <3>1, <4>1 DEF Assessment, OwnAssessment
      <4>5. Requirement(c)' = Requirement(c)
        BY <3>1, <4>2, <4>3 DEF Requirement
      <4> QED BY <4>4, <4>5
    <3> QED BY <2>1, <3>2 DEF Assessed, WithRequirement, SealedSupported,
                              LegacyAmbiguous
  <2>4. (\E c \in Present : ArtifactsDamaged(c))' <=>
          (\E c \in Present : ArtifactsDamaged(c)) \/ d.type = "attempt"
    BY <2>1, <2>2 DEF ArtifactsDamaged
  <2>5. Verdict' = IF Verdict = "supported" /\ d.type = "attempt"
                   THEN "inconclusive" ELSE Verdict
    BY <2>3, <2>4 DEF Verdict
  <2> QED BY <2>5 DEF d
<1>2. Inv => [\A r \in Receipts :
                CopyReceipt(r) /\ file[<<r, "copy">>] = None =>
                  Verdict' = IF /\ Verdict = "supported"
                                /\ file[<<r, "home">>].type = "attempt"
                             THEN "inconclusive" ELSE Verdict]_vars
  BY <1>1
<1> QED BY <1>2, Invariant, PTL

-----------------------------------------------------------------------------
(* An edited receipt *)

\* What changes the bytes of a receipt: an edit, or a copy over an older copy.
LEMMA WhatChangesBytes ==
  ASSUME Inv, Next, NEW p \in Places, file[p] # None, file'[p] # file[p]
  PROVE  \/ \E r \in Receipts : p = <<r, "copy">>
         \/ /\ file[p].edition = 0 /\ file'[p].edition = 1
            /\ \A q \in Places \ {p} : file'[q] = file[q]
            /\ UNCHANGED review
<1>1. CASE \E r \in Receipts : SealAttempt(r) \/ Observe(r)
  BY <1>1, PlacesOf DEF SealAttempt, Observe, Inv, TypeOK
<1>2. CASE \E r \in Receipts : CopyReceipt(r)
  BY <1>2, PlacesOf DEF CopyReceipt, Inv, TypeOK
<1>3. CASE \/ \E r \in Receipts : ChangeArtifacts(r)
           \/ \E q \in Places, id \in ReviewIds : Review(id, q)
  BY <1>3 DEF ChangeArtifacts, Review
<1>4. CASE \E q \in Places : EditReceipt(q)
  <2>1. PICK q \in Places : EditReceipt(q)
    BY <1>4
  <2>2. p = q
    BY <2>1 DEF EditReceipt, Inv, TypeOK
  <2>3. file[p] \in Contents
    BY DEF Inv, TypeOK
  <2>4. /\ file[p].edition = 0 /\ UNCHANGED review
        /\ file' = [file EXCEPT ![p].edition = 1]
    BY <2>1, <2>2 DEF EditReceipt
  <2>5. file'[p] = [file[p] EXCEPT !.edition = 1]
    BY <2>4 DEF Inv, TypeOK
  <2>6. file'[p].edition = 1
    BY <2>3, <2>5 DEF Contents
  <2> QED BY <2>4, <2>6 DEF Inv, TypeOK
<1> QED BY <1>1, <1>2, <1>3, <1>4 DEF Next

\* No step removes a receipt.
LEMMA FilesStay ==
  ASSUME Inv, Next
  PROVE  \A q \in Places : file[q] # None => file'[q] # None
<1>1. CASE \E r \in Receipts : SealAttempt(r) \/ Observe(r)
  <2>1. PICK r \in Receipts : SealAttempt(r) \/ Observe(r)
    BY <1>1
  <2>2. file[<<r, "home">>] = None
        /\ \A q \in Places \ {<<r, "home">>} : file'[q] = file[q]
    BY <2>1, PlacesOf DEF SealAttempt, Observe, Inv, TypeOK
  <2> QED BY <2>2
<1>2. CASE \E r \in Receipts : CopyReceipt(r)
  BY <1>2, PlacesOf DEF CopyReceipt, Inv, TypeOK
<1>3. CASE \/ \E r \in Receipts : ChangeArtifacts(r)
           \/ \E q \in Places, id \in ReviewIds : Review(id, q)
  BY <1>3 DEF ChangeArtifacts, Review
<1>4. CASE \E p \in Places : EditReceipt(p)
  <2>1. PICK p \in Places : EditReceipt(p)
    BY <1>4
  <2>2. file[p] \in Contents
    BY <2>1 DEF EditReceipt, Inv, TypeOK
  <2>3. file' = [file EXCEPT ![p] = [file[p] EXCEPT !.edition = 1]]
    BY <2>1 DEF EditReceipt
  <2>4. [file[p] EXCEPT !.edition = 1] \in Contents
    BY <2>2 DEF Contents
  <2> QED BY <2>3, <2>4 DEF Inv, TypeOK
<1> QED BY <1>1, <1>2, <1>3, <1>4 DEF Next

\* Nothing attests the edited bytes: a copy lacks its artifacts, and a receipt
\* without a copy has no reviews of bytes that are new.
LEMMA EditUndoesReviews ==
  ASSUME Inv, Inv', SupportedExactly', Next,
         NEW p \in Places, file[p] # None, file'[p] # file[p], file'[p].required
  PROVE  Verdict' # "supported"
<1> SUFFICES ASSUME Verdict' = "supported" PROVE FALSE
  OBVIOUS
<1>1. \A q \in Places : file'[q] # None => Carried(q)'
  BY DEF SupportedExactly
<1>2. \A q \in Places : file[q] # None => file'[q] # None
  BY FilesStay
<1>3. file'[p] \in Contents /\ Genuine(file'[p])
  BY <1>2 DEF Inv, TypeOK, Written
<1>4. file'[p].type = "attempt"
  BY <1>3 DEF Genuine, Contents
\* A copied attempt lies apart from its artifacts.
<1>5. ASSUME NEW r \in Receipts, file'[<<r, "copy">>] # None,
             file'[<<r, "copy">>].type = "attempt"
      PROVE  FALSE
  <2>1. file'[<<r, "copy">>].id = r
    BY <1>5 DEF Inv, Origins
  <2>2. Carried(<<r, "copy">>)'
    BY <1>1, <1>5, PlacesOf
  <2> QED BY <1>5, <2>1, <2>2 DEF Carried
<1>6. PICK r \in Receipts : p = <<r, "home">>
  BY <1>2, <1>4, <1>5, PlacesOf
<1>7. file'[p].id = r /\ file'[<<r, "copy">>] = None
  BY <1>2, <1>4, <1>5, <1>6 DEF Inv, Origins
<1>8. /\ file[p].edition = 0 /\ file'[p].edition = 1
      /\ file[<<r, "copy">>] = None /\ UNCHANGED review
  BY <1>6, <1>7, WhatChangesBytes, PlacesOf
<1>9. \A id \in ReviewIds : review'[id] # None => review'[id].bytes # file'[p]
  BY <1>6, <1>7, <1>8 DEF Inv, Origins
<1>10. Carried(p)'
  BY <1>1, <1>2
<1> QED BY <1>9, <1>10 DEF Carried

\* When a receipt that demands a review is edited, its claim is not supported.
THEOREM EditsNeedReview == Spec => EditedReceiptNeedsReview
<1>1. Spec => []SupportedExactly
  BY SupportedMeansCarried
<1>2. /\ Inv /\ Inv' /\ SupportedExactly' /\ [Next]_vars
      => [\A p \in Places :
            file[p] # None /\ file'[p] # file[p] /\ file'[p].required
              => Verdict' # "supported"]_vars
  BY EditUndoesReviews
<1> QED BY <1>1, <1>2, Invariant, PTL DEF Spec, EditedReceiptNeedsReview
=============================================================================
