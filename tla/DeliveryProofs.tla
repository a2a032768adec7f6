--------------------------- MODULE DeliveryProofs ---------------------------
(***************************************************************************)
(* Lemmas about Delivery, for any files, any fixture and subject, and any  *)
(* number of edits: the delivery's own steps keep DeliveryInv, which holds *)
(* what the worker starts with.  The theorems that rest on it are in       *)
(* WorkerFinalProofs.                                                      *)
(*                                                                         *)
(* The subtle part is a link of the fixture that lies in the mount: what   *)
(* is copied over it is written to the file it points to, which may lie    *)
(* outside the mount, where no digest is compared (Outside).  But then the *)
(* link is still in the mount, so that the digest is not the planned one:  *)
(* a subject that holds such a link holds the file it points to.           *)
(***************************************************************************)
EXTENDS Delivery, TLAPS

\* What the subject may have become.
Sourced ==
  /\ job.kind = "path" /\ moves = 0 => source = job.planned
  /\ \A p \in Paths : source[p] # job.planned[p] => p \in job.mounted \ Meta
  /\ \A p \in Paths : source[p] = "inner" => Pointee \in job.mounted
  /\ source[Pointee] \notin Links

\* Where the copy is.
Stepwise ==
  /\ pc = "fixture" => work = Empty
  /\ pc = "source" => work = job.fixture
  /\ pc \in {"fixture", "source"} => \A p \in Paths : entry[p] = "unlisted"
  /\ pc = "copying" => job.kind # "control"
  /\ \A p \in Paths : entry[p] # "unlisted" => p \in job.mounted

\* Until its file is copied a path of the mount is the fixture's; every other
\* path is, unless a link of the fixture was written through.
Outside ==
  pc = "copying" =>
    /\ work[Pointee] \notin Links
    /\ \A p \in job.mounted \ {Pointee} :
         entry[p] # "done" => work[p] = job.fixture[p]
    /\ \A q \in Paths \ job.mounted :
         \/ work[q] = job.fixture[q]
         \/ /\ q = Pointee
            /\ \E p \in job.mounted : /\ job.fixture[p] = "inner"
                                      /\ work[p] = "inner"

\* Nothing was edited and the mount is free.
Undisturbed ==
  /\ job.kind = "path" => moves = 0
  /\ \A p \in job.mounted : job.fixture[p] = Absent

\* Then every copied file is the planned one.
Inside ==
  pc = "copying" /\ Undisturbed =>
    \A p \in job.mounted :
      /\ work[p] = IF entry[p] = "done" THEN job.planned[p] ELSE Absent
      /\ entry[p] = "link" => job.planned[p] \in Links
      /\ entry[p] = "file" => job.planned[p] \notin Links \cup {Absent}

\* The workspace is as planned, inside and outside the mount.
Right(t) ==
  /\ SameBytes(t, job.planned, job.mounted)
  /\ SameBytes(t, job.fixture, Paths \ job.mounted)

DeliveryInv ==
  /\ DeliveryTypeOK /\ Sourced /\ Stepwise /\ Outside /\ Inside
  /\ pc = "init" => Right(work)
  /\ WorkerStartsAsPlanned
  /\ DriftIsReal

-----------------------------------------------------------------------------

LEMMA JobFacts ==
  ASSUME NEW j \in Jobs
  PROVE  /\ j.kind \in {"control", "path", "git"} /\ j.mounted \in SUBSET Paths
         /\ j.planned \in Trees /\ j.fixture \in Trees
         /\ j.kind = "control" => j.mounted = {}
         /\ \A p \in Meta : j.fixture[p] = Absent
         /\ \A p \in Paths : j.planned[p] # Absent => p \in j.mounted
         /\ \A p \in Paths : j.planned[p] = "inner" => Pointee \in j.mounted
         /\ WellFormed(j.fixture)
         /\ j.planned[Pointee] \in Files \cup {Absent}
         /\ j.fixture[Pointee] \in Files \cup {Absent}
BY JobsAssumption DEF JobType

LEMMA Kinds ==
  /\ Absent \notin Contents /\ Files \cap Links = {} /\ Absent \notin Links
  /\ Pointee \in Paths /\ Pointee \notin Meta /\ Meta \subseteq Paths
  /\ MaxMoves \in Nat
  /\ Files \subseteq Contents /\ Links \subseteq Contents
  /\ Empty \in Trees /\ WellFormed(Empty)
BY ConstantsAssumption DEF Contents, Links, Empty, Trees, WellFormed

\* What a copy reads is well known, whenever it reads.
LEMMA ReadingFacts ==
  ASSUME DeliveryInv
  PROVE  /\ Reading \in Trees /\ Reading[Pointee] \notin Links
         /\ Undisturbed /\ job.kind # "control" => Reading = job.planned
<1>1. job \in Jobs /\ source \in Trees /\ Sourced
  BY DEF DeliveryInv, DeliveryTypeOK
<1>2. job.planned[Pointee] \notin Links
  BY <1>1, JobFacts, Kinds
<1>3. job.kind \in {"control", "path", "git"}
  BY <1>1, JobFacts
<1> QED BY <1>1, <1>2, <1>3, JobFacts DEF Reading, Sourced, Undisturbed

LEMMA DeliveryStarts == DeliveryInit => DeliveryInv
<1> SUFFICES ASSUME DeliveryInit PROVE DeliveryInv
  OBVIOUS
<1>1. job \in Jobs
  BY DEF DeliveryInit
<1>2. DeliveryTypeOK
  <2>1. source \in Trees
    BY <1>1, JobFacts DEF DeliveryInit
  <2>2. entry \in [Paths -> EntryStates]
    BY DEF DeliveryInit, EntryStates
  <2>3. /\ work = Empty /\ delivered = Empty /\ head = Empty /\ index = Empty
        /\ moves = 0
    BY DEF DeliveryInit
  <2>4. indexed \in BOOLEAN
    BY DEF DeliveryInit
  <2>5. moves \in 0 .. MaxMoves
    BY <2>3, Kinds
  <2> QED BY <1>1, <2>1, <2>2, <2>3, <2>4, <2>5, Kinds DEF DeliveryTypeOK
<1>3. Sourced
  BY <1>1, JobFacts, Kinds DEF DeliveryInit, Sourced
<1>4. Stepwise
  BY DEF DeliveryInit, Stepwise
<1> QED BY <1>2, <1>3, <1>4
        DEF DeliveryInit, DeliveryInv, Outside, Inside, WorkerStartsAsPlanned,
            DriftIsReal, Delivering

LEMMA EditKeeps ==
  ASSUME DeliveryInv, NEW p \in Paths, NEW c \in Files \cup Links \cup {Absent},
         Edit(p, c)
  PROVE  DeliveryInv'
<1>1. /\ pc \in {"fixture", "source", "copying"} /\ pc' = pc
      /\ moves < MaxMoves /\ moves' = moves + 1
      /\ p \in job.mounted \ Meta
      /\ c \in Links => job.kind = "path" /\ p # Pointee
      /\ c = "inner" => Pointee \in job.mounted
      /\ source' = [source EXCEPT ![p] = c]
      /\ UNCHANGED <<job, entry, work, delivered, head, index, indexed>>
  BY DEF Edit, gitVars, Delivering
<1>2. DeliveryTypeOK'
  <2>1. source' \in Trees
    BY <1>1, Kinds DEF DeliveryInv, DeliveryTypeOK, Trees
  <2>2. moves' \in 0 .. MaxMoves
    BY <1>1, Kinds DEF DeliveryInv, DeliveryTypeOK
  <2> QED BY <1>1, <2>1, <2>2 DEF DeliveryInv, DeliveryTypeOK, WellFormed
<1>3. Sourced'
  <2>1. \A q \in Paths : source'[q] = IF q = p THEN c ELSE source[q]
    BY <1>1 DEF DeliveryInv, DeliveryTypeOK, Trees
  <2>2. moves' # 0
    BY <1>1 DEF DeliveryInv, DeliveryTypeOK
  <2>3. source'[Pointee] \notin Links
    BY <1>1, <2>1, Kinds DEF DeliveryInv, Sourced
  <2>4. \A q \in Paths : source'[q] = "inner" => Pointee \in job.mounted
    BY <1>1, <2>1 DEF DeliveryInv, Sourced
  <2>5. \A q \in Paths : source'[q] # job.planned[q] => q \in job.mounted \ Meta
    BY <1>1, <2>1 DEF DeliveryInv, Sourced
  <2> QED BY <1>1, <2>2, <2>3, <2>4, <2>5 DEF Sourced
<1>4. Stepwise' /\ Outside'
  BY <1>1 DEF DeliveryInv, Stepwise, Outside, Empty
<1>5. Undisturbed' => Undisturbed
  BY <1>1 DEF Undisturbed, DeliveryInv, DeliveryTypeOK
<1>6. Inside'
  BY <1>1, <1>5 DEF DeliveryInv, Inside
<1> QED BY <1>1, <1>2, <1>3, <1>4, <1>6
        DEF DeliveryInv, WorkerStartsAsPlanned, DriftIsReal, Delivering

\* The steps that only go on.
LEMMA PreflightKeeps ==
  ASSUME DeliveryInv, NEW status, Preflight(status), UNCHANGED work,
         pc \in Delivering,
         \/ status = "preflight-failed"
         \/ status = "init" /\ Right(work)
         \/ status = "input-drift" /\ ~Undisturbed
  PROVE  DeliveryInv'
<1>1. pc' = status
      /\ UNCHANGED <<job, source, entry, work, delivered, head, index, indexed,
                     moves>>
  BY DEF Preflight, gitVars
<1>2. DeliveryTypeOK' /\ Sourced'
  BY <1>1 DEF DeliveryInv, DeliveryTypeOK, Sourced, WellFormed
<1>3. Stepwise' /\ Outside' /\ Inside'
  BY <1>1 DEF DeliveryInv, Stepwise, Outside, Inside
<1>4. (pc = "init" => Right(work))'
  BY <1>1 DEF Right, SameBytes
<1>5. WorkerStartsAsPlanned'
  BY <1>1 DEF WorkerStartsAsPlanned, Delivering, Undelivered
<1>6. DriftIsReal'
  <2>1. SUFFICES ASSUME status = "input-drift", ~Undisturbed
                 PROVE  \/ job.kind = "path" /\ moves > 0
                        \/ \E p \in job.mounted : job.fixture[p] # Absent
    BY <1>1 DEF DriftIsReal
  <2> QED BY <2>1 DEF Undisturbed, DeliveryInv, DeliveryTypeOK
<1> QED BY <1>2, <1>3, <1>4, <1>5, <1>6 DEF DeliveryInv

LEMMA FixtureKeeps ==
  ASSUME DeliveryInv, CopyFixture
  PROVE  DeliveryInv'
<1>1. CASE \E p \in Paths : job.fixture[p] = "outer"
  BY <1>1, PreflightKeeps DEF CopyFixture, Delivering
<1>2. CASE ~\E p \in Paths : job.fixture[p] = "outer"
  <2>1. /\ pc = "fixture" /\ pc' = "source" /\ work' = job.fixture
        /\ UNCHANGED <<job, source, entry, delivered, head, index, indexed,
                       moves>>
    BY <1>2 DEF CopyFixture, Preflight, gitVars
  <2>2. DeliveryTypeOK'
    BY <2>1, JobFacts DEF DeliveryInv, DeliveryTypeOK, WellFormed
  <2>3. Sourced' /\ Stepwise'
    BY <2>1 DEF DeliveryInv, Sourced, Stepwise
  <2> QED BY <2>1, <2>2, <2>3
          DEF DeliveryInv, Outside, Inside, WorkerStartsAsPlanned, DriftIsReal,
              Delivering
<1> QED BY <1>1, <1>2

LEMMA BeginKeeps ==
  ASSUME DeliveryInv, BeginCopy
  PROVE  DeliveryInv'
<1>1. pc = "source" /\ work' = work /\ work = job.fixture /\ job \in Jobs
  BY DEF BeginCopy, DeliveryInv, Stepwise, DeliveryTypeOK
<1>2. CASE job.kind = "control"
  <2>1. Right(work)
    BY <1>1, <1>2, JobFacts DEF Right, SameBytes
  <2> QED BY <1>1, <1>2, <2>1, PreflightKeeps DEF BeginCopy, Delivering
<1>3. CASE job.kind # "control" /\ \E p \in Paths : Reading[p] = "outer"
  BY <1>1, <1>3, PreflightKeeps DEF BeginCopy, Delivering
<1>4. CASE job.kind # "control" /\ ~\E p \in Paths : Reading[p] = "outer"
  <2>1. /\ pc' = "copying"
        /\ UNCHANGED <<job, source, entry, work, delivered, head, index, indexed,
                       moves>>
    BY <1>4 DEF BeginCopy, Preflight, gitVars
  <2>2. DeliveryTypeOK' /\ Sourced' /\ Stepwise'
    BY <1>1, <1>4, <2>1
    DEF DeliveryInv, DeliveryTypeOK, Sourced, Stepwise, WellFormed
  <2>3. \A p \in Paths : entry[p] = "unlisted"
    BY <1>1 DEF DeliveryInv, Stepwise
  <2>4. Outside'
    BY <1>1, <2>1, JobFacts, Kinds DEF Outside
  <2>5. Inside'
    <3>1. job.mounted \subseteq Paths
      BY <1>1, JobFacts
    <3> QED BY <1>1, <2>1, <2>3, <3>1 DEF Inside, Undisturbed
  <2> QED BY <2>1, <2>2, <2>4, <2>5
          DEF DeliveryInv, WorkerStartsAsPlanned, DriftIsReal, Delivering
<1> QED BY <1>2, <1>3, <1>4

LEMMA ListKeeps ==
  ASSUME DeliveryInv, NEW p \in Paths, ListEntry(p)
  PROVE  DeliveryInv'
<1>1. /\ pc = "copying" /\ pc' = pc /\ p \in job.mounted
      /\ entry[p] = "unlisted"
      /\ UNCHANGED <<job, source, work, delivered, head, index, indexed, moves>>
  BY DEF ListEntry, gitVars
<1>2. /\ entry' \in [Paths -> EntryStates]
      /\ \A q \in Paths : q # p => entry'[q] = entry[q]
      /\ entry'[p] \in {"done", "link", "file"}
      /\ entry'[p] = "done" => Reading[p] = Absent
      /\ entry'[p] = "link" => Reading[p] \in Links
      /\ entry'[p] = "file" => Reading[p] \notin Links \cup {Absent}
  <2> DEFINE k == CASE Reading[p] = Absent -> "done"
                    [] Reading[p] \in Links -> "link"
                    [] OTHER -> "file"
  <2>1. /\ k \in {"done", "link", "file"}
        /\ k = "done" => Reading[p] = Absent
        /\ k = "link" => Reading[p] \in Links
        /\ k = "file" => Reading[p] \notin Links \cup {Absent}
    OBVIOUS
  <2>2. entry' = [entry EXCEPT ![p] = k] /\ entry \in [Paths -> EntryStates]
    BY DEF ListEntry, DeliveryInv, DeliveryTypeOK
  <2> HIDE DEF k
  <2> QED BY <2>1, <2>2 DEF EntryStates
<1>3. DeliveryTypeOK' /\ Sourced'
  BY <1>1, <1>2 DEF DeliveryInv, DeliveryTypeOK, Sourced, WellFormed
<1>4. Stepwise'
  BY <1>1, <1>2 DEF DeliveryInv, Stepwise
<1>5. job \in Jobs /\ job.mounted \subseteq Paths
  BY JobFacts DEF DeliveryInv, DeliveryTypeOK
<1>6. Outside'
  BY <1>1, <1>2, <1>5 DEF DeliveryInv, Outside
<1>7. Inside'
  <2> SUFFICES ASSUME Undisturbed, NEW q \in job.mounted
               PROVE  /\ work[q] = IF entry'[q] = "done" THEN job.planned[q]
                                   ELSE Absent
                      /\ entry'[q] = "link" => job.planned[q] \in Links
                      /\ entry'[q] = "file" =>
                           job.planned[q] \notin Links \cup {Absent}
    BY <1>1 DEF Inside, Undisturbed
  <2>1. Reading = job.planned
    BY <1>1, ReadingFacts DEF DeliveryInv, Stepwise
  <2>2. /\ work[q] = IF entry[q] = "done" THEN job.planned[q] ELSE Absent
        /\ entry[q] = "link" => job.planned[q] \in Links
        /\ entry[q] = "file" => job.planned[q] \notin Links \cup {Absent}
    BY <1>1 DEF DeliveryInv, Inside
  <2> QED BY <1>1, <1>2, <1>5, <2>1, <2>2
<1> QED BY <1>1, <1>3, <1>4, <1>6, <1>7
        DEF DeliveryInv, WorkerStartsAsPlanned, DriftIsReal, Delivering

\* A file that is copied, c its content.
LEMMA CopiedKeeps ==
  ASSUME DeliveryInv, pc = "copying", NEW p \in Paths, NEW c \in Contents,
         entry[p] \in {"file", "link"}, ~Obstructed(p), Copied(p, c),
         c \in Links => work[p] = Absent /\ p # Pointee,
         Undisturbed => c = job.planned[p]
  PROVE  DeliveryInv'
<1> DEFINE q == Through(work, p)
<1>1. /\ pc' = pc /\ work' = [work EXCEPT ![q] = c]
      /\ entry' = [entry EXCEPT ![p] = "done"]
      /\ UNCHANGED <<job, source, delivered, head, index, indexed, moves>>
  BY DEF Copied, gitVars
<1>2. /\ q \in Paths /\ work \in Trees /\ entry \in [Paths -> EntryStates]
      /\ q = IF work[p] = "inner" THEN Pointee ELSE p
  BY Kinds DEF Through, DeliveryInv, DeliveryTypeOK
<1>3. p \in job.mounted /\ job \in Jobs /\ job.mounted \subseteq Paths
  BY JobFacts DEF DeliveryInv, DeliveryTypeOK, Stepwise
<1> HIDE DEF q
<1>4. \A x \in Paths : /\ work'[x] = IF x = q THEN c ELSE work[x]
                       /\ entry'[x] = IF x = p THEN "done" ELSE entry[x]
  BY <1>1, <1>2 DEF Trees
<1>5. work[Pointee] \notin Links /\ (work[p] = "inner" => p # Pointee)
  BY DEF DeliveryInv, Outside, Links
<1>6. DeliveryTypeOK'
  <2>1. work' \in Trees /\ entry' \in [Paths -> EntryStates]
    BY <1>1, <1>2 DEF Trees, EntryStates
  <2>2. \A x \in Paths : work[x] # Absent =>
          <<q, x>> \notin Above /\ <<x, q>> \notin Above
    BY <1>2, ConstantsAssumption DEF Obstructed
  <2>3. <<q, q>> \notin Above
    BY <1>2, ConstantsAssumption
  <2>4. WellFormed(work)
    BY DEF DeliveryInv, DeliveryTypeOK
  <2>5. WellFormed(work')
    BY <1>2, <1>4, <2>2, <2>3, <2>4 DEF WellFormed
  <2> QED BY <1>1, <2>1, <2>5 DEF DeliveryInv, DeliveryTypeOK, WellFormed
<1>7. Sourced' /\ Stepwise'
  BY <1>1, <1>3, <1>4 DEF DeliveryInv, Sourced, Stepwise
<1>8. Outside'
  <2>1. work'[Pointee] \notin Links
    BY <1>2, <1>4, <1>5, Kinds DEF Links
  <2>2. \A x \in job.mounted \ {Pointee} :
          entry'[x] # "done" => work'[x] = job.fixture[x]
    BY <1>2, <1>3, <1>4 DEF DeliveryInv, Outside
  <2>3. ASSUME NEW x \in Paths \ job.mounted
        PROVE  \/ work'[x] = job.fixture[x]
               \/ /\ x = Pointee
                  /\ \E y \in job.mounted : /\ job.fixture[y] = "inner"
                                            /\ work'[y] = "inner"
    <3>1. CASE x = q
      <4>1. x = Pointee /\ work[p] = "inner" /\ p # Pointee
        BY <1>2, <1>3, <1>5, <3>1
      <4>2. job.fixture[p] = "inner"
        BY <1>3, <4>1 DEF DeliveryInv, Outside
      <4>3. work'[p] = "inner"
        BY <1>2, <1>4, <4>1
      <4> QED BY <1>3, <4>1, <4>2, <4>3
    <3>2. CASE x # q
      <4>1. work'[x] = work[x]
        BY <1>4, <3>2
      <4>2. CASE work[x] = job.fixture[x]
        BY <4>1, <4>2
      <4>3. CASE work[x] # job.fixture[x]
        <5>1. PICK y \in job.mounted : /\ x = Pointee
                                       /\ job.fixture[y] = "inner"
                                       /\ work[y] = "inner"
          BY <4>3 DEF DeliveryInv, Outside
        <5>2. y # q
          BY <1>2, <3>2, <5>1
        <5> QED BY <1>3, <1>4, <5>1, <5>2
      <4> QED BY <4>2, <4>3
    <3> QED BY <3>1, <3>2
  <2> QED BY <1>1, <2>1, <2>2, <2>3 DEF Outside
<1>9. Inside'
  <2> SUFFICES ASSUME Undisturbed, NEW x \in job.mounted
               PROVE  /\ work'[x] = IF entry'[x] = "done" THEN job.planned[x]
                                    ELSE Absent
                      /\ entry'[x] = "link" => job.planned[x] \in Links
                      /\ entry'[x] = "file" =>
                           job.planned[x] \notin Links \cup {Absent}
    BY <1>1 DEF Inside, Undisturbed
  <2>1. \A y \in job.mounted :
          /\ work[y] = IF entry[y] = "done" THEN job.planned[y] ELSE Absent
          /\ entry[y] = "link" => job.planned[y] \in Links
          /\ entry[y] = "file" => job.planned[y] \notin Links \cup {Absent}
    BY DEF DeliveryInv, Inside
  <2>2. work[p] = Absent /\ q = p
    BY <1>2, <1>3, <2>1, Kinds DEF Links
  <2> QED BY <1>3, <1>4, <2>1, <2>2
<1> QED BY <1>1, <1>6, <1>7, <1>8, <1>9
        DEF DeliveryInv, WorkerStartsAsPlanned, DriftIsReal, Delivering

LEMMA CopyKeeps ==
  ASSUME DeliveryInv, NEW p \in Paths, CopyEntry(p)
  PROVE  DeliveryInv'
<1>1. pc = "copying" /\ job.kind # "control"
  BY DEF CopyEntry, DeliveryInv, Stepwise
<1>2. p \in job.mounted \/ entry[p] = "unlisted"
  BY DEF DeliveryInv, Stepwise
<1>3. /\ Reading \in Trees /\ Reading[Pointee] \notin Links
      /\ Undisturbed => Reading = job.planned
  BY <1>1, ReadingFacts
<1>4. CASE /\ entry[p] = "file" /\ ~Obstructed(p)
           /\ \E c \in Opened(Reading, p) \ {Absent} : Copied(p, c)
  <2>1. PICK c \in Opened(Reading, p) \ {Absent} : Copied(p, c)
    BY <1>4
  <2>2. c \in Contents /\ c \notin Links
    BY <1>3, <2>1, Kinds DEF Opened, Trees, Links
  <2>3. Undisturbed => c = job.planned[p]
    <3>1. Undisturbed => job.planned[p] \notin Links
      BY <1>1, <1>2, <1>4 DEF DeliveryInv, Inside
    <3> QED BY <1>3, <2>1, <3>1 DEF Opened, Links
  <2> QED BY <1>1, <1>4, <2>1, <2>2, <2>3, CopiedKeeps
<1>5. CASE /\ entry[p] = "link" /\ ~Obstructed(p)
           /\ Reading[p] \in Links /\ work[p] = Absent /\ Copied(p, Reading[p])
  BY <1>1, <1>3, <1>5, Kinds, CopiedKeeps
<1>6. CASE Preflight("preflight-failed") /\ UNCHANGED work
  BY <1>1, <1>6, PreflightKeeps DEF Delivering
<1> QED BY <1>4, <1>5, <1>6 DEF CopyEntry

LEMMA MeasureKeeps ==
  ASSUME DeliveryInv, Measure
  PROVE  DeliveryInv'
<1>1. /\ pc = "copying" /\ work' = work /\ job \in Jobs
      /\ \A p \in job.mounted : entry[p] = "done"
  BY DEF Measure, DeliveryInv, DeliveryTypeOK
<1>2. CASE AsPlanned
  <2>1. SameBytes(work, job.fixture, Paths \ job.mounted)
    <3> SUFFICES ASSUME NEW q \in Paths \ job.mounted,
                        work[q] # job.fixture[q]
                 PROVE  FALSE
      BY DEF SameBytes
    <3>1. PICK p \in job.mounted : /\ q = Pointee
                                   /\ job.fixture[p] = "inner"
                                   /\ work[p] = "inner"
      BY <1>1 DEF DeliveryInv, Outside
    <3>2. p \in Paths /\ p \notin Meta
      BY <1>1, <3>1, JobFacts, Kinds DEF Contents, Links
    <3>3. job.planned[p] = "inner"
      BY <1>2, <3>1, <3>2 DEF AsPlanned, SameBytes
    <3> QED BY <1>1, <3>1, <3>2, <3>3, JobFacts
  <2>2. Right(work)
    BY <1>2, <2>1 DEF AsPlanned, Right
  <2> QED BY <1>1, <1>2, <2>2, PreflightKeeps DEF Measure, Delivering
<1>3. CASE ~AsPlanned
  <2>1. ~Undisturbed
    BY <1>1, <1>3 DEF DeliveryInv, Inside, AsPlanned, SameBytes
  <2> QED BY <1>1, <1>3, <2>1, PreflightKeeps DEF Measure, Delivering
<1> QED BY <1>2, <1>3

LEMMA InitGitKeeps ==
  ASSUME DeliveryInv, InitGit
  PROVE  DeliveryInv'
<1>1. CASE \E p \in Meta : work[p] = "unborn"
  BY <1>1, PreflightKeeps DEF InitGit, Delivering
<1>2. CASE ~\E p \in Meta : work[p] = "unborn"
  <2>1. /\ pc = "init" /\ pc' = "ready" /\ delivered' = work
        /\ index' = [p \in Paths |-> IF p \in Visible(work) THEN work[p]
                                     ELSE Absent]
        /\ head' = index' /\ indexed' = TRUE
        /\ UNCHANGED <<job, source, entry, work, moves>>
    BY <1>2 DEF InitGit
  <2>2. DeliveryTypeOK'
    <3>1. index' \in Trees
      BY <2>1 DEF DeliveryInv, DeliveryTypeOK, Trees
    <3> QED BY <2>1, <3>1 DEF DeliveryInv, DeliveryTypeOK, WellFormed
  <2>3. Sourced' /\ Stepwise' /\ Outside' /\ Inside'
    BY <2>1 DEF DeliveryInv, Sourced, Stepwise, Outside, Inside
  <2>4. WorkerStartsAsPlanned'
    BY <2>1 DEF DeliveryInv, Right, SameBytes, WorkerStartsAsPlanned
  <2> QED BY <2>1, <2>2, <2>3, <2>4 DEF DeliveryInv, DriftIsReal
<1> QED BY <1>1, <1>2

LEMMA DeliverySteps == DeliveryInv /\ DeliveryNext => DeliveryInv'
<1> SUFFICES ASSUME DeliveryInv, DeliveryNext PROVE DeliveryInv'
  OBVIOUS
<1>1. CASE DeliveryFails
  BY <1>1, PreflightKeeps DEF DeliveryFails
<1> QED BY <1>1, EditKeeps, FixtureKeeps, BeginKeeps, ListKeeps, CopyKeeps,
           MeasureKeeps, InitGitKeeps DEF DeliveryNext
=============================================================================
