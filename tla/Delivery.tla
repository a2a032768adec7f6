------------------------------ MODULE Delivery ------------------------------
(***************************************************************************)
(* How an attempt gets its workspace (fieldlab/workspace.py, subjects.py,  *)
(* trees.py, snapshot.py): the fixture of the case is copied, the planned  *)
(* subject is copied over it at its mount, the mount is digested and       *)
(* compared with the plan, and a baseline is committed with Git.  The      *)
(* owner of the subject may edit it meanwhile.                             *)
(*                                                                         *)
(* A tree gives every path its content.  Directories are implied by the    *)
(* files below them; modes and empty directories are left out.  A subject  *)
(* that is a checkout brings a .git entry, which no digest reads; a        *)
(* subject with one is not mounted at the root of the workspace.           *)
(***************************************************************************)
EXTENDS Naturals, FiniteSets

CONSTANTS
  Paths,      \* the files a workspace may hold
  Above,      \* <<p, q>>: a directory p is on the way to q
  Meta,       \* the .git entries below the mount
  Ignored,    \* what Git is told to ignore
  Files,      \* contents of a regular file; of a .git entry: a repository
  Pointee,    \* the file that the links inside the workspace point to
  Jobs,       \* the combinations of fixture and planned subject
  MaxMoves,   \* bound on what the owner and the worker do
  Absent

\* Links that stay in the tree they are in, and links that leave it.
Links == {"inner", "outer"}
\* "unborn": a repository without a commit.
Contents == Files \cup Links \cup {"unborn"}
Trees == [Paths -> Contents \cup {Absent}]

WellFormed(t) ==
  \A p, q \in Paths : <<p, q>> \in Above => Absent \in {t[p], t[q]}

JobType ==
  [kind: {"control", "path", "git"}, mounted: SUBSET Paths,
   planned: Trees,     \* the subject when the plan digested it
   fixture: Trees]

ASSUME ConstantsAssumption ==
  /\ Absent \notin Contents /\ Files \cap (Links \cup {"unborn"}) = {}
  /\ Pointee \in Paths \ Meta /\ Meta \subseteq Paths /\ MaxMoves \in Nat
  /\ \A p \in Paths : {<<p, p>>, <<p, Pointee>>, <<Pointee, p>>} \cap Above = {}

\* A git subject is an archive of a commit: the plan could not be made if it
\* held a link, and no archive holds a .git entry.
ASSUME JobsAssumption ==
  /\ Jobs \subseteq JobType
  /\ \A j \in Jobs :
       /\ j.kind = "control" => j.mounted = {}
       /\ j.kind = "git" =>
            \A p \in Paths : j.planned[p] \in Files \cup {Absent}
       /\ \A p \in Meta : /\ j.fixture[p] = Absent
                          /\ j.planned[p] # Absent => j.kind = "path"
       /\ \A p \in Paths : /\ j.planned[p] # Absent => p \in j.mounted
                           /\ j.planned[p] = "inner" => Pointee \in j.mounted
       /\ WellFormed(j.planned) /\ WellFormed(j.fixture)
       /\ {j.planned[Pointee], j.fixture[Pointee]} \subseteq Files \cup {Absent}

VARIABLES
  job,
  source,     \* the subject as it is now: the directory, or the ref
  entry,      \* how copytree sees the files of the source
  work,       \* the workspace
  delivered,  \* the workspace when the worker starts
  head,       \* what the last commit holds
  index,      \* what the index holds
  indexed,    \* there is an index file
  moves,
  pc

gitVars == <<head, index, indexed>>
deliveryVars == <<job, source, entry, work, delivered, gitVars, moves, pc>>

Empty == [p \in Paths |-> Absent]

DeliveryInit ==
  /\ job \in Jobs
  /\ source = job.planned
  /\ entry = [p \in Paths |-> "unlisted"]
  /\ work = Empty /\ delivered = Empty
  /\ head = Empty /\ index = Empty /\ indexed = FALSE
  /\ moves = 0
  /\ pc = "fixture"

EntryStates == {"unlisted", "file", "link", "done"}
Delivering == {"fixture", "source", "copying", "init"}
Undelivered == {"preflight-failed", "input-drift"}

-----------------------------------------------------------------------------

\* The owner edits the subject, or moves the ref, until it was read.
Edit(p, c) ==
  /\ pc \in Delivering \ {"init"}
  /\ moves < MaxMoves
  /\ p \in job.mounted \ Meta
  /\ c # source[p] /\ (c \in Links => job.kind = "path" /\ p # Pointee)
  /\ c = "inner" => Pointee \in job.mounted
  /\ source' = [source EXCEPT ![p] = c]
  /\ WellFormed(source')
  /\ moves' = moves + 1
  /\ UNCHANGED <<job, entry, work, delivered, gitVars, pc>>

Preflight(status) ==
  /\ pc' = status
  /\ UNCHANGED <<job, source, entry, delivered, gitVars, moves>>

\* prepare_workspace: an old workspace is removed, the fixture is copied.
CopyFixture ==
  /\ pc = "fixture"
  /\ IF \E p \in Paths : job.fixture[p] = "outer"
     THEN Preflight("preflight-failed") /\ UNCHANGED work
     ELSE Preflight("source") /\ work' = job.fixture

\* Mutant: the ref is resolved again, as it was for the plan.
ReadingMovingRef == source

\* What is copied: a directory as it is now; of a ref the planned commit.
Reading == IF job.kind = "git" THEN job.planned ELSE source

\* copy_tree_source checks every link before it copies.
BeginCopy ==
  /\ pc = "source"
  /\ UNCHANGED work
  /\ Preflight(IF job.kind = "control" THEN "init"
               ELSE IF \E p \in Paths : Reading[p] = "outer"
               THEN "preflight-failed" ELSE "copying")

\* copytree lists the directory of p: what it lists it will copy, as the kind
\* of file it then was.
ListEntry(p) ==
  /\ pc = "copying" /\ p \in job.mounted /\ entry[p] = "unlisted"
  /\ entry' = [entry EXCEPT ![p] = CASE Reading[p] = Absent -> "done"
                                     [] Reading[p] \in Links -> "link"
                                     [] OTHER -> "file"]
  /\ UNCHANGED <<job, source, work, delivered, gitVars, moves, pc>>

\* What opening p for reading may give; Absent: an error.
Opened(t, p) ==
  CASE t[p] = "outer" -> Files \cup {Absent}
    [] t[p] = "inner" -> {t[Pointee]}
    [] OTHER -> {t[p]}

\* Writing to a link of the fixture writes the file it points to.
Through(t, p) == IF t[p] = "inner" THEN Pointee ELSE p

\* Mutant: a file in place of a directory goes unnoticed.
NeverObstructed(p) == FALSE

Obstructed(p) ==
  \E q \in Paths : work[q] # Absent /\ {<<p, q>>, <<q, p>>} \cap Above # {}

Copied(p, c) ==
  /\ entry' = [entry EXCEPT ![p] = "done"]
  /\ UNCHANGED <<job, source, delivered, gitVars, moves, pc>>
  /\ work' = [work EXCEPT ![Through(work, p)] = c]

\* A failed entry fails the copy.  (copytree goes on with the other entries
\* before it raises; nothing reads what it copied.)
CopyEntry(p) ==
  /\ pc = "copying"
  /\ \/ /\ entry[p] = "file" /\ ~Obstructed(p)
        /\ \E c \in Opened(Reading, p) \ {Absent} : Copied(p, c)
     \/ /\ entry[p] = "link" /\ ~Obstructed(p)
        /\ Reading[p] \in Links /\ work[p] = Absent
        /\ Copied(p, Reading[p])
     \/ /\ \/ entry[p] = "file" /\ Absent \in Opened(Reading, p)
           \/ entry[p] = "link" /\ Reading[p] \notin Links
           \/ entry[p] = "link" /\ work[p] # Absent
           \/ entry[p] \in {"file", "link"} /\ Obstructed(p)
        /\ Preflight("preflight-failed") /\ UNCHANGED work

\* tree_digest: equal digests mean equal trees outside .git.
SameBytes(t, u, within) == \A p \in within \ Meta : t[p] = u[p]

\* Mutant: the digest of the source is compared, not that of the mount.
AsPlannedSource == SameBytes(source, job.planned, job.mounted)

AsPlanned == SameBytes(work, job.planned, job.mounted)

Measure ==
  /\ pc = "copying" /\ \A p \in job.mounted : entry[p] = "done"
  /\ UNCHANGED work
  /\ Preflight(IF AsPlanned THEN "init" ELSE "input-drift")

\* Git records a directory with a repository in it as one link to its commit.
Opaque(t) == IF \E p \in Meta : t[p] # Absent THEN job.mounted ELSE {}
Visible(t) == Paths \ (Ignored \cup Opaque(t) \cup Meta)

\* `git add --all` refuses a repository without a commit.
InitGit ==
  /\ pc = "init"
  /\ IF \E p \in Meta : work[p] = "unborn"
     THEN Preflight("preflight-failed") /\ UNCHANGED work
     ELSE /\ delivered' = work
          /\ index' = [p \in Paths |-> IF p \in Visible(work) THEN work[p]
                                       ELSE Absent]
          /\ head' = index' /\ indexed' = TRUE
          /\ pc' = "ready"
          /\ UNCHANGED <<job, source, entry, work, moves>>

\* Any OSError, ConfigError or ExecutionError.
DeliveryFails ==
  /\ pc \in Delivering
  /\ Preflight("preflight-failed") /\ UNCHANGED work

DeliveryNext ==
  \/ \E p \in Paths, c \in Files \cup Links \cup {Absent} : Edit(p, c)
  \/ CopyFixture
  \/ BeginCopy
  \/ \E p \in Paths : ListEntry(p) \/ CopyEntry(p)
  \/ Measure
  \/ InitGit
  \/ DeliveryFails

-----------------------------------------------------------------------------

DeliveryTypeOK ==
  /\ job \in Jobs /\ source \in Trees /\ delivered \in Trees
  /\ work \in Trees /\ WellFormed(work)
  /\ entry \in [Paths -> EntryStates]
  /\ head \in Trees /\ index \in Trees /\ indexed \in BOOLEAN
  /\ moves \in 0 .. MaxMoves

\* The worker is started only in a workspace whose mount holds, outside .git,
\* the bytes the plan digested, whatever was edited and whenever; everything
\* else is the fixture, even when a link of the fixture lies in the mount
\* (workspace.py:59-81, subjects.py:156).
WorkerStartsAsPlanned ==
  pc \notin Delivering \cup Undelivered =>
    /\ SameBytes(delivered, job.planned, job.mounted)
    /\ SameBytes(delivered, job.fixture, Paths \ job.mounted)

\* Drift is reported only if the directory of a local-path subject was edited
\* or the fixture has files in the mount.  Moving the ref of a pinned subject
\* is no drift: its commit is delivered (subjects.py:143-156).
DriftIsReal ==
  pc = "input-drift" =>
    \/ job.kind = "path" /\ moves > 0
    \/ \E p \in job.mounted : job.fixture[p] # Absent
=============================================================================
