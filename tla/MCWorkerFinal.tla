--------------------------- MODULE MCWorkerFinal ---------------------------
(***************************************************************************)
(* Values for TLC: f is the file the case is about, g another one, o is    *)
(* ignored, sub and m (its .git entry) belong to a mounted subject.        *)
(***************************************************************************)
EXTENDS WorkerFinal

CONSTANTS f, g, o, sub, m, a, b, big

MCAbove == {<<o, sub>>}
MCSize == [c \in Files |-> CASE c = a -> 1 [] c = b -> 2 [] OTHER -> 3]

Tree(t) == [p \in Paths |-> IF p \in DOMAIN t THEN t[p] ELSE Absent]
At(p, c) == [q \in {p} |-> c]
Two(p, c, q, d) == [x \in {p, q} |-> IF x = p THEN c ELSE d]

Job(kind, mounted, planned, fixture) ==
  [kind |-> kind, mounted |-> mounted, planned |-> Tree(planned),
   fixture |-> Tree(fixture)]
None == [p \in {} |-> Absent]

Control == Job("control", {}, None, Two(f, a, g, b))
\* Subjects that are delivered, or not.
Beside == Job("path", {sub}, At(sub, b), Two(f, a, g, b))
Directory == Job("path", {f, sub}, Two(f, a, sub, b), At(g, a))
WithLink == Job("path", {f, sub}, Two(f, a, sub, "inner"), At(g, a))
AlwaysOut == Job("path", {sub}, At(sub, "outer"), At(f, a))
Pinned == Job("git", {f, sub}, Two(f, a, sub, b), At(g, a))
Checkout == Job("path", {sub, m}, Two(sub, a, m, a), At(f, a))
Unborn == Job("path", {sub, m}, Two(sub, a, m, "unborn"), At(f, a))
\* Fixtures that reach into the mount.
Overlap == Job("git", {f, sub}, At(sub, a), Two(f, a, g, a))
LinkInMount == Job("path", {sub}, At(sub, b), Two(f, a, sub, "inner"))
LinkTwice ==
  Job("path", {f, sub}, Two(f, a, sub, "inner"), Two(g, a, sub, "inner"))
FileAbove == Job("git", {sub}, At(sub, b), Two(f, a, o, a))
LinkOut == Job("control", {}, None, Two(f, a, g, "outer"))

Program(needs, edits, commits) ==
  [needs |-> needs, commits |-> commits,
   edits |-> [p \in Paths |-> IF p \in DOMAIN edits THEN edits[p] ELSE Same]]

Idle == [touch |-> {}, equals |-> {}, exact |-> Undeclared, commands |-> <<>>,
         declared |-> <<>>, text |-> FALSE, limit |-> 9,
         expected |-> Tree(None)]

\* The worker uses Git.
GitUse == [Idle EXCEPT !.touch = {f, g, o}]
\* The bounds of the material: f and g fit alone, but not always together.
Sealing == [Idle EXCEPT !.touch = {f, g}, !.declared = <<f, g>>]
SealingManifest == [Idle EXCEPT !.touch = {o}, !.declared = <<f, o>>]
\* The case is resolved by writing b to f.
Resolve == [Idle EXCEPT !.touch = {f, g}, !.exact = {f},
              !.equals = {<<f, b>>, <<g, b>>},
              !.commands = <<Program({<<f, b>>, <<g, b>>}, None, FALSE)>>,
              !.text = TRUE, !.limit = 1, !.expected = Tree(At(f, b))]
\* A command repairs what the next one checks.
Repair == [Idle EXCEPT !.touch = {f, o}, !.equals = {<<g, b>>},
             !.commands = <<Program({}, At(f, b), FALSE),
                            Program({<<f, b>>}, At(o, a), FALSE)>>]
\* Its commands leave something behind for each other, and do not all read it.
Scripted == [Resolve EXCEPT !.touch = {f}, !.equals = {},
               !.commands = <<Program({<<f, b>>}, At(o, a), FALSE),
                              Program({<<o, a>>}, None, FALSE),
                              Program({<<g, b>>}, None, FALSE)>>]
\* A command commits, another one undoes what the worker did.
Committing == [Idle EXCEPT !.touch = {f},
                 !.commands = <<Program({}, At(g, a), TRUE)>>]
Undoing == [Idle EXCEPT !.touch = {f},
              !.commands = <<Program({}, At(f, a), FALSE)>>]

\* The worker edits a subject that is a checkout.
EditSubject == [Idle EXCEPT !.touch = {f, sub}]

MCJobs == {Control, Beside, Directory, WithLink, AlwaysOut, Pinned, Checkout,
           Unborn, Overlap, LinkInMount, LinkTwice, FileAbove, LinkOut}
MCCases == {Idle, GitUse, Sealing, SealingManifest, Resolve, Repair, Scripted,
            Committing, Undoing, EditSubject}
MCScenarios ==
  (MCJobs \ {Control, Beside}) \X {Idle}
    \cup {Control} \X (MCCases \ {Idle, EditSubject})
    \cup {<<Checkout, EditSubject>>, <<Beside, Resolve>>}
=============================================================================
