-------------------------- MODULE WorkerFinalProofs --------------------------
(***************************************************************************)
(* Theorems about Delivery and WorkerFinal, for any files, cases and jobs, *)
(* and a worker that does what it likes for as long as it likes.           *)
(*                                                                         *)
(* What the worker did with Git enters only as far as the accounts of its  *)
(* changes depend on it (Indexing).  Once it has ended nothing of what is  *)
(* captured and judged moves any more (Settled): every later step is held  *)
(* to the same tree, index and trace.                                      *)
(***************************************************************************)
EXTENDS WorkerFinal, DeliveryProofs, FiniteSetTheorems, SequenceTheorems,
        WellFoundedInduction

Before == Delivering \cup Undelivered

\* Without an index file the index is empty.  A worker that left Git alone left
\* the baseline: what was visible when it started.
Indexing ==
  /\ ~indexed => index = Empty
  /\ pc \notin Before =>
       /\ \A p \in Meta : work[p] = delivered[p]
       /\ plain =>
            /\ indexed /\ head = index
            /\ index = [p \in Paths |->
                          IF p \in Visible(delivered) THEN delivered[p]
                          ELSE Absent]

\* What was captured is what Git says of the workspace.
Account ==
  pc \in Captured =>
    /\ final.patch = Diff(Worker)
    /\ final.changed = ChangedFiles(Worker, final.away)
    /\ final.away \in RenamedAway(Worker)

\* Until the worker ends its events are those of its commands, each counted by
\* its id; the trace assertions hold only of an end that is clean.
Plodding ==
  /\ \A i \in DOMAIN trace :
       /\ trace[i].type \in {"thread.started", "item.started", "item.completed"}
       /\ trace[i].item \in {"none", "command_execution"}
  /\ Commands = 0 .. issued - 1

TraceSound ==
  TraceHolds /\ (case.text => FinalMessage = "right") => CleanTrace

Telling ==
  /\ pc \in Before \cup {"ready"} => issued = 0
  /\ pc = "working" => Plodding
  /\ pc \notin Before \cup {"ready", "working"} => TraceSound

\* One result of a command, as it is charged.
Charged(r, prog) ==
  LET after == Edited(prog, work)
      differ == {p \in Paths : after[p] # work[p]}
  IN  /\ r.mutated <=> differ \ Meta # {}
      /\ r.derived \subseteq differ
      /\ ~prog.commits => differ \ Hidden \subseteq r.derived

Judged ==
  /\ pc \notin {"commands", "completed", "stopped"} =>
       results = <<>> /\ ~verdict.files
  /\ Len(results) <= Len(case.commands)
  /\ \A i \in DOMAIN results :
       /\ results[i].passed => May(work, case.commands[i].needs)
       /\ Charged(results[i], case.commands[i])
  /\ verdict.files => May(work, case.equals)
  /\ verdict.supported => pc = "completed"
  /\ SupportedRestsOnWorker /\ SupportedNeedsCleanTrace

Inv ==
  TypeOK /\ DeliveryInv /\ Indexing /\ Account /\ Telling /\ Judged

-----------------------------------------------------------------------------
(* Facts about the state *)

LEMMA CaseFacts ==
  ASSUME TypeOK
  PROVE  /\ job \in Jobs /\ case \in Cases
         /\ case.touch \subseteq Paths /\ case.touch \cap Meta = {}
         /\ case.commands \in Seq(Programs) /\ case.declared \in Seq(Paths)
         /\ case.text \in BOOLEAN /\ case.limit \in Nat
         /\ \A i \in DOMAIN case.commands :
              \A p \in Meta : case.commands[i].edits[p] = Same
<1>1. job \in Jobs /\ case \in Cases
  BY CasesAssumption DEF TypeOK
<1>2. case \in CaseType
  BY <1>1, CasesAssumption
<1> QED BY <1>1, <1>2, CasesAssumption DEF CaseType

LEMMA OpaqueOfMeta ==
  ASSUME NEW t, NEW u, \A p \in Meta : t[p] = u[p]
  PROVE  Opaque(t) = Opaque(u) /\ Visible(t) = Visible(u)
BY DEF Opaque, Visible

\* Whatever Git was asked for, it answered about the paths there are.
LEMMA WorkerIsTyped ==
  ASSUME TypeOK
  PROVE  /\ Worker.tree = work /\ Worker.head = head
         /\ Worker.index = index /\ Worker.indexed = indexed
         /\ Visible(work) \subseteq Paths /\ Opaque(work) \subseteq Paths
         /\ \A p \in Paths : /\ work[p] \in Contents \cup {Absent}
                             /\ index[p] \in Contents \cup {Absent}
                             /\ head[p] \in Contents \cup {Absent}
                             /\ work[p] # Same
<1>1. job.mounted \subseteq Paths
  BY CaseFacts, JobFacts
<1>2. work \in Trees /\ index \in Trees /\ head \in Trees
  BY DEF TypeOK, DeliveryTypeOK
<1>3. \A p \in Paths : work[p] \in Contents \cup {Absent} /\ work[p] # Same
  BY <1>2, LimitsAssumption DEF Trees
<1> QED BY <1>1, <1>2, <1>3 DEF Worker, Visible, Opaque, Trees

-----------------------------------------------------------------------------
(* What Git reports of the worker *)

\* What is not hidden and not in the index is visible.
LEMMA NotHidden ==
  ASSUME NEW p \in Paths \ Hidden, index[p] = Absent
  PROVE  p \in Visible(work)
BY DEF Hidden, Visible

LEMMA PatchRebuilds ==
  ASSUME Inv
  PROVE  PatchRebuildsWorker
<1> SUFFICES ASSUME pc \in Captured, NEW p \in Paths \ Hidden
             PROVE  Patched(head, final.patch)[p] = work[p]
  BY DEF PatchRebuildsWorker
<1> DEFINE now == IF p \in Compared(Worker) THEN work[p] ELSE Absent
<1>1. /\ Worker.tree = work /\ Worker.head = head /\ Worker.index = index
      /\ Worker.indexed = indexed /\ work[p] # Same /\ Absent # Same
  BY WorkerIsTyped, LimitsAssumption DEF Inv
<1>2. final.patch[p] = IF now = head[p] THEN Same ELSE now
  BY <1>1 DEF Inv, Account, Diff
<1>3. now = work[p]
  <2> SUFFICES ASSUME p \notin Compared(Worker) PROVE work[p] = Absent
    OBVIOUS
  <2>1. /\ (IF indexed THEN index ELSE head)[p] = Absent
        /\ p \in Visible(work) => work[p] = Absent
    BY <1>1 DEF Compared
  <2>2. index[p] = Absent
    BY <2>1 DEF Inv, Indexing, Empty
  <2> QED BY <2>1, <2>2, NotHidden
<1> HIDE DEF now
<1>4. Patched(head, final.patch)[p] = now
  BY <1>1, <1>2, <1>3 DEF Patched
<1> QED BY <1>3, <1>4

LEMMA Agree ==
  ASSUME Inv
  PROVE  SurfacesAgree
<1> SUFFICES ASSUME pc \in Captured, NEW p \in Paths, final.patch[p] # Same
             PROVE  p \in final.changed \cup final.away
  BY DEF SurfacesAgree, Touched
<1>1. /\ Worker.tree = work /\ Worker.head = head /\ Worker.index = index
      /\ Worker.indexed = indexed
  BY WorkerIsTyped DEF Inv
<1>2. (IF p \in Compared(Worker) THEN work[p] ELSE Absent) # head[p]
  BY <1>1 DEF Inv, Account, Diff
<1>3. (Staged(Worker) \ final.away) \cup Unstaged(Worker) \cup Untracked(Worker)
        \subseteq final.changed
  BY DEF Inv, Account, ChangedFiles
<1>4. CASE index[p] # head[p]
  BY <1>1, <1>3, <1>4 DEF Staged
<1>5. CASE index[p] = head[p] /\ p \in Compared(Worker)
  <2>1. work[p] # index[p]
    BY <1>2, <1>5
  <2>2. CASE index[p] # Absent
    BY <1>1, <1>3, <2>1, <2>2 DEF Unstaged
  <2>3. CASE index[p] = Absent
    BY <1>1, <1>3, <1>5, <2>1, <2>3 DEF Compared, Untracked
  <2> QED BY <2>2, <2>3
<1>6. CASE index[p] = head[p] /\ p \notin Compared(Worker)
  BY <1>1, <1>2, <1>6 DEF Compared
<1> QED BY <1>4, <1>5, <1>6

LEMMA PlainExactly ==
  ASSUME Inv
  PROVE  PlainWorkerSeenExactly
<1> SUFFICES ASSUME pc \in Captured, plain
             PROVE  /\ final.changed \cap Paths =
                         {p \in Paths \ Hidden : work[p] # delivered[p]}
                    /\ \A p \in Paths \ Hidden :
                         Patched(delivered, final.patch)[p] = work[p]
  BY DEF PlainWorkerSeenExactly
<1>1. /\ Worker.tree = work /\ Worker.head = head /\ Worker.index = index
      /\ Visible(work) \subseteq Paths
  BY WorkerIsTyped DEF Inv
<1>2. /\ head = index /\ Visible(delivered) = Visible(work)
      /\ \A p \in Paths : index[p] = IF p \in Visible(work) THEN delivered[p]
                                     ELSE Absent
  <2>1. pc \notin Before
    BY DEF Captured, Before, Delivering, Undelivered
  <2>2. Visible(delivered) = Visible(work)
    BY <2>1, OpaqueOfMeta DEF Inv, Indexing
  <2> QED BY <2>1, <2>2 DEF Inv, Indexing
<1>3. Staged(Worker) = {}
  BY <1>1, <1>2 DEF Staged
<1>4. final.changed \cap Paths = Unstaged(Worker) \cup Untracked(Worker)
  <2>1. final.changed = (Staged(Worker) \ final.away) \cup Unstaged(Worker)
                          \cup Untracked(Worker) \cup Embedded(Worker)
    BY DEF Inv, Account, ChangedFiles
  <2>2. Embedded(Worker) \cap Paths = {}
    BY LimitsAssumption DEF Embedded
  <2>3. Unstaged(Worker) \cup Untracked(Worker) \subseteq Paths
    BY <1>1 DEF Unstaged, Untracked
  <2> QED BY <1>3, <2>1, <2>2, <2>3
<1>5. ASSUME NEW p \in Paths
      PROVE  p \in Unstaged(Worker) \cup Untracked(Worker) <=>
               p \notin Hidden /\ work[p] # delivered[p]
  <2>1. CASE p \in Visible(work)
    <3>1. p \notin Hidden
      BY <2>1 DEF Visible, Hidden
    <3> QED BY <1>1, <1>2, <2>1, <3>1 DEF Unstaged, Untracked
  <2>2. CASE p \notin Visible(work)
    <3>1. index[p] = Absent
      BY <1>2, <2>2
    <3>2. p \in Hidden
      BY <2>2, <3>1, NotHidden
    <3> QED BY <1>1, <2>2, <3>1, <3>2 DEF Unstaged, Untracked
  <2> QED BY <2>1, <2>2
<1>6. ASSUME NEW p \in Paths \ Hidden
      PROVE  Patched(delivered, final.patch)[p] = work[p]
  <2>1. p \in Visible(work)
    BY <1>2, NotHidden
  <2>2. delivered[p] = head[p]
    BY <1>2, <2>1
  <2>3. Patched(head, final.patch)[p] = work[p]
    BY PatchRebuilds DEF PatchRebuildsWorker
  <2> QED BY <2>2, <2>3 DEF Patched
<1> QED BY <1>4, <1>5, <1>6

-----------------------------------------------------------------------------
(* The events of a worker *)

\* Appending to the trace.
LEMMA Longer ==
  ASSUME NEW t \in Seq(Events), NEW u \in Seq(Events)
  PROVE  /\ t \o u \in Seq(Events)
         /\ DOMAIN (t \o u) = 1 .. Len(t) + Len(u)
         /\ Len(t \o u) = Len(t) + Len(u)
         /\ Len(t) \in Nat /\ Len(u) \in Nat
         /\ DOMAIN t = 1 .. Len(t)
         /\ \A i \in 1 .. Len(t) : (t \o u)[i] = t[i]
         /\ \A i \in 1 .. Len(u) : (t \o u)[Len(t) + i] = u[i]
<1>1. /\ t \o u \in Seq(Events) /\ Len(t \o u) = Len(t) + Len(u)
      /\ \A i \in 1 .. Len(t) + Len(u) :
           (t \o u)[i] = IF i <= Len(t) THEN t[i] ELSE u[i - Len(t)]
  BY ConcatProperties
<1>2. /\ Len(t) \in Nat /\ Len(u) \in Nat /\ DOMAIN t = 1 .. Len(t)
      /\ DOMAIN (t \o u) = 1 .. Len(t \o u)
  BY <1>1, LenProperties
<1>3. ASSUME NEW i \in 1 .. Len(u)
      PROVE  (t \o u)[Len(t) + i] = u[i]
  <2>1. Len(t) + i \in 1 .. Len(t) + Len(u) /\ ~(Len(t) + i <= Len(t))
        /\ Len(t) + i - Len(t) = i
    BY <1>2
  <2> QED BY <1>1, <2>1
<1>4. ASSUME NEW i \in 1 .. Len(t)
      PROVE  (t \o u)[i] = t[i]
  BY <1>1, <1>2
<1> QED BY <1>1, <1>2, <1>3, <1>4

\* Two or three events are a sequence of them.
LEMMA FewEvents ==
  ASSUME NEW x \in Events, NEW y \in Events, NEW z \in Events
  PROVE  /\ <<x>> \in Seq(Events) /\ Len(<<x>>) = 1
         /\ <<x, y>> \in Seq(Events) /\ Len(<<x, y>>) = 2
         /\ <<x, y, z>> \in Seq(Events) /\ Len(<<x, y, z>>) = 3
OBVIOUS

LEMMA EventsAreTyped ==
  ASSUME issued \in Nat
  PROVE  /\ TurnCompleted \in Events /\ Says("right") \in Events
         /\ Says("wrong") \in Events /\ Event("error") \in Events
         /\ Event("turn.failed") \in Events
         /\ Event("malformed") \in Events
         /\ Event("thread.started") \in Events
         /\ CommandEvent("item.started") \in Events
         /\ CommandEvent("item.completed") \in Events
BY DEF Events, TurnCompleted, Says, Event, CommandEvent

LEMMA ClosingIsTyped ==
  ASSUME issued \in Nat, NEW how \in Closings
  PROVE  Closing(how) \in Seq(Events)
<1> USE EventsAreTyped, FewEvents
<1>1. CASE how = "right"
  BY <1>1 DEF Closing
<1>2. CASE how = "wrong"
  BY <1>2 DEF Closing
<1>3. CASE how = "recovered"
  BY <1>3 DEF Closing
<1>4. CASE how = "failed"
  BY <1>4 DEF Closing
<1>5. CASE how = "torn"
  BY <1>5 DEF Closing
<1>6. CASE how = "cut"
  BY <1>6 DEF Closing
<1> QED BY <1>1, <1>2, <1>3, <1>4, <1>5, <1>6 DEF Closings

\* A message and the end of the turn after it.
LEMMA CleanEnd ==
  ASSUME TypeOK, Plodding, NEW text \in {"right", "wrong"},
         NEW first \in {"right", "wrong"},
         trace' = trace \o <<Says(first), Says(text), TurnCompleted>>,
         UNCHANGED <<issued, case>>
  PROVE  TraceSound'
<1>1. issued \in Nat /\ trace \in Seq(Events) /\ case.limit \in Nat
  BY CaseFacts DEF TypeOK
<1> DEFINE n == Len(trace)
           u == <<Says(first), Says(text), TurnCompleted>>
<1>2. u \in Seq(Events) /\ Len(u) = 3
  BY <1>1, EventsAreTyped, FewEvents
<1>3. /\ DOMAIN trace' = 1 .. n + 3 /\ Len(trace') = n + 3 /\ n \in Nat
      /\ DOMAIN trace = 1 .. n
      /\ \A i \in 1 .. n : trace'[i] = trace[i]
      /\ trace'[n + 1] = Says(first) /\ trace'[n + 2] = Says(text)
      /\ trace'[n + 3] = TurnCompleted
  <2>1. /\ u[1] = Says(first) /\ u[2] = Says(text) /\ u[3] = TurnCompleted
        /\ 1 \in 1 .. 3 /\ 2 \in 1 .. 3 /\ 3 \in 1 .. 3
    OBVIOUS
  <2> HIDE DEF u
  <2>2. trace' = trace \o u
    BY DEF u
  <2> QED BY <1>1, <1>2, <2>1, <2>2, Longer
<1> HIDE DEF n, u
<1>4. \A i \in 1 .. n + 3 : i \in 1 .. n \/ i \in {n + 1, n + 2, n + 3}
  <2>1. n \in Nat
    BY <1>3
  <2> QED BY <2>1
<1>5. 1 .. n \subseteq 1 .. n + 3 /\ {n + 1, n + 2, n + 3} \subseteq 1 .. n + 3
  <2>1. n \in Nat
    BY <1>3
  <2> QED BY <2>1
<1>6. Commands' = 0 .. issued - 1
  <2>1. Says(first).item = "agent_message" /\ Says(text).item = "agent_message"
        /\ TurnCompleted.item = "none"
    BY DEF TurnCompleted, Says, Event, CommandEvent
  <2>2. {j \in DOMAIN trace' : trace'[j].item = "command_execution"}
          = {j \in DOMAIN trace : trace[j].item = "command_execution"}
    <3>1. \A j \in 1 .. n : trace'[j] = trace[j]
      BY <1>3
    <3>2. /\ trace'[n + 1].item # "command_execution"
          /\ trace'[n + 2].item # "command_execution"
          /\ trace'[n + 3].item # "command_execution"
      BY <1>3, <2>1
    <3>3. DOMAIN trace' = 1 .. n + 3 /\ DOMAIN trace = 1 .. n
      BY <1>3
    <3>4. ASSUME NEW j \in DOMAIN trace', trace'[j].item = "command_execution"
          PROVE  j \in DOMAIN trace /\ trace[j].item = "command_execution"
      <4>1. j \in 1 .. n
        BY <1>4, <3>2, <3>3, <3>4, Zenon
      <4> QED BY <3>1, <3>3, <3>4, <4>1, Zenon
    <3>5. ASSUME NEW j \in DOMAIN trace, trace[j].item = "command_execution"
          PROVE  j \in DOMAIN trace' /\ trace'[j].item = "command_execution"
      <4>1. j \in 1 .. n /\ j \in 1 .. n + 3
        BY <1>5, <3>3
      <4>2. trace'[j] = trace[j]
        BY <3>1, <4>1, Zenon
      <4> QED BY <3>3, <3>5, <4>1, <4>2, Zenon
    <3> QED BY <3>4, <3>5, Zenon
  <2>3. Commands' = Commands
    BY <1>3, <2>2 DEF Commands
  <2> QED BY <2>3 DEF Plodding
<1>7. Cardinality(Commands)' = issued
  <2>1. Cardinality(0 .. issued - 1)
          = IF 0 > issued - 1 THEN 0 ELSE (issued - 1) - 0 + 1
    BY <1>1, FS_Interval
  <2> QED BY <1>1, <1>6, <2>1
<1>8. \A i \in DOMAIN trace' :
        trace'[i].type \notin {"error", "turn.failed", "malformed"}
  <2> SUFFICES ASSUME NEW i \in DOMAIN trace'
               PROVE  trace'[i].type \notin {"error", "turn.failed", "malformed"}
    OBVIOUS
  <2>1. CASE i \in 1 .. n
    BY <1>3, <2>1 DEF Plodding
  <2>2. CASE i \in {n + 1, n + 2, n + 3}
    BY <1>3, <2>2 DEF TurnCompleted, Says, Event, CommandEvent
  <2> QED BY <1>3, <1>4, <2>1, <2>2
<1>9. FinalMessage' = text
  <2>1. Messages' = {n + 1, n + 2}
    <3>1. \A i \in 1 .. n : trace'[i].item # "agent_message"
      BY <1>3 DEF Plodding
    <3>2. /\ trace'[n + 1].item = "agent_message"
          /\ trace'[n + 2].item = "agent_message"
          /\ trace'[n + 3].item # "agent_message"
      BY <1>3 DEF TurnCompleted, Says, Event, CommandEvent
    <3>3. Messages' = {i \in DOMAIN trace' : trace'[i].item = "agent_message"}
      BY DEF Messages
    <3>4. \A i \in DOMAIN trace' : i \in 1 .. n \/ i \in {n + 1, n + 2, n + 3}
      BY <1>3, <1>4, Zenon
    <3>5. n + 1 \in DOMAIN trace' /\ n + 2 \in DOMAIN trace'
      BY <1>3, <1>5, Zenon
    <3> QED
      <4>1. \A i \in DOMAIN trace' : trace'[i].item = "agent_message"
              => i \in {n + 1, n + 2}
        BY <3>1, <3>2, <3>4, Zenon
      <4> QED BY <3>2, <3>3, <3>5, <4>1, Zenon
  <2>2. Max({n + 1, n + 2}) = n + 2
    BY <1>3 DEF Max
  <2>3. Says(text).text = text
    BY DEF TurnCompleted, Says, Event, CommandEvent
  <2> QED BY <1>3, <2>1, <2>2, <2>3 DEF FinalMessage
<1>10. text = "right" => trace'[Len(trace') - 1] = Says("right")
  BY <1>3
<1> QED BY <1>1, <1>3, <1>7, <1>8, <1>9, <1>10 DEF TraceSound, TraceHolds, CleanTrace

\* Any other end of the trace holds an event that the assertions reject, or no
\* end of the turn.
LEMMA OddEnd ==
  ASSUME TypeOK, Plodding, NEW how \in {"recovered", "failed", "torn", "cut"},
         trace' = trace \o Closing(how)
  PROVE  ~TraceHolds'
<1>1. issued \in Nat /\ trace \in Seq(Events) /\ how \in Closings
  BY DEF TypeOK, Closings
<1>2. Closing(how) \in Seq(Events)
  BY <1>1, ClosingIsTyped
<1>3. /\ \A i \in 1 .. Len(Closing(how)) :
           /\ Len(trace) + i \in DOMAIN trace'
           /\ trace'[Len(trace) + i] = Closing(how)[i]
      /\ \A i \in DOMAIN trace' :
           \/ i \in DOMAIN trace /\ trace'[i] = trace[i]
           \/ \E j \in 1 .. Len(Closing(how)) : trace'[i] = Closing(how)[j]
  <2> DEFINE u == Closing(how)
  <2> HIDE DEF u
  <2>1. /\ DOMAIN trace' = 1 .. Len(trace) + Len(u)
        /\ Len(trace) \in Nat /\ Len(u) \in Nat /\ DOMAIN trace = 1 .. Len(trace)
        /\ \A i \in 1 .. Len(trace) : trace'[i] = trace[i]
        /\ \A i \in 1 .. Len(u) : trace'[Len(trace) + i] = u[i]
    BY <1>1, <1>2, Longer DEF u
  <2>2. ASSUME NEW i \in DOMAIN trace', i \notin DOMAIN trace
        PROVE  \E j \in 1 .. Len(u) : trace'[i] = u[j]
    <3>1. i - Len(trace) \in 1 .. Len(u) /\ Len(trace) + (i - Len(trace)) = i
      BY <2>1, <2>2
    <3> QED BY <2>1, <3>1
  <2> QED BY <2>1, <2>2 DEF u
<1>4. CASE how = "recovered"
  <2>1. Closing(how)[1].type = "error" /\ 1 \in 1 .. Len(Closing(how))
    BY <1>4 DEF Closing, TurnCompleted, Says, Event, CommandEvent
  <2>2. Seen("error")'
    BY <1>3, <2>1 DEF Seen
  <2> QED BY <2>2 DEF TraceHolds
<1>5. CASE how = "failed"
  <2>1. Closing(how)[2].type = "turn.failed" /\ 2 \in 1 .. Len(Closing(how))
    BY <1>5 DEF Closing, TurnCompleted, Says, Event, CommandEvent
  <2>2. Seen("turn.failed")'
    BY <1>3, <2>1 DEF Seen
  <2> QED BY <2>2 DEF TraceHolds
<1>6. CASE how = "torn"
  <2>1. Closing(how)[3].type = "malformed" /\ 3 \in 1 .. Len(Closing(how))
    BY <1>6 DEF Closing, TurnCompleted, Says, Event, CommandEvent
  <2>2. Seen("malformed")'
    BY <1>3, <2>1 DEF Seen
  <2> QED BY <2>2 DEF TraceHolds
<1>7. CASE how = "cut"
  <2>1. \A j \in 1 .. 2 : Closing(how)[j].type # "turn.completed"
    BY <1>7 DEF Closing, TurnCompleted, Says, Event, CommandEvent
  <2>2. Len(Closing(how)) = 2
    BY <1>7 DEF Closing
  <2>3. ASSUME NEW i \in DOMAIN trace'
        PROVE  trace'[i].type # "turn.completed"
    <3>1. CASE i \in DOMAIN trace /\ trace'[i] = trace[i]
      BY <3>1 DEF Plodding
    <3>2. CASE \E j \in 1 .. 2 : trace'[i] = Closing(how)[j]
      BY <2>1, <3>2
    <3> QED BY <1>3, <2>2, <3>1, <3>2
  <2>4. ~Seen("turn.completed")'
    BY <2>3 DEF Seen
  <2> QED BY <2>4 DEF TraceHolds
<1> QED BY <1>4, <1>5, <1>6, <1>7

-----------------------------------------------------------------------------
(* The steps *)

LEMMA Initially == Init => Inv
<1> SUFFICES ASSUME Init PROVE Inv
  OBVIOUS
<1>1. DeliveryInv /\ pc = "fixture" /\ indexed = FALSE /\ index = Empty
  BY DeliveryStarts DEF Init, DeliveryInit
<1>2. TypeOK
  <2>1. <<job, case>> \in Scenarios
    BY CasesAssumption DEF Init
  <2>2. trace \in Seq(Events) /\ issued \in Nat /\ plain \in BOOLEAN
    BY EmptySeq DEF Init
  <2>3. /\ final \in [changed: SUBSET (Paths \cup {MountPoint}),
                      patch: [Paths -> Contents \cup {Absent, Same}],
                      away: SUBSET Paths]
    BY DEF Init, Empty
  <2>4. material \in [status: {"none", "staging", "sealed"}, count: Nat,
                      total: Nat, dir: [Paths -> Contents \cup {Absent, Manifest}],
                      listed: Trees]
    BY Kinds DEF Init, NoMaterial, Trees
  <2>5. results \in Seq([passed: BOOLEAN, mutated: BOOLEAN,
                         derived: SUBSET Paths])
    BY EmptySeq DEF Init
  <2>6. verdict \in [files: BOOLEAN, passed: BOOLEAN, supported: BOOLEAN]
    BY DEF Init
  <2> QED BY <1>1, <2>1, <2>2, <2>3, <2>4, <2>5, <2>6
          DEF TypeOK, DeliveryInv, Delivering
<1>3. Indexing /\ Account /\ Telling
  BY <1>1 DEF Init, Indexing, Account, Telling, Before, Delivering, Captured
<1>4. Judged
  <2>1. results = <<>> /\ verdict.files = FALSE /\ verdict.supported = FALSE
    BY DEF Init
  <2>2. case.commands \in Seq(Programs)
    BY <1>2, CaseFacts
  <2>3. Len(results) = 0 /\ Len(case.commands) \in Nat
    BY <2>1, <2>2, LenProperties
  <2> QED BY <2>1, <2>3
          DEF Judged, SupportedRestsOnWorker, SupportedNeedsCleanTrace
<1> QED BY <1>1, <1>2, <1>3, <1>4 DEF Inv

\* Of the delivery the rest needs only this.
LEMMA DeliveryFrame ==
  ASSUME DeliveryInv, DeliveryNext
  PROVE  /\ pc \in Delivering /\ pc' \in Before \cup {"ready"}
         /\ job' = job
         /\ pc' # "ready" => UNCHANGED gitVars
         /\ pc' = "ready" =>
              /\ indexed' /\ head' = index' /\ delivered' = work /\ work' = work
              /\ index' = [p \in Paths |-> IF p \in Visible(work) THEN work[p]
                                           ELSE Absent]
<1>1. CASE \E p \in Paths, c \in Files \cup Links \cup {Absent} : Edit(p, c)
  BY <1>1 DEF Edit, Delivering, Before
<1>2. CASE CopyFixture
  BY <1>2 DEF CopyFixture, Preflight, Delivering, Undelivered, Before
<1>3. CASE BeginCopy
  BY <1>3 DEF BeginCopy, Preflight, Delivering, Undelivered, Before
<1>4. CASE \E p \in Paths : ListEntry(p)
  BY <1>4 DEF ListEntry, Delivering, Before
<1>5. CASE \E p \in Paths : CopyEntry(p)
  BY <1>5 DEF CopyEntry, Copied, Preflight, Delivering, Undelivered, Before
<1>6. CASE Measure
  BY <1>6 DEF Measure, Preflight, Delivering, Undelivered, Before
<1>7. CASE InitGit
  BY <1>7 DEF InitGit, Preflight, Delivering, Undelivered, Before
<1>8. CASE DeliveryFails
  BY <1>8 DEF DeliveryFails, Preflight, Delivering, Undelivered, Before
<1> QED BY <1>1, <1>2, <1>3, <1>4, <1>5, <1>6, <1>7, <1>8 DEF DeliveryNext

LEMMA DeliveryStep ==
  ASSUME Inv, DeliveryNext, UNCHANGED <<case, trace, issued, plain, sealVars>>
  PROVE  Inv'
<1>1. DeliveryInv'
  BY DeliverySteps DEF Inv
<1>2. /\ pc \in Delivering /\ pc' \in Before \cup {"ready"} /\ job' = job
      /\ pc' # "ready" => UNCHANGED gitVars
      /\ pc' = "ready" =>
           /\ indexed' /\ head' = index' /\ delivered' = work /\ work' = work
           /\ index' = [p \in Paths |-> IF p \in Visible(work) THEN work[p]
                                        ELSE Absent]
  BY DeliveryFrame DEF Inv
<1>3. /\ pc \notin {"commands", "completed", "stopped"}
      /\ pc' \notin {"commands", "completed", "stopped"} \cup Captured
      /\ pc' \notin {"working", "ended", "evidence-failed"}
  BY <1>2 DEF Before, Delivering, Undelivered, Captured
<1>4. TypeOK'
  BY <1>1, <1>2 DEF Inv, TypeOK, DeliveryInv, sealVars, Before
<1>5. Indexing'
  <2>1. CASE pc' # "ready"
    <3>1. pc' \in Before
      BY <1>2, <2>1
    <3> QED BY <1>2, <2>1, <3>1 DEF Inv, Indexing, gitVars, Empty, Before,
                                    Delivering, Undelivered
  <2>2. CASE pc' = "ready"
    <3>1. Visible(delivered)' = Visible(work)
      BY <1>2, <2>2 DEF Visible, Opaque
    <3> QED BY <1>2, <2>2, <3>1 DEF Indexing
  <2> QED BY <2>1, <2>2
<1>6. Account' /\ Telling'
  BY <1>2, <1>3 DEF Inv, Account, Telling, Before, Delivering, Undelivered
<1>7. Judged'
  <2>1. results' = <<>> /\ ~verdict'.files /\ ~verdict'.supported
        /\ UNCHANGED <<results, case>>
    BY <1>3 DEF Inv, Judged, sealVars
  <2> QED BY <1>3, <2>1, EmptySeq
          DEF Inv, Judged, SupportedRestsOnWorker, SupportedNeedsCleanTrace
<1> QED BY <1>1, <1>4, <1>5, <1>6, <1>7 DEF Inv

\* The worker disturbs nothing that the delivery holds, and nothing is captured
\* or judged yet.
LEMMA WorkerFrame ==
  ASSUME Inv, pc \in {"ready", "working"}, pc' \in {"working", "ended"},
         UNCHANGED <<job, source, entry, delivered, case, sealVars>>,
         moves' \in {moves, moves + 1}, moves' <= MaxMoves,
         work' \in Trees, WellFormed(work)', head' \in Trees, index' \in Trees,
         indexed' \in BOOLEAN, plain' \in BOOLEAN, issued' \in Nat,
         trace' \in Seq(Events)
  PROVE  TypeOK' /\ DeliveryInv' /\ Account' /\ Judged'
<1>1. moves' \in 0 .. MaxMoves /\ (moves' = 0 => moves = 0)
  BY Kinds DEF Inv, TypeOK, DeliveryTypeOK
<1>2. DeliveryTypeOK'
  BY <1>1 DEF Inv, TypeOK, DeliveryTypeOK
<1>3. Sourced' /\ Stepwise'
  BY <1>1 DEF Inv, DeliveryInv, Sourced, Stepwise
<1>4. DeliveryInv'
  BY <1>2, <1>3 DEF Inv, DeliveryInv, Outside, Inside, WorkerStartsAsPlanned,
                    DriftIsReal, SameBytes, Delivering, Undelivered
<1>5. TypeOK'
  BY <1>2 DEF Inv, TypeOK, sealVars
<1>6. Judged'
  <2>1. results' = <<>> /\ ~verdict'.files /\ ~verdict'.supported
        /\ UNCHANGED <<results, case>>
    BY DEF Inv, Judged, sealVars
  <2> QED BY <2>1, EmptySeq
          DEF Inv, Judged, SupportedRestsOnWorker, SupportedNeedsCleanTrace
<1> QED BY <1>4, <1>5, <1>6 DEF Account, Captured

LEMMA StartStep ==
  ASSUME Inv, StartWorker
  PROVE  Inv'
<1>1. /\ pc = "ready" /\ pc' = "working"
      /\ trace' = <<Event("thread.started")>>
      /\ UNCHANGED <<job, source, entry, work, delivered, head, index, indexed,
                     moves, case, issued, plain, sealVars>>
  BY DEF StartWorker, gitVars
<1>2. trace' \in Seq(Events) /\ Len(trace') = 1
  BY <1>1, EventsAreTyped, FewEvents DEF Inv, TypeOK
<1>3. TypeOK' /\ DeliveryInv' /\ Account' /\ Judged'
  BY <1>1, <1>2, WorkerFrame, Kinds
  DEF Inv, TypeOK, DeliveryTypeOK, WellFormed
<1>4. Indexing'
  BY <1>1 DEF Inv, Indexing, Before, Delivering, Undelivered, Visible, Opaque
<1>5. issued = 0
  BY <1>1 DEF Inv, Telling
<1>6. \A i \in DOMAIN trace' : trace'[i].type = "thread.started"
                               /\ trace'[i].item = "none"
  BY <1>1 DEF TurnCompleted, Says, Event, CommandEvent
<1>7. Commands' = {} /\ 0 .. issued - 1 = {}
  BY <1>5, <1>6 DEF Commands
<1>8. Plodding'
  BY <1>1, <1>6, <1>7 DEF Plodding
<1> QED BY <1>1, <1>3, <1>4, <1>8 DEF Inv, Telling, Before, Delivering, Undelivered

\* A command adds two events and its number.
LEMMA CommandTold ==
  ASSUME Inv, Command
  PROVE  /\ pc = "working" /\ pc' = pc /\ Telling'
         /\ moves' = moves + 1 /\ moves' <= MaxMoves
         /\ issued' \in Nat /\ trace' \in Seq(Events)
         /\ UNCHANGED <<job, source, entry, delivered, case, sealVars>>
<1>1. /\ pc = "working" /\ pc' = pc /\ issued' = issued + 1
      /\ moves' = moves + 1 /\ moves < MaxMoves
      /\ UNCHANGED <<job, source, entry, delivered, case, sealVars>>
  BY DEF Command
<1>2. issued \in Nat /\ trace \in Seq(Events) /\ moves \in Nat /\ Plodding
  BY <1>1 DEF Inv, TypeOK, DeliveryTypeOK, Telling
<1> DEFINE n == Len(trace)
           u == <<CommandEvent("item.started"), CommandEvent("item.completed")>>
<1>3. u \in Seq(Events) /\ Len(u) = 2
  BY <1>2, EventsAreTyped, FewEvents
<1>4. /\ u[1] = CommandEvent("item.started")
      /\ u[2] = CommandEvent("item.completed")
      /\ 1 \in 1 .. 2 /\ 2 \in 1 .. 2 /\ trace' = trace \o u
  BY DEF Command
<1> HIDE DEF u
<1>5. /\ trace' \in Seq(Events)
      /\ DOMAIN trace' = 1 .. n + 2 /\ n \in Nat /\ DOMAIN trace = 1 .. n
      /\ \A i \in 1 .. n : trace'[i] = trace[i]
      /\ trace'[n + 1] = CommandEvent("item.started")
      /\ trace'[n + 2] = CommandEvent("item.completed")
  <2>1. /\ trace \o u \in Seq(Events)
        /\ DOMAIN (trace \o u) = 1 .. Len(trace) + Len(u)
        /\ Len(trace) \in Nat /\ DOMAIN trace = 1 .. Len(trace)
        /\ \A i \in 1 .. Len(trace) : (trace \o u)[i] = trace[i]
        /\ \A i \in 1 .. Len(u) : (trace \o u)[Len(trace) + i] = u[i]
    BY <1>2, <1>3, Longer
  <2> QED BY <1>3, <1>4, <2>1
<1> HIDE DEF n
<1>6. \A i \in DOMAIN trace' : i \in DOMAIN trace \/ i \in {n + 1, n + 2}
  BY <1>5
<1>7. ASSUME NEW i \in DOMAIN trace'
      PROVE  /\ trace'[i].type \in
                  {"thread.started", "item.started", "item.completed"}
             /\ trace'[i].item \in {"none", "command_execution"}
  <2>1. CASE i \in DOMAIN trace
    BY <1>2, <1>5, <2>1 DEF Plodding
  <2>2. CASE i \in {n + 1, n + 2}
    BY <1>5, <2>2 DEF CommandEvent
  <2> QED BY <1>6, <2>1, <2>2
<1>8. Commands' = 0 .. issued' - 1
  <2>1. Commands' = Commands \cup {issued}
    <3>1. /\ trace'[n + 1].id = issued /\ trace'[n + 2].id = issued
          /\ trace'[n + 1].item = "command_execution"
          /\ trace'[n + 2].item = "command_execution"
      BY <1>5 DEF CommandEvent
    <3>2. n + 1 \in DOMAIN trace' /\ DOMAIN trace \subseteq DOMAIN trace'
      BY <1>5
    <3>3. {j \in DOMAIN trace' : trace'[j].item = "command_execution"}
            = {j \in DOMAIN trace : trace[j].item = "command_execution"}
                \cup {n + 1, n + 2}
      BY <1>5, <1>6, <3>1
    <3>4. \A j \in DOMAIN trace : trace'[j] = trace[j]
      BY <1>5
    <3> QED BY <3>1, <3>3, <3>4 DEF Commands
  <2> QED BY <1>1, <1>2, <2>1 DEF Plodding
<1>9. Telling'
  BY <1>1, <1>7, <1>8 DEF Telling, Plodding, Before, Delivering, Undelivered
<1>10. moves' <= MaxMoves /\ issued' \in Nat
  BY <1>1, <1>2, Kinds
<1> QED BY <1>1, <1>5, <1>9, <1>10

\* A step of the worker that leaves the .git entries alone keeps everything, if
\* what it makes of the index is an index.
LEMMA CommandKeeps ==
  ASSUME Inv, Command,
         work' \in Trees, WellFormed(work)', head' \in Trees, index' \in Trees,
         indexed' \in BOOLEAN, plain' \in BOOLEAN,
         \A p \in Meta : work'[p] = work[p],
         ~indexed' => index' = Empty,
         plain' => plain /\ UNCHANGED gitVars
  PROVE  Inv'
<1>1. /\ pc = "working" /\ pc' = pc /\ Telling'
      /\ moves' = moves + 1 /\ moves' <= MaxMoves
      /\ issued' \in Nat /\ trace' \in Seq(Events)
      /\ UNCHANGED <<job, source, entry, delivered, case, sealVars>>
  BY CommandTold
<1>2. TypeOK' /\ DeliveryInv' /\ Account' /\ Judged'
  BY <1>1, WorkerFrame
<1>3. Indexing'
  <2>1. pc \notin Before /\ Visible(delivered)' = Visible(delivered)
    BY <1>1 DEF Before, Delivering, Undelivered, Visible, Opaque
  <2> QED BY <1>1, <2>1 DEF Inv, Indexing, gitVars, Empty
<1> QED BY <1>1, <1>2, <1>3 DEF Inv

LEMMA StatesOfGit ==
  ASSUME Inv
  PROVE  /\ work \in Trees /\ WellFormed(work) /\ head \in Trees
         /\ index \in Trees /\ indexed \in BOOLEAN /\ plain \in BOOLEAN
         /\ ~indexed => index = Empty
         /\ case.touch \subseteq Paths /\ case.touch \cap Meta = {}
BY CaseFacts DEF Inv, TypeOK, DeliveryTypeOK, Indexing

LEMMA WriteStep ==
  ASSUME Inv, NEW p \in Paths, NEW c \in Files \cup Links \cup {Absent},
         Write(p, c)
  PROVE  Inv'
<1>1. /\ Command /\ p \in case.touch
      /\ work' = [work EXCEPT ![p] = c] /\ WellFormed(work')
      /\ UNCHANGED <<head, index, indexed, plain>>
  BY DEF Write, gitVars
<1>2. work' \in Trees
  BY <1>1, StatesOfGit, Kinds DEF Trees
<1>3. \A q \in Meta : work'[q] = work[q]
  BY <1>1, StatesOfGit DEF Trees
<1>4. WellFormed(work)'
  BY <1>1 DEF WellFormed
<1> QED BY <1>1, <1>2, <1>3, <1>4, StatesOfGit, CommandKeeps DEF gitVars, Empty

LEMMA StageStep ==
  ASSUME Inv, NEW p \in Paths, Stage(p)
  PROVE  Inv'
<1>1. /\ Command /\ plain' = FALSE /\ indexed' = TRUE
      /\ index' = [index EXCEPT ![p] = work[p]]
      /\ UNCHANGED <<work, head>>
  BY DEF Stage, GitCommand
<1>2. index' \in Trees
  BY <1>1, StatesOfGit DEF Trees
<1>3. WellFormed(work)'
  BY <1>1, StatesOfGit DEF WellFormed
<1> QED BY <1>1, <1>2, <1>3, StatesOfGit, CommandKeeps

LEMMA UntrackStep ==
  ASSUME Inv, NEW p \in Paths, Untrack(p)
  PROVE  Inv'
<1>1. /\ Command /\ plain' = FALSE /\ index[p] # Absent
      /\ index' = [index EXCEPT ![p] = Absent]
      /\ UNCHANGED <<work, head, indexed>>
  BY DEF Untrack, GitCommand
<1>2. index' \in Trees /\ indexed
  BY <1>1, StatesOfGit DEF Trees, Empty
<1>3. WellFormed(work)'
  BY <1>1, StatesOfGit DEF WellFormed
<1> QED BY <1>1, <1>2, <1>3, StatesOfGit, CommandKeeps

LEMMA RenameStep ==
  ASSUME Inv, NEW p \in Paths, NEW q \in Paths, Rename(p, q)
  PROVE  Inv'
<1>1. /\ Command /\ plain' = FALSE /\ index[p] # Absent
      /\ {p, q} \subseteq case.touch
      /\ work' = [work EXCEPT ![p] = Absent, ![q] = work[p]] /\ WellFormed(work')
      /\ index' = [index EXCEPT ![p] = Absent, ![q] = index[p]]
      /\ UNCHANGED <<head, indexed>>
  BY DEF Rename, GitCommand
<1>2. index' \in Trees /\ work' \in Trees
  <2>1. index[p] \in Contents \cup {Absent} /\ work[p] \in Contents \cup {Absent}
    BY StatesOfGit DEF Trees
  <2>2. [index EXCEPT ![p] = Absent] \in Trees
        /\ [work EXCEPT ![p] = Absent] \in Trees
    BY StatesOfGit DEF Trees
  <2> QED BY <1>1, <2>1, <2>2 DEF Trees
<1>3. \A m \in Meta : work'[m] = work[m]
  <2> SUFFICES ASSUME NEW m \in Meta PROVE work'[m] = work[m]
    OBVIOUS
  <2>1. m \in Paths /\ m # p /\ m # q
    BY <1>1, StatesOfGit, Kinds
  <2> QED BY <1>1, <2>1, StatesOfGit DEF Trees
<1>4. WellFormed(work)' /\ indexed
  BY <1>1, StatesOfGit DEF WellFormed, Empty
<1> QED BY <1>1, <1>2, <1>3, <1>4, StatesOfGit, CommandKeeps

LEMMA CommitStep ==
  ASSUME Inv, Commit
  PROVE  Inv'
<1>1. /\ Command /\ plain' = FALSE /\ indexed /\ head' = index
      /\ UNCHANGED <<work, index, indexed>>
  BY DEF Commit, GitCommand
<1>2. WellFormed(work)'
  BY <1>1, StatesOfGit DEF WellFormed
<1> QED BY <1>1, <1>2, StatesOfGit, CommandKeeps

LEMMA DropStep ==
  ASSUME Inv, DropIndex
  PROVE  Inv'
<1>1. /\ Command /\ plain' = FALSE /\ index' = Empty /\ indexed' = FALSE
      /\ UNCHANGED <<work, head>>
  BY DEF DropIndex, GitCommand
<1>2. WellFormed(work)'
  BY <1>1, StatesOfGit DEF WellFormed
<1>3. index' = Empty'
  BY <1>1 DEF Empty
<1> QED BY <1>1, <1>2, <1>3, StatesOfGit, Kinds, CommandKeeps

LEMMA EndStep ==
  ASSUME Inv, NEW how \in Closings, WorkerEnds(how)
  PROVE  Inv'
<1>1. /\ pc = "working" /\ pc' = "ended" /\ trace' = trace \o Closing(how)
      /\ issued' = issued + (IF how = "cut" THEN 1 ELSE 0)
      /\ UNCHANGED <<job, source, entry, work, delivered, head, index, indexed,
                     moves, case, plain, sealVars>>
  BY DEF WorkerEnds, gitVars
<1>2. issued \in Nat /\ trace \in Seq(Events) /\ TypeOK /\ Plodding
  BY <1>1 DEF Inv, TypeOK, Telling
<1>3. trace' \in Seq(Events) /\ issued' \in Nat
  BY <1>1, <1>2, ClosingIsTyped, Longer
<1>4. TypeOK' /\ DeliveryInv' /\ Account' /\ Judged'
  BY <1>1, <1>3, WorkerFrame, StatesOfGit, Kinds
  DEF Inv, TypeOK, DeliveryTypeOK, WellFormed
<1>5. Indexing'
  BY <1>1 DEF Inv, Indexing, Before, Delivering, Undelivered, Visible, Opaque,
              Empty
<1>6. TraceSound'
  <2>1. CASE how = "right"
    BY <1>1, <1>2, <2>1, CleanEnd DEF Closing
  <2>2. CASE how = "wrong"
    BY <1>1, <1>2, <2>2, CleanEnd DEF Closing
  <2>3. CASE how \in {"recovered", "failed", "torn", "cut"}
    BY <1>1, <1>2, <2>3, OddEnd DEF TraceSound
  <2> QED BY <2>1, <2>2, <2>3 DEF Closings
<1>7. Telling'
  BY <1>1, <1>6 DEF Telling, Before, Delivering, Undelivered
<1> QED BY <1>4, <1>5, <1>7 DEF Inv

\* Every step of the worker.
LEMMA WorkStep ==
  ASSUME Inv, Work
  PROVE  Inv'
BY StartStep, WriteStep, StageStep, UntrackStep, RenameStep, CommitStep,
   DropStep, EndStep DEF Work

-----------------------------------------------------------------------------
(* Once the worker has ended *)

sealedFrame == <<job, source, entry, work, delivered, gitVars, moves, case,
                 trace, issued, plain>>

\* Everything but what is captured and judged stays as it is.
LEMMA Settled ==
  ASSUME Inv, UNCHANGED sealedFrame,
         pc \in {"ended", "sealing", "checking", "commands"},
         pc' \in Captured \cup {"stopped", "evidence-failed"}
  PROVE  /\ DeliveryInv' /\ Indexing' /\ Telling'
         /\ Worker' = Worker /\ Hidden' = Hidden
         /\ pc \notin Before /\ pc' \notin Before
<1>1. /\ pc \notin Before \cup {"ready", "working"}
      /\ pc' \notin Before \cup {"ready", "working"}
  BY DEF Captured, Before, Delivering, Undelivered
<1>2. UNCHANGED <<job, source, entry, work, delivered, head, index, indexed,
                  moves, case, trace, issued, plain>>
  BY DEF sealedFrame, gitVars
<1>3. DeliveryTypeOK' /\ Sourced' /\ Stepwise' /\ Outside' /\ Inside'
  BY <1>1, <1>2 DEF Inv, DeliveryInv, DeliveryTypeOK, Sourced, Stepwise, Outside,
                    Inside, WellFormed, Before, Delivering
<1>4. DeliveryInv'
  BY <1>1, <1>2, <1>3
  DEF Inv, DeliveryInv, WorkerStartsAsPlanned, DriftIsReal, SameBytes, Before,
      Delivering, Undelivered
<1>5. Indexing'
  BY <1>1, <1>2 DEF Inv, Indexing, Empty, Visible, Opaque
<1>6. TraceSound' <=> TraceSound
  BY <1>2 DEF TraceSound, TraceHolds, CleanTrace, FinalMessage, Messages, Seen,
              Commands
<1>7. Telling'
  BY <1>1, <1>6 DEF Inv, Telling
<1>8. Worker' = Worker /\ Hidden' = Hidden
  BY <1>2 DEF Worker, Hidden, Opaque
<1> QED BY <1>1, <1>4, <1>5, <1>7, <1>8

\* What was captured stays captured.
LEMMA AccountStays ==
  ASSUME Inv, UNCHANGED <<sealedFrame, final>>, pc \in Captured
  PROVE  Account'
<1>1. UNCHANGED <<job, work, delivered, head, index, indexed, final>>
  BY DEF sealedFrame, gitVars
<1>2. Worker' = Worker
  BY <1>1 DEF Worker
<1>3. /\ Diff(Worker)' = Diff(Worker)
      /\ RenamedAway(Worker)' = RenamedAway(Worker)
      /\ ChangedFiles(Worker, final.away)' = ChangedFiles(Worker, final.away)
  BY <1>1, <1>2 DEF Diff, Compared, Visible, Opaque, RenamedAway, Removed, Added,
                    ChangedFiles, Staged, Unstaged, Untracked, Embedded
<1> QED BY <1>1, <1>3 DEF Inv, Account

\* The results stay right as long as nothing they are about moves.
LEMMA ResultsStay ==
  ASSUME Inv, UNCHANGED <<job, work, index, case, results>>
  PROVE  /\ \A i \in DOMAIN results' :
              /\ results'[i].passed => May(work, case.commands[i].needs)'
              /\ Charged(results[i], case.commands[i])'
         /\ verdict.files => May(work, case.equals)'
<1>1. \A i \in DOMAIN results' :
        /\ results'[i].passed => May(work, case.commands[i].needs)'
        /\ Charged(results[i], case.commands[i])'
  <2>1. Hidden' = Hidden
    BY DEF Hidden, Opaque
  <2>2. ASSUME NEW i \in DOMAIN results
        PROVE  /\ Charged(results[i], case.commands[i])' <=>
                    Charged(results[i], case.commands[i])
               /\ May(work, case.commands[i].needs)' <=>
                    May(work, case.commands[i].needs)
    <3>1. Edited(case.commands[i], work)' = Edited(case.commands[i], work)
      BY DEF Edited
    <3>2. Charged(results[i], case.commands[i])' <=>
            Charged(results[i], case.commands[i])
      BY <2>1, <3>1 DEF Charged
    <3>3. May(work, case.commands[i].needs)' <=> May(work, case.commands[i].needs)
      BY DEF May, Opened
    <3> QED BY <3>2, <3>3
  <2> QED BY <2>2 DEF Inv, Judged
<1>2. verdict.files => May(work, case.equals)'
  BY DEF Inv, Judged, May, Opened
<1> QED BY <1>1, <1>2

\* Without a new result or verdict the judgment stays.
LEMMA JudgmentStays ==
  ASSUME Inv, UNCHANGED <<sealedFrame, results, verdict>>,
         pc \in {"ended", "sealing", "checking", "commands"},
         \/ pc' = "stopped"
         \/ /\ pc' \in {"sealing", "checking", "evidence-failed"}
            /\ pc # "commands"
  PROVE  Judged'
<1>1. UNCHANGED <<job, work, index, case, trace, issued, results, verdict>>
  BY DEF sealedFrame, gitVars
<1>2. pc' \in {"sealing", "checking", "evidence-failed"} =>
        results' = <<>> /\ ~verdict'.files
  BY <1>1 DEF Inv, Judged
<1>3. ~verdict'.supported
  BY <1>1 DEF Inv, Judged
<1>4. \A i \in DOMAIN results' :
        /\ results'[i].passed => May(work, case.commands[i].needs)'
        /\ Charged(results[i], case.commands[i])'
  BY <1>1, ResultsStay
<1>5. verdict'.files => May(work, case.equals)'
  BY <1>1, ResultsStay
<1> QED BY <1>1, <1>2, <1>3, <1>4, <1>5
        DEF Inv, Judged, SupportedRestsOnWorker, SupportedNeedsCleanTrace

LEMMA CaptureStep ==
  ASSUME Inv, Capture
  PROVE  Inv'
<1>1. PICK away \in RenamedAway(Worker) :
        final' = [changed |-> ChangedFiles(Worker, away),
                  patch |-> Diff(Worker), away |-> away]
  BY DEF Capture
<1>2. /\ pc = "ended" /\ pc' \in {"checking", "sealing"}
      /\ UNCHANGED <<sealedFrame, material, results, verdict>>
  BY DEF Capture, sealedFrame, gitVars
<1>3. DeliveryInv' /\ Indexing' /\ Telling' /\ Judged'
  BY <1>2, Settled, JudgmentStays DEF Captured
<1>4. UNCHANGED <<job, work, delivered, head, index, indexed, case, trace, issued,
                  plain, material, results, verdict>>
  BY <1>2 DEF sealedFrame, gitVars
<1>5. /\ Worker.tree = work /\ Worker.head = head /\ Worker.index = index
      /\ Visible(work) \subseteq Paths
      /\ \A p \in Paths : /\ work[p] \in Contents \cup {Absent}
                          /\ head[p] \in Contents \cup {Absent}
  BY WorkerIsTyped DEF Inv
<1>6. final' \in [changed: SUBSET (Paths \cup {MountPoint}),
                  patch: [Paths -> Contents \cup {Absent, Same}],
                  away: SUBSET Paths]
  <2>1. away \in SUBSET Paths
    BY DEF RenamedAway, Removed
  <2>2. ChangedFiles(Worker, away) \in SUBSET (Paths \cup {MountPoint})
    BY <1>5 DEF ChangedFiles, Staged, Unstaged, Untracked, Embedded
  <2>3. Diff(Worker) \in [Paths -> Contents \cup {Absent, Same}]
    BY <1>5 DEF Diff
  <2> QED BY <1>1, <2>1, <2>2, <2>3
<1>7. TypeOK'
  BY <1>2, <1>3, <1>4, <1>6 DEF Inv, TypeOK, DeliveryInv, Captured
<1>8. Account'
  <2>1. Worker' = Worker
    BY <1>4 DEF Worker
  <2>2. /\ Diff(Worker)' = Diff(Worker)
        /\ RenamedAway(Worker)' = RenamedAway(Worker)
        /\ ChangedFiles(Worker, final.away)' = ChangedFiles(Worker, final'.away)
    BY <1>4, <2>1
    DEF Diff, Compared, Visible, Opaque, RenamedAway, Removed, Added,
        ChangedFiles, Staged, Unstaged, Untracked, Embedded
  <2> QED BY <1>1, <2>2 DEF Account
<1> QED BY <1>3, <1>7, <1>8 DEF Inv

LEMMA SealStep ==
  ASSUME Inv, Seal
  PROVE  Inv'
<1>1. /\ pc = "sealing"
      /\ pc' \in {"sealing", "evidence-failed", "checking", "stopped"}
      /\ UNCHANGED <<sealedFrame, final, results, verdict>>
  BY DEF Seal, SealFile, SealRefused, SealFinish, SealStopped, sealFrame,
         sealedFrame, gitVars
<1>2. DeliveryInv' /\ Indexing' /\ Telling' /\ Judged' /\ Account'
  BY <1>1, Settled, JudgmentStays, AccountStays DEF Captured
<1> DEFINE M == [status: {"none", "staging", "sealed"}, count: Nat, total: Nat,
                 dir: [Paths -> Contents \cup {Absent, Manifest}],
                 listed: Trees]
<1>3. material \in M
  BY DEF Inv, TypeOK
<1>4. NoMaterial \in M
  BY Kinds DEF NoMaterial, Trees
<1>5. material' \in M
  <2>1. CASE SealFile
    <3> DEFINE p == case.declared[material.count + 1]
    <3>1. /\ material.count < Len(case.declared) /\ Fits(p)
          /\ material' = [status |-> "staging", count |-> material.count + 1,
                          total |-> material.total + Size[work[p]],
                          dir |-> [material.dir EXCEPT ![p] = work[p]],
                          listed |-> [material.listed EXCEPT ![p] = work[p]]]
      BY <2>1 DEF SealFile
    <3>2. case.declared \in Seq(Paths) /\ material.count \in Nat
      BY <1>3, CaseFacts DEF Inv
    <3>3. p \in Paths
      BY <3>1, <3>2, LenProperties, ElementOfSeq
    <3> HIDE DEF p
    <3>4. work[p] \in Files /\ work[p] \in Contents
      BY <3>1, Kinds DEF Fits
    <3>5. material.total + Size[work[p]] \in Nat
      BY <1>3, <3>4, LimitsAssumption
    <3>6. /\ [material.dir EXCEPT ![p] = work[p]]
               \in [Paths -> Contents \cup {Absent, Manifest}]
          /\ [material.listed EXCEPT ![p] = work[p]] \in Trees
      BY <1>3, <3>3, <3>4 DEF Trees
    <3> QED BY <3>1, <3>2, <3>5, <3>6
  <2>2. CASE SealFinish
    <3>1. [material.dir EXCEPT ![ManifestName] = Manifest]
            \in [Paths -> Contents \cup {Absent, Manifest}]
      BY <1>3
    <3> QED BY <1>3, <2>2, <3>1 DEF SealFinish
  <2>3. CASE SealRefused \/ SealStopped
    BY <1>3, <1>4, <2>3 DEF SealRefused, SealStopped
  <2> QED BY <2>1, <2>2, <2>3 DEF Seal
<1>6. TypeOK'
  BY <1>1, <1>2, <1>5
  DEF Inv, TypeOK, DeliveryInv, Captured, sealedFrame, gitVars
<1> QED BY <1>2, <1>6 DEF Inv

LEMMA FilesStep ==
  ASSUME Inv, CheckFiles
  PROVE  Inv'
<1>1. /\ pc = "checking" /\ pc' \in {"stopped", "commands"}
      /\ verdict' = [verdict EXCEPT !.files =
                       FilesHold(case, work, final.changed)]
      /\ UNCHANGED <<sealedFrame, final, material, results>>
  BY DEF CheckFiles, checkFrame, sealedFrame, gitVars
<1>2. DeliveryInv' /\ Indexing' /\ Telling' /\ Account'
  BY <1>1, Settled, AccountStays DEF Captured
<1>3. UNCHANGED <<job, work, index, case, trace, issued, plain, final, material,
                  results>>
  BY <1>1 DEF sealedFrame, gitVars
<1>4. FilesHold(case, work, final.changed) \in BOOLEAN
  BY DEF FilesHold
<1>5. verdict' \in [files: BOOLEAN, passed: BOOLEAN, supported: BOOLEAN]
      /\ verdict'.files = FilesHold(case, work, final.changed)
      /\ verdict'.supported = verdict.supported
  BY <1>1, <1>4 DEF Inv, TypeOK
<1>6. TypeOK'
  BY <1>1, <1>2, <1>3, <1>5 DEF Inv, TypeOK, DeliveryInv, Captured
<1>7. Judged'
  <2>1. results' = <<>> /\ ~verdict'.supported
    BY <1>1, <1>5 DEF Inv, Judged
  <2>2. verdict'.files => May(work, case.equals)'
    BY <1>3, <1>5 DEF FilesHold, May, Opened
  <2> QED BY <1>1, <1>3, <2>1, <2>2, EmptySeq
          DEF Inv, Judged, SupportedRestsOnWorker, SupportedNeedsCleanTrace
<1> QED BY <1>2, <1>6, <1>7 DEF Inv

\* A command is charged with what it changed: the copy it ran in is that of the
\* worker, so Git can be asked in both.
LEMMA ChargedRightly ==
  ASSUME Inv, pc = "commands", NEW prog \in Programs, NEW away,
         \A p \in Meta : prog.edits[p] = Same,
         NEW passed
  PROVE  Charged([passed |-> passed,
                  mutated |-> ~SameBytes(Left(prog, CommandStart).tree, work, Paths),
                  derived |-> Derived(Left(prog, CommandStart),
                                ChangedFiles(Left(prog, CommandStart), away))],
                 prog)
<1> DEFINE s == Left(prog, CommandStart)
           after == Edited(prog, work)
           differ == {p \in Paths : after[p] # work[p]}
           derived == Derived(s, ChangedFiles(s, away))
<1>1. /\ Worker.tree = work /\ Worker.index = index /\ Worker.head = head
      /\ Worker.indexed = indexed
  BY WorkerIsTyped DEF Inv
<1>2. s.tree = after /\ (~prog.commits => s.index = index)
  BY <1>1 DEF Left, CommandStart, Worker
<1>3. ~SameBytes(s.tree, work, Paths) <=> differ \ Meta # {}
  BY <1>2 DEF SameBytes
<1>4. derived = {p \in Paths \cap (final.changed \cup ChangedFiles(s, away)) :
                   p \in differ}
  BY <1>2 DEF Derived
<1>5. ASSUME ~prog.commits, NEW p \in differ \ Hidden
      PROVE  p \in final.changed \cup ChangedFiles(s, away)
  <2>1. /\ Unstaged(Worker) \cup Untracked(Worker) \subseteq final.changed
        /\ Unstaged(s) \cup Untracked(s) \subseteq ChangedFiles(s, away)
    BY DEF Inv, Account, Captured, ChangedFiles
  <2>2. p \in Paths /\ after[p] # work[p] /\ s.index = index
    BY <1>2, <1>5
  <2>3. CASE index[p] \notin {Absent, work[p]}
    BY <1>1, <2>1, <2>2, <2>3 DEF Unstaged
  <2>4. CASE index[p] # Absent /\ index[p] = work[p]
    BY <1>2, <2>1, <2>2, <2>4 DEF Unstaged
  <2>5. CASE index[p] = Absent
    <3>1. Visible(after) = Visible(work)
      BY OpaqueOfMeta, Kinds DEF Edited
    <3>2. p \in Visible(work)
      BY <1>5, <2>5, NotHidden
    <3>3. work[p] # Absent => p \in Untracked(Worker)
      BY <1>1, <2>5, <3>2 DEF Untracked
    <3>4. after[p] # Absent => p \in Untracked(s)
      BY <1>2, <2>2, <2>5, <3>1, <3>2 DEF Untracked
    <3> QED BY <2>1, <2>2, <3>3, <3>4
  <2> QED BY <2>3, <2>4, <2>5
<1>6. derived \subseteq differ /\ (~prog.commits => differ \ Hidden \subseteq derived)
  BY <1>4, <1>5
<1> HIDE DEF s, derived
<1>7. Charged([passed |-> passed, mutated |-> ~SameBytes(s.tree, work, Paths),
               derived |-> derived], prog)
  BY <1>3, <1>6 DEF Charged
<1> QED BY <1>7 DEF s, derived

LEMMA CommandStep ==
  ASSUME Inv, RunCommand
  PROVE  Inv'
<1> DEFINE k == Len(results)
           prog == case.commands[k + 1]
           s == Left(prog, CommandStart)
<1>1. /\ pc = "commands" /\ pc' = "commands" /\ k < Len(case.commands)
      /\ UNCHANGED <<sealedFrame, final, material, verdict>>
  BY DEF RunCommand, checkFrame, sealedFrame, gitVars
<1>2. PICK passed \in BOOLEAN, away \in RenamedAway(s) :
        /\ passed => May(CommandStart.tree, prog.needs)
        /\ results' = Append(results,
             [passed |-> passed, mutated |-> ~SameBytes(s.tree, work, Paths),
              derived |-> Derived(s, ChangedFiles(s, away))])
  BY DEF RunCommand
<1> DEFINE r == [passed |-> passed, mutated |-> ~SameBytes(s.tree, work, Paths),
                 derived |-> Derived(s, ChangedFiles(s, away))]
<1>3. DeliveryInv' /\ Indexing' /\ Telling' /\ Account'
      /\ Worker' = Worker /\ Hidden' = Hidden
  BY <1>1, Settled, AccountStays DEF Captured
<1>4. UNCHANGED <<job, work, index, case, trace, issued, plain, final, material,
                  verdict>>
  BY <1>1 DEF sealedFrame, gitVars
<1> DEFINE R == [passed: BOOLEAN, mutated: BOOLEAN, derived: SUBSET Paths]
<1>5. case.commands \in Seq(Programs) /\ results \in Seq(R) /\ k \in Nat
      /\ DOMAIN results = 1 .. k /\ Len(case.commands) \in Nat
      /\ DOMAIN case.commands = 1 .. Len(case.commands)
  BY CaseFacts, LenProperties DEF Inv, TypeOK
<1>6. prog \in Programs /\ \A p \in Meta : prog.edits[p] = Same
  <2>1. k + 1 \in 1 .. Len(case.commands)
    BY <1>1, <1>5
  <2> QED BY <1>5, <2>1, CaseFacts, ElementOfSeq DEF Inv
<1>7. CommandStart.tree = work
  BY WorkerIsTyped DEF Inv, CommandStart
<1>8. Charged(r, prog) /\ (r.passed => May(work, prog.needs))
  <2>1. Charged(r, prog)
    BY <1>1, <1>6, ChargedRightly
  <2> QED BY <1>2, <1>7, <2>1
<1>9. r \in R
  BY DEF Derived, SameBytes
<1> HIDE DEF r, R, prog, s
<1>10. results' = Append(results, r)
  BY <1>2 DEF r
<1>11. /\ results' \in Seq(R) /\ Len(results') = k + 1
       /\ DOMAIN results' = 1 .. k + 1
       /\ \A i \in 1 .. k : results'[i] = results[i]
       /\ results'[k + 1] = r
  BY <1>5, <1>9, <1>10
<1>12. TypeOK'
  BY <1>1, <1>3, <1>4, <1>11 DEF Inv, TypeOK, DeliveryInv, Captured, R
<1>13. Judged'
  <2>1. \A i \in DOMAIN results' :
          /\ results'[i].passed => May(work, case.commands[i].needs)
          /\ Charged(results'[i], case.commands[i])
    <3> SUFFICES ASSUME NEW i \in DOMAIN results'
                 PROVE  /\ results'[i].passed => May(work, case.commands[i].needs)
                        /\ Charged(results'[i], case.commands[i])
      OBVIOUS
    <3>1. CASE i \in 1 .. k
      BY <1>5, <1>11, <3>1 DEF Inv, Judged
    <3>2. CASE i = k + 1
      BY <1>8, <1>11, <3>2 DEF prog
    <3> QED BY <1>5, <1>11, <3>1, <3>2
  <2>2. \A i \in DOMAIN results' :
          /\ results'[i].passed => May(work, case.commands[i].needs)'
          /\ (Charged(results[i], case.commands[i]))'
    BY <1>3, <1>4, <2>1 DEF Charged, Edited, May, Opened
  <2>3. Len(results') <= Len(case.commands)
    BY <1>1, <1>5, <1>11
  <2>4. ~verdict.supported /\ (verdict'.files => May(work, case.equals)')
    BY <1>1, <1>4 DEF Inv, Judged, May, Opened
  <2> QED BY <1>1, <1>4, <2>2, <2>3, <2>4
          DEF Judged, SupportedRestsOnWorker, SupportedNeedsCleanTrace
<1> QED BY <1>3, <1>12, <1>13 DEF Inv

LEMMA CompleteStep ==
  ASSUME Inv, Complete
  PROVE  Inv'
<1> DEFINE passed == /\ case.text => FinalMessage = "right"
                     /\ verdict.files
                     /\ \A i \in DOMAIN results : results[i].passed
                     /\ TraceHolds
<1>1. /\ pc = "commands" /\ pc' = "completed"
      /\ Len(results) = Len(case.commands)
      /\ verdict' = [verdict EXCEPT !.passed = passed,
                                    !.supported = passed /\ ~Mutated]
      /\ UNCHANGED <<sealedFrame, final, material, results>>
  BY DEF Complete, checkFrame, sealedFrame, gitVars
<1>2. DeliveryInv' /\ Indexing' /\ Telling' /\ Account' /\ Hidden' = Hidden
  BY <1>1, Settled, AccountStays DEF Captured
<1>3. UNCHANGED <<job, work, index, case, trace, issued, plain, final, material,
                  results>>
  BY <1>1 DEF sealedFrame, gitVars
<1>4. passed \in BOOLEAN /\ Mutated \in BOOLEAN
  <2>1. case.text \in BOOLEAN /\ verdict.files \in BOOLEAN
    BY CaseFacts DEF Inv, TypeOK
  <2> QED BY <2>1 DEF TraceHolds, Mutated
<1> HIDE DEF passed
<1>5. /\ verdict' \in [files: BOOLEAN, passed: BOOLEAN, supported: BOOLEAN]
      /\ verdict'.files = verdict.files
      /\ verdict'.supported = (passed /\ ~Mutated)
  BY <1>1, <1>4 DEF Inv, TypeOK
<1>6. TypeOK'
  BY <1>1, <1>2, <1>3, <1>5 DEF Inv, TypeOK, DeliveryInv, Captured
<1>7. DOMAIN results = DOMAIN case.commands
  <2>1. case.commands \in Seq(Programs)
        /\ results \in Seq([passed: BOOLEAN, mutated: BOOLEAN,
                            derived: SUBSET Paths])
    BY CaseFacts DEF Inv, TypeOK
  <2> QED BY <1>1, <2>1, LenProperties
<1> DEFINE Earned == /\ CleanTrace /\ May(work, case.equals)
                     /\ \A i \in DOMAIN case.commands :
                          /\ May(work, case.commands[i].needs)
                          /\ SameBytes(Edited(case.commands[i], work), work, Paths)
<1>8. ASSUME passed, ~Mutated
      PROVE  Earned
  <2>1. CleanTrace
    BY <1>1, <1>8 DEF passed, Inv, Telling, TraceSound, Before, Delivering,
                      Undelivered
  <2>2. May(work, case.equals)
    BY <1>8 DEF passed, Inv, Judged
  <2>3. ASSUME NEW i \in DOMAIN case.commands
        PROVE  /\ May(work, case.commands[i].needs)
               /\ SameBytes(Edited(case.commands[i], work), work, Paths)
    <3>1. May(work, case.commands[i].needs) /\ ~results[i].mutated
      BY <1>7, <1>8 DEF passed, Mutated, Inv, Judged
    <3>2. {p \in Paths : Edited(case.commands[i], work)[p] # work[p]} \ Meta = {}
      BY <1>7, <3>1 DEF Inv, Judged, Charged
    <3> QED BY <3>1, <3>2 DEF SameBytes
  <2> QED BY <2>1, <2>2, <2>3
<1>9. (SupportedRestsOnWorker /\ SupportedNeedsCleanTrace)'
  <2>1. verdict'.supported => Earned
    BY <1>5, <1>8
  <2>2. Earned => Earned'
    BY <1>3 DEF CleanTrace, May, Opened, Edited, SameBytes
  <2> HIDE DEF Earned
  <2>3. verdict'.supported => Earned'
    BY <2>1, <2>2
  <2> QED BY <2>3 DEF Earned, SupportedRestsOnWorker, SupportedNeedsCleanTrace
<1>10. \A i \in DOMAIN results' :
         /\ results'[i].passed => May(work, case.commands[i].needs)'
         /\ Charged(results[i], case.commands[i])'
  BY <1>3, ResultsStay
<1>11. verdict'.files => May(work, case.equals)'
  BY <1>3, <1>5, ResultsStay
<1>12. Judged'
  BY <1>1, <1>3, <1>9, <1>10, <1>11 DEF Inv, Judged
<1> QED BY <1>2, <1>6, <1>12 DEF Inv

LEMMA StoppedStep ==
  ASSUME Inv, CheckStopped
  PROVE  Inv'
<1>1. /\ pc \in {"ended", "checking", "commands"} /\ pc' = "stopped"
      /\ UNCHANGED <<sealedFrame, final, material, results, verdict>>
  BY DEF CheckStopped, checkFrame, sealedFrame, gitVars
<1>2. DeliveryInv' /\ Indexing' /\ Telling' /\ Judged'
  BY <1>1, Settled, JudgmentStays
<1>3. Account'
  BY <1>1 DEF Account, Captured
<1>4. TypeOK'
  BY <1>1, <1>2 DEF Inv, TypeOK, DeliveryInv, sealedFrame, gitVars
<1> QED BY <1>2, <1>3, <1>4 DEF Inv

LEMMA StepsKeep == Inv /\ [Next]_vars => Inv'
<1> SUFFICES ASSUME Inv, [Next]_vars PROVE Inv'
  OBVIOUS
<1>1. CASE Next
  BY <1>1, DeliveryStep, WorkStep, CaptureStep, SealStep, FilesStep, CommandStep,
     CompleteStep, StoppedStep DEF Next, Check
<1>2. CASE UNCHANGED vars
  <2>1. UNCHANGED <<job, source, entry, work, delivered, head, index, indexed,
                    moves, pc, case, trace, issued, plain, final, material,
                    results, verdict>>
    BY <1>2 DEF vars, deliveryVars, gitVars
  <2>2. TypeOK'
    BY <2>1 DEF Inv, TypeOK, DeliveryTypeOK, WellFormed
  <2>3. Sourced' /\ Stepwise' /\ Outside' /\ Inside' /\ (pc = "init" => Right(work))'
    BY <2>1 DEF Inv, DeliveryInv, Sourced, Stepwise, Outside, Inside, Undisturbed,
                Right, SameBytes, Empty
  <2>4. DeliveryInv'
    BY <2>1, <2>2, <2>3
    DEF Inv, TypeOK, DeliveryInv, WorkerStartsAsPlanned, DriftIsReal, SameBytes
  <2>5. Indexing'
    BY <2>1 DEF Inv, Indexing, Empty, Visible, Opaque
  <2>6. Account'
    <3>1. pc \in Captured => UNCHANGED <<sealedFrame, final>>
      BY <2>1 DEF sealedFrame, gitVars
    <3> QED BY <2>1, <3>1, AccountStays DEF Account
  <2>7. Telling'
    BY <2>1 DEF Inv, Telling, Plodding, Commands, TraceSound, TraceHolds,
                CleanTrace, FinalMessage, Messages, Seen
  <2>8. Judged'
    <3>1. \A i \in DOMAIN results' :
            /\ results'[i].passed => May(work, case.commands[i].needs)'
            /\ Charged(results[i], case.commands[i])'
      BY <2>1, ResultsStay
    <3>2. (SupportedRestsOnWorker /\ SupportedNeedsCleanTrace)'
      BY <2>1 DEF Inv, Judged, SupportedRestsOnWorker, SupportedNeedsCleanTrace,
                  CleanTrace, May, Opened, Edited, SameBytes
    <3>3. verdict'.files => May(work, case.equals)'
      BY <2>1, ResultsStay
    <3> QED BY <2>1, <3>1, <3>2, <3>3 DEF Inv, Judged
  <2> QED BY <2>2, <2>4, <2>5, <2>6, <2>7, <2>8 DEF Inv
<1> QED BY <1>1, <1>2

\* The invariant holds throughout.
LEMMA Invariant == Spec => []Inv
BY Initially, StepsKeep, PTL DEF Spec

-----------------------------------------------------------------------------
(* Induction, and the sum of the sizes of some files *)

LEMMA LeastNumber ==
  ASSUME NEW S, S \subseteq Nat, S # {}
  PROVE  \E n \in S : \A m \in S : n <= m
<1> DEFINE R == OpToRel(<, Nat)
<1>1. IsWellFoundedOn(R, Nat)
  BY NatLessThanWellFounded, Zenon
<1>2. \A m, n \in Nat : m < n => <<m, n>> \in R
  BY DEF OpToRel
<1> HIDE DEF R
<1>3. PICK n \in S : \A m \in S : <<m, n>> \notin R
  BY <1>1, WFMin
<1>4. ASSUME NEW m \in S PROVE n <= m
  <2>1. m \in Nat /\ n \in Nat /\ ~(m < n)
    BY <1>2, <1>3
  <2> QED BY <2>1
<1> QED BY <1>4

\* Induction, over the set of the numbers that have a property.
LEMMA Induction ==
  ASSUME NEW S, S \subseteq Nat, 0 \in S, \A n \in S : n + 1 \in S
  PROVE  S = Nat
<1> SUFFICES ASSUME Nat \ S # {} PROVE FALSE
  OBVIOUS
<1>1. PICK n \in Nat \ S : \A m \in Nat \ S : n <= m
  BY LeastNumber
<1>2. n # 0 /\ n - 1 \in Nat /\ ~(n <= n - 1)
  BY <1>1
<1>3. n - 1 \in S
  BY <1>1, <1>2
<1> QED BY <1>1, <1>2, <1>3

Bytes(t, S) == MapThenSumSet(LAMBDA p : Size[t[p]], S)

\* The function MapThenSumSet defines by recursion.
OneOf(s) == CHOOSE x \in s : TRUE
Summing(t, S, f) ==
  f = [s \in SUBSET S |-> IF s = {} THEN 0
                          ELSE Size[t[OneOf(s)]] + f[s \ {OneOf(s)}]]

LEMMA BytesDef ==
  ASSUME NEW t, NEW S
  PROVE  Bytes(t, S) = (CHOOSE f : Summing(t, S, f))[S]
BY DEF Bytes, MapThenSumSet, MapThenFoldSet, Summing, OneOf

\* A finite set without one of its elements.
LEMMA OneLess ==
  ASSUME NEW S, IsFiniteSet(S), NEW n \in Nat, NEW s \in SUBSET S,
         Cardinality(s) <= n + 1, NEW x \in s
  PROVE  Cardinality(s \ {x}) <= n
<1>1. IsFiniteSet(s) /\ Cardinality(s) \in Nat
  BY FS_Subset, FS_CardinalityType
<1>2. Cardinality(s \ {x}) = Cardinality(s) - 1
  BY <1>1, FS_RemoveElement
<1> QED BY <1>1, <1>2

\* A recursive sum over the subsets of a finite set is well defined.
LEMMA SummingExists ==
  ASSUME NEW t, NEW S, IsFiniteSet(S)
  PROVE  \E f : Summing(t, S, f)
<1> DEFINE Of(s, f) == IF s = {} THEN 0 ELSE Size[t[OneOf(s)]] + f[s \ {OneOf(s)}]
           Upto(n, f) == \A s \in SUBSET S : Cardinality(s) <= n => f[s] = Of(s, f)
           Good == {n \in Nat : \E f : Upto(n, f)}
<1>1. \A s \in SUBSET S : s # {} => OneOf(s) \in s
  BY DEF OneOf
<1>2. ASSUME NEW n \in Nat, NEW f,
             \A s \in SUBSET S : Cardinality(s) <= n => f[s] = Of(s, f)
      PROVE  n + 1 \in Good
  <2> DEFINE g == [s \in SUBSET S |-> Of(s, f)]
  <2>1. ASSUME NEW s \in SUBSET S, Cardinality(s) <= n + 1
        PROVE  g[s] = Of(s, g)
    <3>1. CASE s = {}
      BY <3>1
    <3>2. CASE s # {}
      <4>1. /\ s \ {OneOf(s)} \in SUBSET S
            /\ Cardinality(s \ {OneOf(s)}) <= n
        BY <1>1, <2>1, <3>2, OneLess
      <4>2. f[s \ {OneOf(s)}] = g[s \ {OneOf(s)}]
        BY <1>2, <4>1
      <4> QED BY <3>2, <4>2
    <3> QED BY <3>1, <3>2
  <2>2. n + 1 \in Nat
    OBVIOUS
  <2> HIDE DEF g, Of
  <2>3. Upto(n + 1, g)
    BY <2>1
  <2> QED BY <2>2, <2>3
<1>3. 0 \in Good
  <2> DEFINE g == [s \in SUBSET S |-> 0]
  <2>1. ASSUME NEW s \in SUBSET S, Cardinality(s) <= 0
        PROVE  s = {}
    BY <2>1, FS_Subset, FS_EmptySet, FS_CardinalityType
  <2>2. Upto(0, g)
    BY <2>1
  <2> HIDE DEF g, Upto
  <2> QED BY <2>2
<1>4. \A n \in Good : n + 1 \in Good
  <2> HIDE DEF Of
  <2> QED BY <1>2
<1> HIDE DEF Good
<1>5. Cardinality(S) \in Good
  <2>1. Good \subseteq Nat
    BY DEF Good
  <2> QED BY <1>3, <1>4, <2>1, Induction, FS_CardinalityType
<1>6. PICK f : Upto(Cardinality(S), f)
  BY <1>5 DEF Good
<1>7. \A s \in SUBSET S : f[s] = Of(s, f)
  BY <1>6, FS_Subset
<1> DEFINE g == [s \in SUBSET S |-> Of(s, f)]
<1>8. \A s \in SUBSET S : g[s] = Of(s, g)
  <2> SUFFICES ASSUME NEW s \in SUBSET S PROVE g[s] = Of(s, g)
    OBVIOUS
  <2>1. s \ {OneOf(s)} \in SUBSET S
    OBVIOUS
  <2> QED BY <1>7, <2>1
<1>9. g = [s \in SUBSET S |-> Of(s, g)]
  <2> HIDE DEF Of
  <2> QED BY <1>8
<1> QED BY <1>9 DEF Summing

\* What a sum comes to does not depend on the order.
LEMMA SummingAdds ==
  ASSUME NEW t, NEW S, IsFiniteSet(S), \A p \in S : Size[t[p]] \in Nat,
         NEW f, Summing(t, S, f)
  PROVE  /\ f[{}] = 0
         /\ \A s \in SUBSET S : f[s] \in Nat
         /\ \A s \in SUBSET S : \A x \in s : f[s] = Size[t[x]] + f[s \ {x}]
<1> DEFINE Adds(s) == /\ f[s] \in Nat
                      /\ \A x \in s : f[s] = Size[t[x]] + f[s \ {x}]
           Good == {n \in Nat : \A s \in SUBSET S : Cardinality(s) <= n => Adds(s)}
<1>1. \A s \in SUBSET S : s # {} => OneOf(s) \in s
  BY DEF OneOf
<1>2. /\ f[{}] = 0
      /\ \A s \in SUBSET S :
           s # {} => f[s] = Size[t[OneOf(s)]] + f[s \ {OneOf(s)}]
  BY DEF Summing
<1>3. 0 \in Good
  <2>1. ASSUME NEW s \in SUBSET S, Cardinality(s) <= 0
        PROVE  s = {}
    BY <2>1, FS_Subset, FS_EmptySet, FS_CardinalityType
  <2>2. Adds({})
    BY <1>2
  <2> HIDE DEF Adds
  <2> QED BY <2>1, <2>2
<1>4. ASSUME NEW n \in Good
      PROVE  n + 1 \in Good
  <2> SUFFICES ASSUME NEW s \in SUBSET S, Cardinality(s) <= n + 1
               PROVE  Adds(s)
    OBVIOUS
  <2>1. CASE s = {}
    BY <1>2, <2>1
  <2>2. CASE s # {}
    <3> DEFINE y == OneOf(s)
    <3>1. y \in s /\ f[s] = Size[t[y]] + f[s \ {y}]
      BY <1>1, <1>2, <2>2
    <3> HIDE DEF y
    <3>2. ASSUME NEW x \in s
          PROVE  Adds(s \ {x}) /\ s \ {x} \in SUBSET S /\ Size[t[x]] \in Nat
      <4>1. Cardinality(s \ {x}) <= n
        BY OneLess
      <4> QED BY <1>4, <4>1
    <3>3. ASSUME NEW x \in s, x # y
          PROVE  f[s] = Size[t[x]] + f[s \ {x}]
      <4>1. f[s \ {y}] = Size[t[x]] + f[(s \ {y}) \ {x}]
        BY <3>1, <3>2, <3>3
      <4>2. f[s \ {x}] = Size[t[y]] + f[(s \ {x}) \ {y}]
        BY <3>1, <3>2, <3>3
      <4>3. (s \ {y}) \ {x} = (s \ {x}) \ {y}
        OBVIOUS
      <4>4. f[(s \ {x}) \ {y}] \in Nat
        <5>1. Cardinality((s \ {x}) \ {y}) <= n
          <6>1. Cardinality(s \ {x}) <= n /\ Cardinality(s \ {x}) \in Nat
                /\ IsFiniteSet(s \ {x})
            BY OneLess, FS_Subset, FS_CardinalityType
          <6>2. Cardinality((s \ {x}) \ {y}) = Cardinality(s \ {x}) - 1
            BY <3>1, <3>3, <6>1, FS_RemoveElement
          <6> QED BY <6>1, <6>2
        <5>2. (s \ {x}) \ {y} \in SUBSET S
          OBVIOUS
        <5> QED BY <1>4, <5>1, <5>2
      <4>5. Size[t[x]] \in Nat /\ Size[t[y]] \in Nat
        BY <3>1, <3>2
      <4>6. f[s] = Size[t[y]] + (Size[t[x]] + f[(s \ {x}) \ {y}])
        BY <3>1, <4>1, <4>3, Zenon
      <4> QED BY <4>2, <4>4, <4>5, <4>6
    <3>4. f[s] \in Nat
      <4>1. Size[t[y]] \in Nat /\ f[s \ {y}] \in Nat
        BY <3>1, <3>2
      <4> QED BY <3>1, <4>1
    <3> QED BY <3>1, <3>3, <3>4
  <2> QED BY <2>1, <2>2
<1> HIDE DEF Adds
<1>5. \A s \in SUBSET S : Adds(s)
  <2>1. Good = Nat
    <3>1. Good \subseteq Nat
      OBVIOUS
    <3> HIDE DEF Good
    <3> QED BY <1>3, <1>4, <3>1, Induction
  <2>2. ASSUME NEW s \in SUBSET S
        PROVE  Cardinality(s) \in Nat /\ Cardinality(s) <= Cardinality(s)
    BY FS_Subset, FS_CardinalityType
  <2> QED BY <2>1, <2>2
<1> QED BY <1>2, <1>5 DEF Adds

\* Two such sums agree where both are defined.
LEMMA SummingsAgree ==
  ASSUME NEW t, NEW S, IsFiniteSet(S), NEW T, S \subseteq T,
         NEW f, Summing(t, S, f), NEW g, Summing(t, T, g)
  PROVE  f[S] = g[S]
<1> DEFINE Good == {n \in Nat :
                      \A s \in SUBSET S : Cardinality(s) <= n => f[s] = g[s]}
<1>1. \A s \in SUBSET S : s # {} => OneOf(s) \in s
  BY DEF OneOf
<1>2. /\ f[{}] = 0 /\ g[{}] = 0
      /\ \A s \in SUBSET S :
           s # {} => /\ f[s] = Size[t[OneOf(s)]] + f[s \ {OneOf(s)}]
                     /\ g[s] = Size[t[OneOf(s)]] + g[s \ {OneOf(s)}]
  <2>1. \A s \in SUBSET S : s \in SUBSET T
    OBVIOUS
  <2> QED BY <2>1 DEF Summing
<1>3. 0 \in Good
  <2>1. ASSUME NEW s \in SUBSET S, Cardinality(s) <= 0
        PROVE  s = {}
    BY <2>1, FS_Subset, FS_EmptySet, FS_CardinalityType
  <2> QED BY <1>2, <2>1
<1>4. ASSUME NEW n \in Good
      PROVE  n + 1 \in Good
  <2> SUFFICES ASSUME NEW s \in SUBSET S, Cardinality(s) <= n + 1
               PROVE  f[s] = g[s]
    OBVIOUS
  <2>1. CASE s = {}
    BY <1>2, <2>1
  <2>2. CASE s # {}
    <3>1. Cardinality(s \ {OneOf(s)}) <= n
      BY <1>1, <2>2, OneLess
    <3>2. s \ {OneOf(s)} \in SUBSET S
      OBVIOUS
    <3>3. f[s \ {OneOf(s)}] = g[s \ {OneOf(s)}]
      BY <1>4, <3>1, <3>2
    <3> QED BY <1>2, <2>2, <3>3
  <2> QED BY <2>1, <2>2
<1>5. Good = Nat
  <2>1. Good \subseteq Nat
    OBVIOUS
  <2> HIDE DEF Good
  <2> QED BY <1>3, <1>4, <2>1, Induction
<1>6. Cardinality(S) \in Nat /\ Cardinality(S) <= Cardinality(S)
  BY FS_CardinalityType
<1> QED BY <1>5, <1>6

\* The bytes of no files, and of one file more.
LEMMA BytesOfNone ==
  ASSUME NEW t
  PROVE  Bytes(t, {}) = 0
<1>1. IsFiniteSet({})
  BY FS_EmptySet
<1>2. Summing(t, {}, CHOOSE f : Summing(t, {}, f))
  BY <1>1, SummingExists
<1> QED BY <1>1, <1>2, SummingAdds, BytesDef

LEMMA BytesOfOneMore ==
  ASSUME NEW t, NEW S, IsFiniteSet(S), NEW x, x \notin S,
         \A p \in S \cup {x} : Size[t[p]] \in Nat
  PROVE  Bytes(t, S \cup {x}) = Bytes(t, S) + Size[t[x]]
<1> DEFINE T == S \cup {x}
           f == CHOOSE f : Summing(t, S, f)
           g == CHOOSE g : Summing(t, T, g)
<1>1. IsFiniteSet(T) /\ S \subseteq T /\ x \in T /\ T \ {x} = S
  BY FS_AddElement
<1>2. Summing(t, S, f) /\ Summing(t, T, g)
  BY <1>1, SummingExists
<1>3. Bytes(t, S) = f[S] /\ Bytes(t, T) = g[T]
  BY BytesDef
<1>4. \A p \in T : Size[t[p]] \in Nat
  OBVIOUS
<1> HIDE DEF T, f, g
<1>5. f[S] = g[S]
  BY <1>1, <1>2, SummingsAgree
<1>6. g[T] = Size[t[x]] + g[S] /\ g[S] \in Nat
  BY <1>1, <1>2, <1>4, SummingAdds
<1>7. Bytes(t, T) = Bytes(t, S) + Size[t[x]]
  <2>1. Size[t[x]] \in Nat
    BY <1>1, <1>4
  <2> QED BY <1>3, <1>5, <1>6, <2>1
<1> QED BY <1>7 DEF T

-----------------------------------------------------------------------------
(* The review material *)

Early == Before \cup {"ready", "working", "ended"}

StagedFiles == {case.declared[i] : i \in 1 .. material.count}

\* What lies in the staging directory, or in the sealed one, are the declared
\* files in their order, each as the worker left it, and its total is theirs.
Batch ==
  /\ material.count <= Len(case.declared)
  /\ \A i \in 1 .. material.count :
       LET p == case.declared[i] IN
       /\ work[p] \in Files /\ Size[work[p]] <= FileBound
       /\ material.listed[p] = work[p]
       /\ material.dir[p] = work[p] \/ p = ManifestName
  /\ material.total = Bytes(work, StagedFiles) /\ material.total <= TotalBound
  /\ material.status = "sealed" => material.count = Len(case.declared)

Sealing ==
  /\ pc \in Early => material = NoMaterial
  /\ pc \in {"checking", "commands", "completed"} =>
       case.declared = <<>> \/ material.status = "sealed"
  /\ pc = "evidence-failed" => material.status = "none"

LEMMA DeclaredFacts ==
  ASSUME TypeOK
  PROVE  /\ case.declared \in Seq(Paths) /\ Len(case.declared) \in Nat
         /\ DOMAIN case.declared = 1 .. Len(case.declared)
         /\ \A i \in 1 .. Len(case.declared) : case.declared[i] \in Paths
         /\ \A i, j \in 1 .. Len(case.declared) :
              case.declared[i] = case.declared[j] => i = j
         /\ material.count \in Nat /\ material.total \in Nat
         /\ material.listed \in Trees
         /\ material.dir \in [Paths -> Contents \cup {Absent, Manifest}]
<1>1. case \in Cases /\ case.declared \in Seq(Paths)
  BY CaseFacts
<1>2. \A i, j \in DOMAIN case.declared :
        case.declared[i] = case.declared[j] => i = j
  BY <1>1, CasesAssumption
<1>3. /\ Len(case.declared) \in Nat
      /\ DOMAIN case.declared = 1 .. Len(case.declared)
      /\ \A i \in 1 .. Len(case.declared) : case.declared[i] \in Paths
  BY <1>1, LenProperties, ElementOfSeq
<1> QED BY <1>1, <1>2, <1>3 DEF TypeOK

\* Before anything is sealed the worker may do what it likes.
LEMMA NothingSealed ==
  ASSUME Inv, Sealing, pc \in Early, pc' \in Early, case' = case,
         material' = material
  PROVE  Batch' /\ Sealing'
<1>1. material' = NoMaterial /\ NoMaterial' = NoMaterial
  BY DEF Sealing, NoMaterial, Empty
<1>2. material'.count = 0 /\ material'.total = 0 /\ material'.status = "none"
  BY <1>1 DEF NoMaterial
<1>3. StagedFiles' = {}
  BY <1>2 DEF StagedFiles
<1>4. Bytes(work', {}) = 0
  BY BytesOfNone
<1>5. Len(case'.declared) \in Nat /\ TotalBound \in Nat
  BY DeclaredFacts, LimitsAssumption DEF Inv
<1>6. Batch'
  <2>1. Bytes(work, StagedFiles)' = 0
    BY <1>3, <1>4
  <2> QED BY <1>2, <1>5, <2>1 DEF Batch
<1>7. Sealing'
  BY <1>1, <1>2 DEF Sealing, Early, Before, Delivering, Undelivered
<1> QED BY <1>6, <1>7

\* Steps that look only at the result.
LEMMA BatchStays ==
  ASSUME Batch, UNCHANGED <<work, case, material>>
  PROVE  Batch'
<1>1. StagedFiles' = StagedFiles
  BY DEF StagedFiles
<1> QED BY <1>1 DEF Batch

LEMMA SealFileStep ==
  ASSUME Inv, Batch, Sealing, SealFile
  PROVE  Batch' /\ Sealing'
<1> DEFINE n == material.count
           p == case.declared[n + 1]
<1>1. /\ pc = "sealing" /\ pc' = "sealing" /\ n < Len(case.declared)
      /\ work[p] \in Files /\ Size[work[p]] <= FileBound
      /\ material.total + Size[work[p]] <= TotalBound
      /\ material' = [status |-> "staging", count |-> n + 1,
                      total |-> material.total + Size[work[p]],
                      dir |-> [material.dir EXCEPT ![p] = work[p]],
                      listed |-> [material.listed EXCEPT ![p] = work[p]]]
      /\ work' = work /\ case' = case
  BY DEF SealFile, Fits, sealFrame
<1>2. n \in Nat /\ n + 1 \in 1 .. Len(case.declared) /\ p \in Paths
  BY <1>1, DeclaredFacts DEF Inv
<1>3. ASSUME NEW i \in 1 .. n
      PROVE  case.declared[i] # p /\ case.declared[i] \in Paths
  <2>1. i \in 1 .. Len(case.declared) /\ i # n + 1
    BY <1>1, <1>2, DeclaredFacts DEF Inv
  <2> QED BY <1>2, <2>1, DeclaredFacts DEF Inv
<1>4. \A i \in 1 .. n + 1 : i \in 1 .. n \/ i = n + 1
  BY <1>2
<1>5. 1 .. n \subseteq 1 .. n + 1 /\ n + 1 \in 1 .. n + 1
  BY <1>2
<1> HIDE DEF p
<1>6. /\ material'.status = "staging" /\ material'.count = n + 1
      /\ material'.total = material.total + Size[work[p]]
      /\ material'.dir[p] = work[p] /\ material'.listed[p] = work[p]
      /\ \A q \in Paths \ {p} : /\ material'.dir[q] = material.dir[q]
                                /\ material'.listed[q] = material.listed[q]
  BY <1>1, <1>2, DeclaredFacts DEF Inv, Trees
<1>7. StagedFiles' = StagedFiles \cup {p} /\ p \notin StagedFiles
  <2>1. \A i \in 1 .. n + 1 : case'.declared[i] = case.declared[i]
    BY <1>1
  <2> QED BY <1>1, <1>3, <1>4, <1>5, <1>6, <2>1 DEF StagedFiles, p
<1>8. IsFiniteSet(StagedFiles)
  <2>1. IsFiniteSet(1 .. n)
    BY FS_Interval, <1>2
  <2> DEFINE f == [i \in 1 .. n |-> case.declared[i]]
  <2>2. f \in Surjection(1 .. n, StagedFiles)
    BY DEF StagedFiles, Surjection
  <2> QED BY <2>1, <2>2, FS_Surjection DEF ExistsSurjection
<1>9. \A q \in StagedFiles \cup {p} : Size[work[q]] \in Nat
  <2>1. \A q \in StagedFiles \cup {p} : work[q] \in Files
    BY <1>1 DEF StagedFiles, Batch
  <2> QED BY <2>1, LimitsAssumption
<1>10. Bytes(work, StagedFiles)' = Bytes(work, StagedFiles) + Size[work[p]]
  BY <1>1, <1>7, <1>8, <1>9, BytesOfOneMore
<1>11. \A i \in 1 .. n + 1 :
         LET q == case.declared[i] IN
         /\ work[q] \in Files /\ Size[work[q]] <= FileBound
         /\ material'.listed[q] = work[q]
         /\ material'.dir[q] = work[q] \/ q = ManifestName
  <2>1. ASSUME NEW i \in 1 .. n
        PROVE  LET q == case.declared[i] IN
               /\ work[q] \in Files /\ Size[work[q]] <= FileBound
               /\ material'.listed[q] = work[q]
               /\ material'.dir[q] = work[q] \/ q = ManifestName
    BY <1>3, <1>6 DEF Batch
  <2> QED BY <1>1, <1>4, <1>6, <2>1 DEF p
<1>12. Batch'
  <2>1. material'.count <= Len(case'.declared)
    BY <1>1, <1>2, <1>6, DeclaredFacts DEF Inv
  <2>2. material'.total = Bytes(work, StagedFiles)'
    BY <1>6, <1>10 DEF Batch
  <2> QED BY <1>1, <1>6, <1>11, <2>1, <2>2 DEF Batch
<1> QED BY <1>1, <1>12 DEF Sealing, Early, Before, Delivering, Undelivered

\* The manifest takes the place of a declared file of its name.
LEMMA SealFinishStep ==
  ASSUME Inv, Batch, Sealing, SealFinish
  PROVE  Batch' /\ Sealing'
<1>1. /\ pc' = "checking" /\ material.count = Len(case.declared)
      /\ material' = [material EXCEPT !.status = "sealed",
                        !.dir = [@ EXCEPT ![ManifestName] = Manifest]]
      /\ work' = work /\ case' = case
  BY DEF SealFinish, sealFrame
<1>2. /\ material'.status = "sealed" /\ material'.count = material.count
      /\ material'.total = material.total /\ material'.listed = material.listed
      /\ material'.dir = [material.dir EXCEPT ![ManifestName] = Manifest]
  BY <1>1 DEF Inv, TypeOK
<1>3. \A q \in Paths \ {ManifestName} : material'.dir[q] = material.dir[q]
  BY <1>2, DeclaredFacts DEF Inv
<1>4. StagedFiles' = StagedFiles
  BY <1>1, <1>2 DEF StagedFiles
<1>5. \A i \in 1 .. material.count : case.declared[i] \in Paths
  BY <1>1, DeclaredFacts DEF Inv
<1>6. Batch'
  BY <1>1, <1>2, <1>3, <1>4, <1>5 DEF Batch
<1> QED BY <1>1, <1>2, <1>6 DEF Sealing, Early, Before, Delivering, Undelivered

\* A refused or interrupted capture keeps the staging directory or removes it.
LEMMA SealBrokenStep ==
  ASSUME Inv, Batch, Sealing, SealRefused \/ SealStopped
  PROVE  Batch' /\ Sealing'
<1>1. /\ pc' \in {"evidence-failed", "stopped"} /\ work' = work /\ case' = case
      /\ material' \in {material, NoMaterial}
      /\ pc' = "evidence-failed" => material' = NoMaterial
  BY DEF SealRefused, SealStopped, sealFrame
<1>2. Sealing'
  BY <1>1 DEF Sealing, NoMaterial, Early, Before, Delivering, Undelivered
<1>3. CASE material' = material
  BY <1>1, <1>2, <1>3, BatchStays
<1>4. CASE material' = NoMaterial
  <2>1. material'.count = 0 /\ material'.total = 0 /\ material'.status = "none"
    BY <1>4 DEF NoMaterial
  <2>2. StagedFiles' = {}
    BY <2>1 DEF StagedFiles
  <2>3. Bytes(work, StagedFiles)' = 0
    BY <2>2, BytesOfNone
  <2>4. Len(case'.declared) \in Nat /\ TotalBound \in Nat
    BY <1>1, DeclaredFacts, LimitsAssumption DEF Inv
  <2> QED BY <1>2, <2>1, <2>3, <2>4 DEF Batch
<1> QED BY <1>1, <1>3, <1>4

LEMMA MaterialStep ==
  Inv /\ Batch /\ Sealing /\ [Next]_vars => Batch' /\ Sealing'
<1> SUFFICES ASSUME Inv, Batch, Sealing, [Next]_vars
             PROVE  Batch' /\ Sealing'
  OBVIOUS
<1>1. CASE DeliveryNext /\ UNCHANGED <<case, trace, issued, plain, sealVars>>
  <2>1. pc \in Early /\ pc' \in Early
    BY <1>1, DeliveryFrame DEF Inv, Early, Before
  <2> QED BY <1>1, <2>1, NothingSealed DEF sealVars
<1>2. CASE Work
  <2>1. /\ pc \in {"ready", "working"} /\ pc' \in {"working", "ended"}
        /\ case' = case /\ material' = material
    BY <1>2 DEF Work, StartWorker, Write, Stage, Untrack, Rename, Commit,
                DropIndex, WorkerEnds, GitCommand, Command, sealVars
  <2> QED BY <2>1, NothingSealed DEF Early
<1>3. CASE Capture
  <2>1. /\ pc = "ended" /\ UNCHANGED <<work, case, material>>
        /\ pc' = IF case.declared = <<>> THEN "checking" ELSE "sealing"
    BY <1>3 DEF Capture
  <2> QED BY <2>1, BatchStays DEF Sealing, Early, Before, Delivering, Undelivered
<1>4. CASE Seal
  BY <1>4, SealFileStep, SealFinishStep, SealBrokenStep DEF Seal
<1>5. CASE Check
  <2>1. /\ pc \in {"ended", "checking", "commands"}
        /\ pc' \in {"stopped", "commands", "completed"}
        /\ pc' # "stopped" => pc # "ended"
        /\ UNCHANGED <<work, case, material>>
    BY <1>5 DEF Check, CheckFiles, RunCommand, Complete, CheckStopped, checkFrame
  <2> QED BY <2>1, BatchStays DEF Sealing, Early, Before, Delivering, Undelivered
<1>6. CASE UNCHANGED vars
  <2>1. UNCHANGED <<work, case, material, pc>>
    BY <1>6 DEF vars, deliveryVars
  <2> QED BY <2>1, BatchStays DEF Sealing, NoMaterial, Empty
<1> QED BY <1>1, <1>2, <1>3, <1>4, <1>5, <1>6 DEF Next

LEMMA MaterialInvariant == Spec => [](Batch /\ Sealing)
<1>1. Init => Batch /\ Sealing
  <2> SUFFICES ASSUME Init PROVE Batch /\ Sealing
    OBVIOUS
  <2>1. /\ material.count = 0 /\ material.total = 0 /\ material.status = "none"
        /\ material = NoMaterial
    BY DEF Init, NoMaterial
  <2>2. StagedFiles = {}
    BY <2>1 DEF StagedFiles
  <2>3. Bytes(work, StagedFiles) = 0
    BY <2>2, BytesOfNone
  <2>4. Len(case.declared) \in Nat /\ TotalBound \in Nat
    BY Initially, DeclaredFacts, LimitsAssumption DEF Inv
  <2>5. Batch
    BY <2>1, <2>3, <2>4 DEF Batch
  <2>6. pc = "fixture"
    BY DEF Init, DeliveryInit
  <2> QED BY <2>1, <2>5, <2>6 DEF Sealing
<1> QED BY <1>1, MaterialStep, Invariant, PTL DEF Spec

LEMMA WholeOrNothing ==
  ASSUME TypeOK, Batch, Sealing
  PROVE  MaterialAllOrNothing
<1> DEFINE files == {case.declared[i] : i \in DOMAIN case.declared}
<1>1. DOMAIN case.declared = 1 .. Len(case.declared)
  BY DeclaredFacts
<1>2. ASSUME material.status = "sealed"
      PROVE  /\ \A p \in files : material.listed[p] = work[p] /\ work[p] \in Files
             /\ \A p \in files \ {ManifestName} : material.dir[p] = work[p]
             /\ \A p \in files : Size[work[p]] <= FileBound
             /\ MapThenSumSet(LAMBDA p : Size[work[p]], files) <= TotalBound
  <2>1. material.count = Len(case.declared) /\ files = StagedFiles
    BY <1>1, <1>2 DEF Batch, StagedFiles
  <2>2. Bytes(work, files) <= TotalBound
    BY <2>1 DEF Batch
  <2> HIDE DEF files
  <2>3. MapThenSumSet(LAMBDA p : Size[work[p]], files) <= TotalBound
    BY <2>2 DEF Bytes
  <2> QED BY <1>1, <2>1, <2>3 DEF Batch, files
<1>3. pc \in {"checking", "commands", "completed"} /\ files # {} =>
        material.status = "sealed"
  <2>1. case.declared = <<>> => files = {}
    OBVIOUS
  <2> QED BY <2>1 DEF Sealing
<1>4. pc = "evidence-failed" => material.status = "none"
  BY DEF Sealing
<1> QED BY <1>2, <1>3, <1>4 DEF MaterialAllOrNothing

-----------------------------------------------------------------------------
(* The selftest and the run *)

\* The trace begins where it must, and every command is in it.
Begun ==
  pc \notin Before \cup {"ready"} =>
    /\ 1 \in DOMAIN trace /\ trace[1] = Event("thread.started")
    /\ Commands = 0 .. issued - 1

\* No fixture that was copied leads out of the workspace.
Enclosed ==
  pc \notin {"fixture", "preflight-failed"} =>
    \A p \in Paths : job.fixture[p] # "outer"

\* Only a subject brings .git entries along.
Bare == \A p \in Meta \ job.mounted : work[p] = Absent

\* Nothing but what is declared is held against the worker.
Unbiased ==
  /\ pc \in {"commands", "completed"} =>
       verdict.files = FilesHold(case, work, final.changed)
  /\ \A i \in DOMAIN results :
       ~results[i].passed =>
         \E n \in case.commands[i].needs : Opened(work, n[1]) # {n[2]}
  /\ pc = "completed" =>
       /\ Len(results) = Len(case.commands)
       /\ /\ case.text => FinalMessage = "right"
          /\ verdict.files
          /\ \A i \in DOMAIN results : results[i].passed
          /\ TraceHolds /\ ~Mutated
          => verdict.supported

CommandsIn(u) ==
  {u[i].id : i \in {j \in DOMAIN u : u[j].item = "command_execution"}}

LEMMA CommandsOfMore ==
  ASSUME trace \in Seq(Events), NEW u \in Seq(Events), trace' = trace \o u
  PROVE  Commands' = Commands \cup CommandsIn(u)
<1> DEFINE n == Len(trace)
           m == Len(u)
<1>1. /\ DOMAIN trace' = 1 .. n + m /\ n \in Nat /\ m \in Nat
      /\ DOMAIN trace = 1 .. n
      /\ \A i \in 1 .. n : trace'[i] = trace[i]
      /\ \A i \in 1 .. m : trace'[n + i] = u[i]
  BY Longer
<1>2. DOMAIN u = 1 .. m
  BY LenProperties
<1> HIDE DEF n, m
<1>3. /\ \A i \in 1 .. n : i \in 1 .. n + m
      /\ \A i \in 1 .. m : n + i \in 1 .. n + m
      /\ \A i \in 1 .. n + m : i \in 1 .. n \/ \E j \in 1 .. m : i = n + j
  <2>1. ASSUME NEW i \in 1 .. n + m, i \notin 1 .. n
        PROVE  i - n \in 1 .. m /\ i = n + (i - n)
    BY <1>1, <2>1
  <2>2. /\ \A i \in 1 .. n : i \in 1 .. n + m
        /\ \A i \in 1 .. m : n + i \in 1 .. n + m
    BY <1>1
  <2> QED BY <2>1, <2>2
<1>4. Commands' = {trace'[i].id : i \in {j \in DOMAIN trace' :
                                           trace'[j].item = "command_execution"}}
  BY DEF Commands
<1>5. ASSUME NEW x \in Commands'
      PROVE  x \in Commands \cup CommandsIn(u)
  <2>1. PICK i \in DOMAIN trace' : trace'[i].item = "command_execution"
                                   /\ x = trace'[i].id
    BY <1>4
  <2>2. CASE i \in 1 .. n
    BY <1>1, <2>1, <2>2 DEF Commands
  <2>3. CASE \E j \in 1 .. m : i = n + j
    BY <1>1, <1>2, <2>1, <2>3 DEF CommandsIn
  <2> QED BY <1>1, <1>3, <2>1, <2>2, <2>3
<1>6. ASSUME NEW x \in Commands
      PROVE  x \in Commands'
  <2>1. PICK i \in DOMAIN trace : trace[i].item = "command_execution"
                                  /\ x = trace[i].id
    BY DEF Commands
  <2>2. i \in DOMAIN trace' /\ trace'[i] = trace[i]
    BY <1>1, <1>3, <2>1
  <2> QED BY <1>4, <2>1, <2>2
<1>7. ASSUME NEW x \in CommandsIn(u)
      PROVE  x \in Commands'
  <2>1. PICK i \in DOMAIN u : u[i].item = "command_execution" /\ x = u[i].id
    BY DEF CommandsIn
  <2>2. n + i \in DOMAIN trace' /\ trace'[n + i] = u[i]
    BY <1>1, <1>2, <1>3, <2>1
  <2> QED BY <1>4, <2>1, <2>2
<1> QED BY <1>5, <1>6, <1>7

LEMMA ClosingCommands ==
  ASSUME NEW how \in Closings
  PROVE  CommandsIn(Closing(how)) = IF how = "cut" THEN {issued} ELSE {}
<1> DEFINE u == Closing(how)
<1>1. CASE how \in {"right", "wrong", "recovered"}
  <2>1. DOMAIN u = 1 .. 3 /\ u[1].item # "command_execution"
        /\ u[2].item # "command_execution" /\ u[3].item # "command_execution"
    BY <1>1 DEF Closing, TurnCompleted, Says, Event
  <2> QED BY <1>1, <2>1 DEF CommandsIn
<1>2. CASE how = "failed"
  <2>1. DOMAIN u = 1 .. 2 /\ u[1].item # "command_execution"
        /\ u[2].item # "command_execution"
    BY <1>2 DEF Closing, Says, Event
  <2> QED BY <1>2, <2>1 DEF CommandsIn
<1>3. CASE how = "torn"
  <2>1. DOMAIN u = 1 .. 3 /\ u[1].item # "command_execution"
        /\ u[2].item # "command_execution" /\ u[3].item # "command_execution"
    BY <1>3 DEF Closing, TurnCompleted, Says, Event
  <2> QED BY <1>3, <2>1 DEF CommandsIn
<1>4. CASE how = "cut"
  <2>1. DOMAIN u = 1 .. 2 /\ u[1].item # "command_execution"
        /\ u[2].item = "command_execution" /\ u[2].id = issued
    BY <1>4 DEF Closing, Says, CommandEvent
  <2> QED BY <1>4, <2>1 DEF CommandsIn
<1> QED BY <1>1, <1>2, <1>3, <1>4 DEF Closings

\* What is appended to a trace leaves its beginning alone.
LEMMA BeginningStays ==
  ASSUME trace \in Seq(Events), 1 \in DOMAIN trace, NEW u \in Seq(Events),
         trace' = trace \o u
  PROVE  1 \in DOMAIN trace' /\ trace'[1] = trace[1]
<1>1. /\ DOMAIN trace' = 1 .. Len(trace) + Len(u) /\ Len(trace) \in Nat
      /\ Len(u) \in Nat /\ DOMAIN trace = 1 .. Len(trace)
      /\ \A i \in 1 .. Len(trace) : trace'[i] = trace[i]
  BY Longer
<1> QED BY <1>1

LEMMA BegunStep ==
  ASSUME Inv, Begun, [Next]_vars
  PROVE  Begun'
<1>1. CASE DeliveryNext /\ UNCHANGED <<case, trace, issued, plain, sealVars>>
  BY <1>1, DeliveryFrame DEF Inv, Begun
<1>2. CASE StartWorker
  <2>1. trace' = <<Event("thread.started")>> /\ pc = "ready" /\ issued' = issued
    BY <1>2 DEF StartWorker
  <2>2. 1 \in DOMAIN trace' /\ trace'[1] = Event("thread.started")
    BY <2>1
  <2>3. pc' = "working" /\ pc' \notin Before \cup {"ready"}
    BY <1>2 DEF StartWorker, Before, Delivering, Undelivered
  <2>4. Plodding'
    BY <1>2, <2>3, StartStep DEF Inv, Telling
  <2> QED BY <2>2, <2>4 DEF Begun, Plodding
<1>3. CASE Command
  <2> DEFINE u == <<CommandEvent("item.started"), CommandEvent("item.completed")>>
  <2>1. pc = "working" /\ pc' = pc /\ Telling' /\ issued \in Nat
        /\ trace \in Seq(Events)
    BY <1>3, CommandTold DEF Inv, TypeOK
  <2>2. u \in Seq(Events) /\ trace' = trace \o u
    BY <1>3, <2>1, EventsAreTyped, FewEvents DEF Command
  <2>3. 1 \in DOMAIN trace /\ trace[1] = Event("thread.started")
    BY <2>1 DEF Begun, Before, Delivering, Undelivered
  <2> HIDE DEF u
  <2>4. 1 \in DOMAIN trace' /\ trace'[1] = Event("thread.started")
    BY <2>1, <2>2, <2>3, BeginningStays
  <2> QED BY <2>1, <2>4 DEF Begun, Telling, Plodding
<1>4. CASE \E how \in Closings : WorkerEnds(how)
  <2>1. PICK how \in Closings : WorkerEnds(how)
    BY <1>4
  <2>2. /\ pc = "working" /\ trace' = trace \o Closing(how)
        /\ issued' = issued + (IF how = "cut" THEN 1 ELSE 0)
    BY <2>1 DEF WorkerEnds
  <2>3. issued \in Nat /\ trace \in Seq(Events) /\ Plodding
    BY <2>2 DEF Inv, TypeOK, Telling
  <2>4. Closing(how) \in Seq(Events)
    BY <2>3, ClosingIsTyped
  <2>5. 1 \in DOMAIN trace /\ trace[1] = Event("thread.started")
    BY <2>2 DEF Begun, Before, Delivering, Undelivered
  <2>6. 1 \in DOMAIN trace' /\ trace'[1] = Event("thread.started")
    BY <2>2, <2>3, <2>4, <2>5, BeginningStays
  <2>7. Commands' = (0 .. issued - 1) \cup IF how = "cut" THEN {issued} ELSE {}
    BY <2>2, <2>3, <2>4, CommandsOfMore, ClosingCommands DEF Plodding
  <2>8. Commands' = 0 .. issued' - 1
    BY <2>2, <2>3, <2>7
  <2> QED BY <2>6, <2>8 DEF Begun
<1>5. CASE Capture \/ Seal \/ Check \/ UNCHANGED vars
  <2>1. UNCHANGED <<trace, issued>>
        /\ (pc \in Before \cup {"ready"} => pc' = pc)
    BY <1>5
    DEF Capture, Seal, SealFile, SealRefused, SealFinish, SealStopped, sealFrame,
        Check, CheckFiles, RunCommand, Complete, CheckStopped, checkFrame, vars,
        deliveryVars, Before, Delivering, Undelivered
  <2> QED BY <2>1 DEF Begun, Commands, Event
<1> QED BY <1>1, <1>2, <1>3, <1>4, <1>5
        DEF Next, Work, Write, Stage, Untrack, Rename, Commit, DropIndex, GitCommand

LEMMA EnclosedStep ==
  ASSUME Inv, Enclosed, [Next]_vars
  PROVE  Enclosed'
<1>1. CASE DeliveryNext
  <2>1. job' = job
    BY <1>1, DeliveryFrame DEF Inv
  <2>2. pc = "fixture" => \/ pc' \in {"fixture", "preflight-failed"}
                          \/ \A p \in Paths : job.fixture[p] # "outer"
    BY <1>1 DEF DeliveryNext, Edit, CopyFixture, BeginCopy, ListEntry, CopyEntry,
                Copied, Measure, InitGit, DeliveryFails, Preflight
  <2>3. pc # "preflight-failed"
    BY <1>1, DeliveryFrame DEF Inv, Delivering
  <2> QED BY <2>1, <2>2, <2>3 DEF Enclosed
<1>2. CASE Work \/ Capture \/ Seal \/ Check \/ UNCHANGED vars
  <2>1. UNCHANGED job /\ (pc \in {"fixture", "preflight-failed"} => pc' = pc)
    BY <1>2
    DEF Work, StartWorker, Write, Stage, Untrack, Rename, Commit, DropIndex,
        WorkerEnds, GitCommand, Command,
        Capture, Seal, SealFile, SealRefused, SealFinish, SealStopped, sealFrame,
        Check, CheckFiles, RunCommand, Complete, CheckStopped, checkFrame, vars,
        deliveryVars
  <2> QED BY <2>1 DEF Enclosed
<1> QED BY <1>1, <1>2 DEF Next

\* Nothing makes a .git entry outside the mount.
LEMMA BareStep ==
  ASSUME Inv, Bare, [Next]_vars
  PROVE  Bare'
<1>1. Inv'
  BY StepsKeep
<1>2. Pointee \notin Meta /\ Meta \subseteq Paths /\ job \in Jobs /\ work \in Trees
  BY Kinds DEF Inv, TypeOK, DeliveryTypeOK
<1>3. CASE DeliveryNext
  <2>1. job' = job
    BY <1>3, DeliveryFrame DEF Inv
  <2>2. CASE \E p \in Paths : CopyEntry(p)
    <3>1. PICK p \in Paths : CopyEntry(p)
      BY <2>2
    <3>2. CASE work' = work
      BY <2>1, <3>2 DEF Bare
    <3>3. CASE \E c : work' = [work EXCEPT ![Through(work, p)] = c]
      <4>1. p \in job.mounted
        BY <3>1 DEF CopyEntry, Inv, DeliveryInv, Stepwise
      <4>2. \A m \in Meta \ job.mounted : m # Through(work, p)
        BY <1>2, <4>1 DEF Through
      <4> QED BY <1>2, <2>1, <3>3, <4>2 DEF Bare, Trees
    <3> QED BY <3>1, <3>2, <3>3 DEF CopyEntry, Copied
  <2>3. CASE CopyFixture
    BY <1>2, <2>1, <2>3, JobFacts DEF CopyFixture, Bare
  <2>4. CASE work' = work
    BY <2>1, <2>4 DEF Bare
  <2> QED BY <1>3, <2>2, <2>3, <2>4
          DEF DeliveryNext, Edit, BeginCopy, ListEntry, Measure, InitGit,
              DeliveryFails
<1>4. CASE Work
  <2>1. /\ pc \notin Before /\ pc' \notin Before
        /\ UNCHANGED <<job, delivered>>
    BY <1>4
    DEF Work, StartWorker, Write, Stage, Untrack, Rename, Commit, DropIndex,
        WorkerEnds, GitCommand, Command, Before, Delivering, Undelivered
  <2> QED BY <1>1, <2>1 DEF Inv, Indexing, Bare
<1>5. CASE Capture \/ Seal \/ Check \/ UNCHANGED vars
  <2>1. UNCHANGED <<job, work>>
    BY <1>5
    DEF Capture, Seal, SealFile, SealRefused, SealFinish, SealStopped, sealFrame,
        Check, CheckFiles, RunCommand, Complete, CheckStopped, checkFrame, vars,
        deliveryVars
  <2> QED BY <2>1 DEF Bare
<1> QED BY <1>3, <1>4, <1>5 DEF Next

\* The judgment as it was, of what it was about.
LEMMA UnbiasedStays ==
  ASSUME Unbiased, UNCHANGED <<work, case, final, results, verdict, trace, pc>>
  PROVE  Unbiased'
<1>1. FilesHold(case, work, final.changed)' = FilesHold(case, work, final.changed)
  BY DEF FilesHold, May, Opened
<1>2. ASSUME NEW i \in DOMAIN results, ~results[i].passed
      PROVE  \E n \in case'.commands[i].needs : Opened(work, n[1])' # {n[2]}
  BY <1>2 DEF Unbiased, Opened
<1>3. (FinalMessage' = FinalMessage) /\ (TraceHolds' <=> TraceHolds)
      /\ (Mutated' <=> Mutated)
  BY DEF FinalMessage, Messages, TraceHolds, Seen, Commands, Mutated
<1> QED BY <1>1, <1>2, <1>3 DEF Unbiased

LEMMA UnbiasedStep ==
  ASSUME Inv, Unbiased, [Next]_vars
  PROVE  Unbiased'
<1>1. CASE \/ DeliveryNext /\ UNCHANGED <<case, trace, issued, plain, sealVars>>
           \/ Work \/ Capture \/ Seal
  <2>1. /\ pc \notin {"commands", "completed", "stopped"}
        /\ pc' \notin {"commands", "completed"}
        /\ results' = results
    <3>1. CASE DeliveryNext /\ UNCHANGED <<case, trace, issued, plain, sealVars>>
      <4>1. pc \in Delivering /\ pc' \in Before \cup {"ready"}
        BY <3>1, DeliveryFrame DEF Inv
      <4> QED BY <3>1, <4>1 DEF Before, Delivering, Undelivered, sealVars
    <3>2. CASE Work \/ Capture \/ Seal
      BY <3>2
      DEF Work, StartWorker, Write, Stage, Untrack, Rename, Commit, DropIndex,
          WorkerEnds, GitCommand, Command, sealVars,
          Capture, Seal, SealFile, SealRefused, SealFinish, SealStopped, sealFrame
    <3> QED BY <1>1, <3>1, <3>2
  <2>2. results' = <<>>
    BY <2>1 DEF Inv, Judged
  <2> QED BY <2>1, <2>2, EmptySeq DEF Unbiased
<1>2. CASE CheckFiles
  <2>1. /\ pc' \in {"stopped", "commands"} /\ pc = "checking"
        /\ verdict' = [verdict EXCEPT !.files =
                         FilesHold(case, work, final.changed)]
        /\ UNCHANGED <<work, case, final, results>>
    BY <1>2 DEF CheckFiles, checkFrame
  <2>2. verdict'.files = FilesHold(case, work, final.changed) /\ results' = <<>>
    BY <2>1 DEF Inv, TypeOK, Judged
  <2>3. FilesHold(case, work, final.changed)' = FilesHold(case, work, final.changed)
    BY <2>1 DEF FilesHold, May, Opened
  <2> QED BY <2>1, <2>2, <2>3, EmptySeq DEF Unbiased
<1>3. CASE RunCommand
  <2> DEFINE k == Len(results)
             prog == case.commands[k + 1]
             R == [passed: BOOLEAN, mutated: BOOLEAN, derived: SUBSET Paths]
  <2>1. /\ pc = "commands" /\ pc' = "commands"
        /\ UNCHANGED <<work, case, final, verdict>>
        /\ \E r \in R :
             /\ results' = Append(results, r)
             /\ ~r.passed => \E n \in prog.needs :
                               Opened(CommandStart.tree, n[1]) # {n[2]}
    <3> DEFINE s == Left(prog, CommandStart)
               r(passed, away) ==
                 [passed |-> passed, mutated |-> ~SameBytes(s.tree, work, Paths),
                  derived |-> Derived(s, ChangedFiles(s, away))]
    <3>1. PICK passed \in BOOLEAN, away \in RenamedAway(s) :
            /\ results' = Append(results, r(passed, away))
            /\ ~passed => \E n \in prog.needs :
                            Opened(CommandStart.tree, n[1]) # {n[2]}
      BY <1>3 DEF RunCommand
    <3>2. r(passed, away) \in R /\ r(passed, away).passed = passed
      BY DEF Derived, SameBytes
    <3> HIDE DEF r, R
    <3>3. \E x \in R : /\ results' = Append(results, x)
                       /\ ~x.passed => \E n \in prog.needs :
                               Opened(CommandStart.tree, n[1]) # {n[2]}
      BY <3>1, <3>2
    <3> QED BY <1>3, <3>3 DEF RunCommand, checkFrame
  <2>2. PICK r \in R :
             /\ results' = Append(results, r)
             /\ ~r.passed => \E n \in prog.needs : Opened(work, n[1]) # {n[2]}
    <3>1. CommandStart.tree = work
      BY WorkerIsTyped DEF Inv, CommandStart
    <3> QED BY <2>1, <3>1
  <2>3. results \in Seq(R) /\ k \in Nat /\ DOMAIN results = 1 .. k
    BY LenProperties DEF Inv, TypeOK
  <2> HIDE DEF R, k
  <2>4. /\ DOMAIN results' = 1 .. k + 1
        /\ \A i \in 1 .. k : results'[i] = results[i]
        /\ results'[k + 1] = r
    BY <2>2, <2>3, AppendProperties DEF k
  <2>5. \A i \in 1 .. k + 1 : i \in 1 .. k \/ i = k + 1
    BY <2>3
  <2>6. ASSUME NEW i \in DOMAIN results', ~results'[i].passed
        PROVE  \E n \in case'.commands[i].needs : Opened(work, n[1])' # {n[2]}
    <3>1. \E n \in case.commands[i].needs : Opened(work, n[1]) # {n[2]}
      BY <2>2, <2>3, <2>4, <2>5, <2>6 DEF Unbiased
    <3> QED BY <2>1, <3>1 DEF Opened
  <2>7. FilesHold(case, work, final.changed)' = FilesHold(case, work, final.changed)
    BY <2>1 DEF FilesHold, May, Opened
  <2> QED BY <2>1, <2>6, <2>7 DEF Unbiased
<1>4. CASE Complete
  <2> DEFINE passed == /\ case.text => FinalMessage = "right"
                       /\ verdict.files
                       /\ \A i \in DOMAIN results : results[i].passed
                       /\ TraceHolds
  <2>1. /\ pc = "commands" /\ Len(results) = Len(case.commands)
        /\ verdict' = [verdict EXCEPT !.passed = passed,
                                      !.supported = passed /\ ~Mutated]
        /\ UNCHANGED <<work, case, trace, final, results>>
    BY <1>4 DEF Complete, checkFrame
  <2> HIDE DEF passed
  <2>2. verdict'.files = verdict.files /\ verdict'.supported = (passed /\ ~Mutated)
    BY <2>1 DEF Inv, TypeOK
  <2>3. FilesHold(case, work, final.changed)' = FilesHold(case, work, final.changed)
    BY <2>1 DEF FilesHold, May, Opened
  <2>4. ASSUME NEW i \in DOMAIN results, ~results[i].passed
        PROVE  \E n \in case'.commands[i].needs : Opened(work, n[1])' # {n[2]}
    BY <2>1, <2>4 DEF Unbiased, Opened
  <2>5. (FinalMessage' = FinalMessage) /\ (TraceHolds' <=> TraceHolds)
        /\ (Mutated' <=> Mutated)
    BY <2>1 DEF FinalMessage, Messages, TraceHolds, Seen, Commands, Mutated
  <2>6. (/\ case.text => FinalMessage = "right"
         /\ verdict.files
         /\ \A i \in DOMAIN results : results[i].passed
         /\ TraceHolds /\ ~Mutated) => verdict'.supported
    BY <2>2 DEF passed
  <2> QED BY <2>1, <2>2, <2>3, <2>4, <2>5, <2>6 DEF Unbiased
<1>5. CASE CheckStopped
  <2>1. pc' = "stopped" /\ UNCHANGED <<work, case, results>>
    BY <1>5 DEF CheckStopped, checkFrame
  <2> QED BY <2>1 DEF Unbiased, Opened
<1>6. CASE UNCHANGED vars
  <2>1. UNCHANGED <<work, case, final, results, verdict, trace, pc>>
    BY <1>6 DEF vars, deliveryVars
  <2> QED BY <2>1, UnbiasedStays
<1> QED BY <1>1, <1>2, <1>3, <1>4, <1>5, <1>6 DEF Next, Check

LEMMA OracleInvariant == Spec => [](Begun /\ Enclosed /\ Bare /\ Unbiased)
<1>1. Init => Begun /\ Enclosed /\ Bare /\ Unbiased
  BY EmptySeq, Kinds DEF Init, DeliveryInit, Begun, Enclosed, Bare, Unbiased,
                         Before, Delivering, Empty
<1>2. Inv /\ (Begun /\ Enclosed /\ Bare /\ Unbiased) /\ [Next]_vars
        => (Begun /\ Enclosed /\ Bare /\ Unbiased)'
  BY BegunStep, EnclosedStep, BareStep, UnbiasedStep
<1> QED BY <1>1, <1>2, Invariant, PTL DEF Spec

\* A clean trace satisfies the trace assertions.
LEMMA CleanMeans ==
  ASSUME TypeOK, Begun, pc = "completed", CleanTrace
  PROVE  TraceHolds /\ (case.text => FinalMessage = "right")
<1> DEFINE n == Len(trace)
<1>1. /\ trace \in Seq(Events) /\ n \in Nat /\ DOMAIN trace = 1 .. n
      /\ issued \in Nat /\ case.limit \in Nat
  BY CaseFacts, LenProperties DEF TypeOK
<1>2. /\ 1 \in DOMAIN trace /\ trace[1] = Event("thread.started")
      /\ Commands = 0 .. issued - 1
  BY DEF Begun, Before, Delivering, Undelivered
<1>3. /\ trace[n] = TurnCompleted /\ n \in DOMAIN trace /\ n # 1
  <2>1. trace[n] = TurnCompleted /\ n \in DOMAIN trace
    BY <1>1, <1>2 DEF CleanTrace
  <2>2. TurnCompleted.type # Event("thread.started").type
    BY DEF TurnCompleted, Event
  <2> QED BY <1>2, <2>1, <2>2
<1>4. Seen("thread.started") /\ Seen("turn.completed")
  BY <1>2, <1>3 DEF Seen, Event, TurnCompleted
<1>5. ~Seen("malformed") /\ ~Seen("turn.failed") /\ ~Seen("error")
  BY DEF CleanTrace, Seen
<1>6. Cardinality(Commands) <= case.limit
  <2>1. Cardinality(0 .. issued - 1)
          = IF 0 > issued - 1 THEN 0 ELSE (issued - 1) - 0 + 1
    BY <1>1, FS_Interval
  <2>2. issued <= case.limit
    BY DEF CleanTrace
  <2> QED BY <1>1, <1>2, <2>1, <2>2
<1>7. ASSUME case.text
      PROVE  FinalMessage = "right"
  <2>1. trace[n - 1] = Says("right") /\ n - 1 \in DOMAIN trace
    BY <1>1, <1>3, <1>7 DEF CleanTrace
  <2>2. n - 1 \in Messages /\ n \notin Messages /\ Messages \subseteq 1 .. n
    BY <1>1, <1>3, <2>1 DEF Messages, Says, TurnCompleted, Event
  <2>3. \A i \in Messages : i \in Nat /\ i <= n - 1
    BY <1>1, <2>2
  <2>4. Max(Messages) = n - 1
    <3>1. \A i \in Messages : n - 1 >= i
      BY <1>1, <2>3
    <3>2. ASSUME NEW x \in Messages, \A i \in Messages : x >= i
          PROVE  x = n - 1
      <4>1. x >= n - 1 /\ x <= n - 1 /\ x \in Nat /\ n \in Nat
        BY <1>1, <2>2, <2>3, <3>2
      <4> HIDE DEF n
      <4> QED BY <4>1
    <3> HIDE DEF n
    <3> QED BY <2>2, <3>1, <3>2, Zenon DEF Max
  <2> QED BY <2>1, <2>2, <2>4 DEF FinalMessage, Says
<1> QED BY <1>4, <1>5, <1>6, <1>7 DEF TraceHolds

\* What commands 1 to k make of a tree, path by path: the last edit counts.
LastEdits(c, k, p) == {j \in 1 .. k : c.commands[j].edits[p] # Same}
Latest(L) == CHOOSE j \in L : \A i \in L : i <= j
Onward(c, t, k) ==
  [p \in Paths |-> IF LastEdits(c, k, p) = {} THEN t[p]
                   ELSE c.commands[Latest(LastEdits(c, k, p))].edits[p]]

LEMMA OnwardStep ==
  ASSUME NEW c, NEW t, NEW k \in Nat, k # 0
  PROVE  Onward(c, t, k) = Edited(c.commands[k], Onward(c, t, k - 1))
<1> SUFFICES ASSUME NEW p \in Paths
             PROVE  Onward(c, t, k)[p]
                      = IF c.commands[k].edits[p] = Same THEN Onward(c, t, k - 1)[p]
                        ELSE c.commands[k].edits[p]
  BY DEF Onward, Edited
<1> DEFINE e(j) == c.commands[j].edits[p]
           L == LastEdits(c, k, p)
           K == LastEdits(c, k - 1, p)
<1>1. /\ \A j : j \in L <=> j \in 1 .. k /\ e(j) # Same
      /\ \A j : j \in K <=> j \in 1 .. k - 1 /\ e(j) # Same
      /\ \A j : j \in 1 .. k <=> j \in 1 .. k - 1 \/ j = k
  BY DEF LastEdits
<1>2. CASE e(k) = Same
  <2>1. L = K
    BY <1>1, <1>2
  <2> HIDE DEF L, K
  <2>2. /\ Onward(c, t, k)[p] = IF L = {} THEN t[p] ELSE e(Latest(L))
        /\ Onward(c, t, k - 1)[p] = IF K = {} THEN t[p] ELSE e(Latest(K))
    BY DEF Onward, L, K
  <2> QED BY <1>2, <2>1, <2>2
<1>3. CASE e(k) # Same
  <2>1. k \in L /\ \A j \in L : j <= k /\ j \in Nat
    BY <1>1, <1>3
  <2>2. Latest(L) = k
    <3> HIDE DEF L
    <3>1. \A j \in L : (\A i \in L : i <= j) => j = k
      <4> SUFFICES ASSUME NEW j \in L, k <= j PROVE j = k
        BY <2>1
      <4> QED BY <2>1
    <3> QED BY <2>1, <3>1 DEF Latest
  <2> HIDE DEF L
  <2>3. Onward(c, t, k)[p] = IF L = {} THEN t[p] ELSE e(Latest(L))
    BY DEF Onward, L
  <2> QED BY <1>3, <2>1, <2>2, <2>3
<1> QED BY <1>2, <1>3

\* Every command finds what it needs in some tree that is t wherever no earlier
\* command edits it.
FoundFrom(c, t) ==
  \A k \in DOMAIN c.commands :
    \E u : /\ May(u, c.commands[k].needs)
           /\ \A p \in Paths :
                (\A j \in 1 .. k - 1 : c.commands[j].edits[p] = Same)
                  => u[p] = t[p]

\* So it is in the one workspace of a selftest.
LEMMA OracleBefore ==
  ASSUME NEW c, NEW s, s.tree = [p \in Paths |-> s.tree[p]],
         c.commands \in Seq(Programs), OracleHolds(c, s)
  PROVE  FilesHold(c, s.tree, ChangedFiles(s, {})) /\ FoundFrom(c, s.tree)
<1> DEFINE N == Len(c.commands)
           F(f) == [k \in 0 .. N |-> IF k = 0 THEN s.tree
                                     ELSE Edited(c.commands[k], f[k - 1])]
           after == CHOOSE f : f = F(f)
<1>1. N \in Nat /\ DOMAIN c.commands = 1 .. N
  BY LenProperties
<1>2. /\ FilesHold(c, s.tree, ChangedFiles(s, {}))
      /\ \A k \in DOMAIN c.commands : May(after[k - 1], c.commands[k].needs)
  BY DEF OracleHolds
<1> HIDE DEF N
<1>3. after = F(after)
  <2> DEFINE g == [k \in 0 .. N |-> Onward(c, s.tree, k)]
  <2>1. ASSUME NEW k \in 0 .. N
        PROVE  g[k] = IF k = 0 THEN s.tree ELSE Edited(c.commands[k], g[k - 1])
    <3>1. CASE k = 0
      <4>1. \A p \in Paths : LastEdits(c, 0, p) = {}
        BY DEF LastEdits
      <4>2. Onward(c, s.tree, 0) = s.tree
        BY <4>1 DEF Onward
      <4> QED BY <3>1, <4>2
    <3>2. CASE k # 0
      <4>1. k \in Nat /\ k - 1 \in 0 .. N
        BY <1>1, <3>2
      <4>2. g[k - 1] = Onward(c, s.tree, k - 1) /\ g[k] = Onward(c, s.tree, k)
        BY <4>1
      <4> HIDE DEF g
      <4> QED BY <3>2, <4>1, <4>2, OnwardStep
    <3> QED BY <3>1, <3>2
  <2>2. g = F(g)
    BY <2>1
  <2> HIDE DEF g, F
  <2> QED BY <2>2
<1> HIDE DEF after
<1> DEFINE Untouched(k, p) == \A j \in 1 .. k : c.commands[j].edits[p] = Same
           Still == {k \in Nat : k <= N => \A p \in Paths :
                                   Untouched(k, p) => after[k][p] = s.tree[p]}
<1>4. 0 \in Still
  BY <1>1, <1>3
<1>5. ASSUME NEW k \in Still
      PROVE  k + 1 \in Still
  <2> SUFFICES ASSUME k + 1 <= N, NEW p \in Paths, Untouched(k + 1, p)
               PROVE  after[k + 1][p] = s.tree[p]
    OBVIOUS
  <2>1. k + 1 \in 0 .. N /\ k + 1 # 0 /\ (k + 1) - 1 = k /\ k <= N
        /\ k + 1 \in 1 .. k + 1 /\ \A j \in 1 .. k : j \in 1 .. k + 1
    BY <1>1
  <2>2. after[k + 1] = Edited(c.commands[k + 1], after[k])
    BY <1>3, <2>1
  <2>3. after[k + 1][p] = after[k][p]
    BY <2>1, <2>2 DEF Edited
  <2> QED BY <2>1, <2>3
<1>6. Still = Nat
  <2>1. Still \subseteq Nat
    OBVIOUS
  <2> HIDE DEF Still
  <2> QED BY <1>4, <1>5, <2>1, Induction
<1>7. ASSUME NEW k \in DOMAIN c.commands
      PROVE  \E u : /\ May(u, c.commands[k].needs)
                    /\ \A p \in Paths :
                         (\A j \in 1 .. k - 1 : c.commands[j].edits[p] = Same)
                           => u[p] = s.tree[p]
  <2>1. k - 1 \in Nat /\ k - 1 <= N
    BY <1>1
  <2>2. \A p \in Paths : (\A j \in 1 .. k - 1 : c.commands[j].edits[p] = Same)
                           => after[k - 1][p] = s.tree[p]
    BY <1>6, <2>1
  <2> QED BY <1>2, <2>2
<1> QED BY <1>2, <1>7 DEF FoundFrom

\* What the expected result makes of the fixture, when the subject lies outside
\* of what it writes.
LEMMA OverlayFacts ==
  ASSUME Inv, Enclosed, Bare, pc = "completed",
         NEW ov, ov = Overlaid(job.fixture, case.expected),
         Pointee \notin job.mounted,
         \A p \in job.mounted : case.expected[p] = Absent,
         \A p \in Paths \ job.mounted : work[p] = ov[p]
  PROVE  /\ ov \in Trees
         /\ \A p \in Paths : ov[p] # "outer"
         /\ \A p \in job.mounted : ov[p] = job.fixture[p]
         /\ \A p \in Meta : ov[p] = Absent
<1> DEFINE f == job.fixture
           from(q) == {p \in Paths : case.expected[p] # Absent /\ Through(f, p) = q}
<1>1. /\ f \in Trees /\ \A p \in Meta : f[p] = Absent
      /\ job.mounted \subseteq Paths
      /\ \A p \in Paths : f[p] # "outer"
      /\ case.expected \in [Paths -> Files \cup {Absent}]
  <2>1. job \in Jobs /\ case \in CaseType
    BY CaseFacts, CasesAssumption DEF Inv
  <2> QED BY <2>1, JobFacts DEF Enclosed, CaseType
<1>2. /\ "outer" \notin Files \cup {Absent}
      /\ Files \cup {Absent} \subseteq Contents \cup {Absent}
  BY Kinds DEF Links
<1>3. ASSUME NEW q \in Paths
      PROVE  \/ from(q) = {} /\ ov[q] = f[q]
             \/ from(q) # {} /\ ov[q] \in Files \cup {Absent}
  <2>1. ov[q] = IF from(q) = {} THEN f[q]
                ELSE case.expected[CHOOSE p \in from(q) : TRUE]
    BY DEF Overlaid
  <2>2. from(q) # {} => (CHOOSE p \in from(q) : TRUE) \in from(q)
    OBVIOUS
  <2> QED BY <1>1, <2>1, <2>2
<1>4. ov \in Trees
  <2>1. DOMAIN ov = Paths /\ ov = [q \in Paths |-> ov[q]]
    BY DEF Overlaid
  <2>2. \A q \in Paths : ov[q] \in Contents \cup {Absent}
    BY <1>1, <1>2, <1>3 DEF Trees
  <2> QED BY <2>1, <2>2 DEF Trees
<1>5. \A p \in Paths : ov[p] # "outer"
  BY <1>1, <1>2, <1>3
<1>6. ASSUME NEW p \in job.mounted
      PROVE  ov[p] = f[p]
  <2>1. from(p) = {}
    BY DEF Through
  <2> QED BY <1>1, <1>3, <2>1
<1>7. ASSUME NEW p \in Meta
      PROVE  ov[p] = Absent
  <2>1. CASE p \in job.mounted
    BY <1>1, <1>6, <2>1
  <2>2. CASE p \notin job.mounted
    BY <2>2, Kinds DEF Bare
  <2> QED BY <2>1, <2>2
<1> QED BY <1>4, <1>5, <1>6, <1>7

\* Git reports the same changes in the selftest's workspace and in the worker's.
LEMMA ChangedAlike ==
  ASSUME Inv, Enclosed, Bare, pc = "completed", plain,
         NEW ov, ov = Overlaid(job.fixture, case.expected),
         Pointee \notin job.mounted,
         \A p \in job.mounted : case.expected[p] = Absent /\ work[p] = delivered[p],
         \A p \in Paths \ job.mounted : work[p] = ov[p]
  PROVE  final.changed = ChangedFiles(Resolved(case, job.fixture), {})
<1> DEFINE f == job.fixture
           s == Resolved(case, f)
           open == Paths \ (Ignored \cup Meta)
<1>1. /\ ov \in Trees /\ \A p \in job.mounted : ov[p] = f[p]
      /\ \A p \in Meta : ov[p] = Absent
  BY OverlayFacts
<1>2. f \in Trees /\ (\A p \in Meta : f[p] = Absent) /\ job.mounted \subseteq Paths
      /\ Meta \subseteq Paths
  BY CaseFacts, JobFacts, Kinds DEF Inv
<1>3. Opaque(f) = {} /\ Opaque(ov) = {} /\ Visible(f) = open /\ Visible(ov) = open
  BY <1>1, <1>2 DEF Opaque, Visible
<1>4. /\ s.tree = ov /\ s.head = s.index
      /\ s.index = [p \in Paths |-> IF p \in open THEN f[p] ELSE Absent]
  BY <1>3 DEF Resolved, Prepared
<1>5. ChangedFiles(s, {}) = {p \in open : f[p] # ov[p]}
  <2>1. Staged(s) = {} /\ Embedded(s) = {}
    BY <1>3, <1>4 DEF Staged, Embedded
  <2>2. Unstaged(s) = {p \in open : f[p] # Absent /\ f[p] # ov[p]}
    BY <1>4 DEF Unstaged
  <2>3. Untracked(s) = {p \in open : f[p] = Absent /\ ov[p] # Absent}
    BY <1>3, <1>4 DEF Untracked
  <2> HIDE DEF s
  <2> QED BY <2>1, <2>2, <2>3 DEF ChangedFiles
<1>6. /\ indexed /\ \A p \in Meta : work[p] = delivered[p]
      /\ index = [p \in Paths |->
                    IF p \in Visible(delivered) THEN delivered[p] ELSE Absent]
  BY DEF Inv, Indexing, Before, Delivering, Undelivered
<1>7. Opaque(delivered) = Opaque(work) /\ Visible(delivered) = Visible(work)
  BY <1>6, OpaqueOfMeta
<1>8. Opaque(work) \in {{}, job.mounted} /\ Opaque(work) \subseteq Paths
  BY <1>2 DEF Opaque
<1>9. Paths \ Hidden = open \ Opaque(work)
  <2>1. \A p \in Paths \cap Ignored : index[p] = Absent
    BY <1>6, <1>7 DEF Visible
  <2> QED BY <1>2, <2>1 DEF Hidden
<1>10. \A p \in open \ job.mounted : delivered[p] = f[p]
  BY DEF Inv, DeliveryInv, WorkerStartsAsPlanned, SameBytes, Delivering, Undelivered
<1>11. final.changed = {p \in Paths \ Hidden : work[p] # delivered[p]}
  <2>1. final.changed \cap Paths = {p \in Paths \ Hidden : work[p] # delivered[p]}
    BY PlainExactly DEF PlainWorkerSeenExactly, Captured
  <2>2. Embedded(Worker) = {}
    BY <1>8, WorkerIsTyped DEF Inv, Embedded
  <2>3. final.changed = (Staged(Worker) \ final.away) \cup Unstaged(Worker)
                          \cup Untracked(Worker) \cup Embedded(Worker)
    BY DEF Inv, Account, Captured, ChangedFiles
  <2>4. final.changed \subseteq Paths
    BY <2>2, <2>3, WorkerIsTyped DEF Inv, Staged, Unstaged, Untracked
  <2> QED BY <2>1, <2>4
<1>12. {p \in Paths \ Hidden : work[p] # delivered[p]} = {p \in open : f[p] # ov[p]}
  <2>1. ASSUME NEW p \in open, p \notin job.mounted
        PROVE  p \in Paths \ Hidden /\ (work[p] # delivered[p] <=> f[p] # ov[p])
    BY <1>8, <1>9, <1>10, <2>1
  <2>2. ASSUME NEW p \in job.mounted
        PROVE  work[p] = delivered[p] /\ f[p] = ov[p]
    BY <1>1
  <2> HIDE DEF f, open
  <2> QED BY <1>9, <2>1, <2>2
<1> QED BY <1>5, <1>11, <1>12

LEMMA AgreesWithRun ==
  ASSUME Inv, Begun, Enclosed, Bare, Unbiased
  PROVE  OracleAgreesWithRun
<1> DEFINE needs(i) == case.commands[i].needs
           reads(i) == {x[1] : x \in needs(i)} \cup {Pointee}
           edits(i) == {p \in Paths : case.commands[i].edits[p] # Same}
           touched == {x[1] : x \in case.equals} \cup {Pointee}
                        \cup {p \in Paths : case.expected[p] # Absent}
                        \cup UNION {reads(i) : i \in DOMAIN case.commands}
           f == job.fixture
           ov == Overlaid(f, case.expected)
           passes(i) ==
             /\ results[i].passed <=> May(work, needs(i))
             /\ (\A j \in 1 .. i - 1 : edits(j) \cap reads(i) = {})
                  => results[i].passed
           stays(i) == SameBytes(Edited(case.commands[i], work), work, Paths)
<1> SUFFICES ASSUME pc = "completed", plain, Credible(case, f),
                    job.mounted \cap touched = {},
                    \A p \in Paths : work[p] = IF p \in job.mounted
                                               THEN delivered[p] ELSE ov[p],
                    CleanTrace
             PROVE  /\ verdict.files
                    /\ \A i \in DOMAIN case.commands : passes(i)
                    /\ verdict.supported <=>
                         \A i \in DOMAIN case.commands :
                           results[i].passed /\ stays(i)
  BY DEF OracleAgreesWithRun
<1>1. case \in CaseType /\ case.commands \in Seq(Programs) /\ job.mounted \subseteq Paths
  BY CaseFacts, JobFacts, CasesAssumption DEF Inv
<1>2. /\ case.equals \subseteq Paths \X Files
      /\ \A i \in DOMAIN case.commands : needs(i) \subseteq Paths \X Files
  <2>1. case.equals \subseteq Paths \X Files
    BY <1>1 DEF CaseType, Needs
  <2>2. ASSUME NEW i \in DOMAIN case.commands
        PROVE  needs(i) \subseteq Paths \X Files
    <3>1. case.commands[i] \in Programs
      BY <1>1
    <3> QED BY <3>1 DEF Programs, Needs
  <2> QED BY <2>1, <2>2
<1>3. /\ Pointee \notin job.mounted
      /\ \A x \in case.equals : x[1] \notin job.mounted
      /\ \A i \in DOMAIN case.commands : \A x \in needs(i) : x[1] \notin job.mounted
      /\ \A p \in job.mounted : case.expected[p] = Absent
  <2>1. \A i \in DOMAIN case.commands : reads(i) \subseteq touched
    OBVIOUS
  <2>2. \A i \in DOMAIN case.commands : \A x \in needs(i) : x[1] \in reads(i)
    OBVIOUS
  <2>3. \A i \in DOMAIN case.commands : \A x \in needs(i) : x[1] \notin job.mounted
    <3> HIDE DEF touched, reads, needs
    <3> QED BY <2>1, <2>2
  <2>4. /\ Pointee \in touched /\ \A x \in case.equals : x[1] \in touched
        /\ \A p \in Paths : case.expected[p] # Absent => p \in touched
    <3> HIDE DEF reads
    <3> QED OBVIOUS
  <2> HIDE DEF touched, reads, needs
  <2> QED BY <1>1, <2>3, <2>4
<1>4. /\ \A p \in job.mounted : case.expected[p] = Absent /\ work[p] = delivered[p]
      /\ \A p \in Paths \ job.mounted : work[p] = ov[p]
  BY <1>1, <1>3
<1> HIDE DEF touched
<1>5. ov \in Trees /\ \A p \in Paths : ov[p] # "outer"
  <2> HIDE DEF needs, reads, edits, passes, stays
  <2> QED BY <1>3, <1>4, OverlayFacts
<1>6. final.changed = ChangedFiles(Resolved(case, f), {})
  <2> HIDE DEF needs, reads, edits, passes, stays
  <2> QED BY <1>3, <1>4, ChangedAlike
<1>7. Resolved(case, f).tree = ov
  BY DEF Resolved, Prepared
<1>8. FilesHold(case, ov, final.changed) /\ FoundFrom(case, ov)
  <2> DEFINE s == Resolved(case, f)
  <2>1. OracleHolds(case, s)
    BY DEF Credible
  <2>2. s.tree = ov /\ s.tree = [p \in Paths |-> s.tree[p]]
    BY <1>5, <1>7 DEF Trees
  <2> HIDE DEF ov, s, needs, reads, edits, passes, stays
  <2>3. FilesHold(case, s.tree, ChangedFiles(s, {})) /\ FoundFrom(case, s.tree)
    BY <1>1, <2>1, <2>2, OracleBefore, Zenon
  <2> QED BY <1>6, <2>2, <2>3 DEF s
<1>9. ASSUME NEW p \in Paths, p \notin job.mounted
      PROVE  /\ Opened(work, p) = Opened(ov, p) /\ \E x : Opened(ov, p) = {x}
             /\ \A t : t[p] = ov[p] /\ t[Pointee] = ov[Pointee] =>
                  Opened(t, p) = Opened(ov, p)
  <2>1. work[p] = ov[p] /\ work[Pointee] = ov[Pointee] /\ ov[p] # "outer"
    <3>1. Pointee \in Paths
      BY Kinds
    <3> HIDE DEF needs, ov
    <3> QED BY <1>3, <1>4, <1>5, <1>9, <3>1
  <2> HIDE DEF ov
  <2> QED BY <2>1 DEF Opened
<1>10. verdict.files
  <2>1. ASSUME NEW x \in case.equals
        PROVE  x[2] \in Opened(work, x[1])
    <3>1. x[1] \in Paths /\ x[1] \notin job.mounted /\ x[2] \in Opened(ov, x[1])
      BY <1>2, <1>3, <1>8 DEF FilesHold, May
    <3> HIDE DEF ov
    <3> QED BY <1>9, <3>1
  <2> HIDE DEF ov
  <2> QED BY <1>8, <2>1 DEF Unbiased, FilesHold, May
<1>11. DOMAIN results = DOMAIN case.commands
  BY <1>1, LenProperties DEF Unbiased, Inv, TypeOK
<1>12. ASSUME NEW i \in DOMAIN case.commands
       PROVE  results[i].passed <=> May(work, needs(i))
  <2>1. results[i].passed => May(work, needs(i))
    BY <1>11 DEF Inv, Judged
  <2>2. ASSUME May(work, needs(i)), NEW x \in needs(i)
        PROVE  Opened(work, x[1]) = {x[2]}
    <3>1. /\ x[1] \in Paths /\ x[1] \notin job.mounted
          /\ x[2] \in Opened(work, x[1])
      BY <1>2, <1>3, <2>2 DEF May
    <3> HIDE DEF ov, needs
    <3> QED BY <1>9, <3>1
  <2>3. ~results[i].passed => \E x \in needs(i) : Opened(work, x[1]) # {x[2]}
    BY <1>11 DEF Unbiased
  <2>4. results[i].passed \in BOOLEAN
    <3> DEFINE R == [passed: BOOLEAN, mutated: BOOLEAN, derived: SUBSET Paths]
    <3>1. results \in Seq(R)
      BY DEF Inv, TypeOK
    <3>2. results[i] \in R
      <4> HIDE DEF R
      <4> QED BY <1>11, <3>1
    <3> QED BY <3>2
  <2> HIDE DEF needs
  <2> QED BY <2>1, <2>2, <2>3, <2>4
<1>13. ASSUME NEW i \in DOMAIN case.commands,
              \A j \in 1 .. i - 1 : edits(j) \cap reads(i) = {}
       PROVE  results[i].passed
  <2>1. PICK t : /\ May(t, needs(i))
                 /\ \A p \in Paths :
                      (\A j \in 1 .. i - 1 : case.commands[j].edits[p] = Same)
                        => t[p] = ov[p]
    <3> HIDE DEF ov, reads, edits
    <3> QED BY <1>8 DEF FoundFrom
  <2>2. \A p \in Paths : p \in reads(i) => t[p] = ov[p]
    <3> HIDE DEF ov, reads
    <3> QED BY <1>13, <2>1
  <2>3. ASSUME NEW x \in needs(i)
        PROVE  x[2] \in Opened(work, x[1])
    <3>1. /\ x[1] \in Paths /\ x[1] \notin job.mounted
          /\ x[1] \in reads(i) /\ Pointee \in reads(i) /\ Pointee \in Paths
          /\ x[2] \in Opened(t, x[1])
      BY <1>2, <1>3, <2>1, <2>3, Kinds DEF May
    <3> HIDE DEF ov, needs, reads
    <3> QED BY <1>9, <2>2, <3>1
  <2>4. May(work, needs(i))
    <3> HIDE DEF needs
    <3> QED BY <2>3 DEF May
  <2> QED BY <1>12, <2>4
<1>14. TraceHolds /\ (case.text => FinalMessage = "right")
  BY CleanMeans DEF Inv
<1>15. ASSUME NEW i \in DOMAIN case.commands
       PROVE  results[i].mutated <=> ~stays(i)
  BY <1>11 DEF Inv, Judged, Charged, SameBytes
<1>16. verdict.supported <=>
         \A i \in DOMAIN case.commands : results[i].passed /\ stays(i)
  <2>1. verdict.supported =>
          \A i \in DOMAIN case.commands : May(work, needs(i)) /\ stays(i)
    BY DEF Inv, Judged, SupportedRestsOnWorker
  <2>2. verdict.supported \in BOOLEAN
    BY DEF Inv, TypeOK
  <2> HIDE DEF needs, stays, reads, edits, ov
  <2> QED BY <1>10, <1>11, <1>12, <1>14, <1>15, <2>1, <2>2 DEF Unbiased, Mutated
<1> HIDE DEF needs, stays, reads, edits, ov
<1> QED BY <1>10, <1>12, <1>13, <1>16

-----------------------------------------------------------------------------

\* The type invariant (the state of an attempt as workspace.py, verify.py and
\* trace.py make it).
THEOREM TypeCorrect == Spec => []TypeOK
<1>1. Inv => TypeOK
  BY DEF Inv
<1> QED BY <1>1, Invariant, PTL

\* Whatever is edited and whenever, and whatever links the fixture has, a worker
\* starts with the planned bytes in the mount and the fixture's elsewhere
\* (workspace.py:59-81).
THEOREM WorkersStartAsPlanned == Spec => []WorkerStartsAsPlanned
<1>1. Inv => WorkerStartsAsPlanned
  BY DEF Inv, DeliveryInv
<1> QED BY <1>1, Invariant, PTL

\* Drift is reported only for a reason (subjects.py:143-156).
THEOREM DriftHasAReason == Spec => []DriftIsReal
<1>1. Inv => DriftIsReal
  BY DEF Inv, DeliveryInv
<1> QED BY <1>1, Invariant, PTL

\* The patch turns the last commit into what the worker left, up to what Git
\* cannot show (workspace.py:105-126).
THEOREM PatchAlwaysRebuilds == Spec => []PatchRebuildsWorker
BY Invariant, PatchRebuilds, PTL

\* What the patch touches is among the changed files or was renamed
\* (workspace.py:84-126).
THEOREM SurfacesAlwaysAgree == Spec => []SurfacesAgree
BY Invariant, Agree, PTL

\* The changes of a worker that leaves Git alone are seen exactly
\* (workspace.py:84-126).
THEOREM PlainWorkersAreSeen == Spec => []PlainWorkerSeenExactly
BY Invariant, PlainExactly, PTL

\* Review material is sealed whole, as the worker left it and within its bounds,
\* or not at all (review_material.py:93-145).
THEOREM MaterialIsWhole == Spec => []MaterialAllOrNothing
<1>1. Inv => TypeOK
  BY DEF Inv
<1> QED BY <1>1, Invariant, MaterialInvariant, WholeOrNothing, PTL

\* Support rests on the bytes the worker left (runner.py:493-594).
THEOREM SupportRestsOnBytes == Spec => []SupportedRestsOnWorker
<1>1. Inv => SupportedRestsOnWorker
  BY DEF Inv, Judged
<1> QED BY <1>1, Invariant, PTL

\* Support needs a trace that is whole and clean (trace.py:57-110,
\* verify.py:305-343).
THEOREM SupportNeedsTrace == Spec => []SupportedNeedsCleanTrace
<1>1. Inv => SupportedNeedsCleanTrace
  BY DEF Inv, Judged
<1> QED BY <1>1, Invariant, PTL

\* Commands are charged with what they changed (runner.py:285-309, 518-538).
THEOREM CommandsAreCharged == Spec => []AttributionSound
<1>1. Inv => AttributionSound
  BY DEF Inv, Judged, Charged, AttributionSound
<1> QED BY <1>1, Invariant, PTL

\* On the result that a selftest found credible, a live run passes every command
\* that reads nothing an earlier one edits, and is supported unless a command
\* fails or changes its copy (selftest.py:57-89, runner.py:493-544).
THEOREM OracleAlwaysAgrees == Spec => []OracleAgreesWithRun
BY Invariant, OracleInvariant, AgreesWithRun, PTL
=============================================================================
