------------------------ MODULE BoundedProcessProofs ------------------------
(***************************************************************************)
(* Theorems about BoundedProcess, for groups of any size and any number of *)
(* polls and interrupts.                                                   *)
(*                                                                         *)
(* The point is that a scan of a moving process table can be trusted.  Ids *)
(* grow, so every entry before the cursor of ps stays dead, and whatever   *)
(* is forked meanwhile lies behind the cursor (Scanned).                   *)
(***************************************************************************)
EXTENDS BoundedProcess, TLAPS

USE MembersAssumption, PollsAssumption, InterruptsAssumption

\* Ids are handed out in order, and ps has passed over dead entries only.
Scanned ==
  /\ \A m \in Unborn, n \in Members : m <= n => n \in Unborn
  /\ scan > 0 =>
       /\ at \in ProbePoints
       /\ \A m \in Live \cup Unborn : scan <= m

\* What the locals say of the call.
Answered ==
  /\ Running <=> at # "done"
  /\ quiescent => ~Running
  /\ quiescent /\ ~blind => Live = {}
  /\ at \in {"wait", "exit-wait"} => reason = "exited"
  /\ reason = "exited" =>
       /\ at \in {"wait", "exit-wait", "done"}
       /\ ~signalled /\ killed = {} /\ interrupts = 0
       /\ at = "done" => quiescent

Inv == TypeOK /\ Scanned /\ Answered

\* Everything but the group and the cursor is typed by these sets.
USE DEF WaitPoints, CheckPoints, ProbePoints, TerminatePoints, Reasons, Running

\* A group of one, unscanned, and a call that has answered nothing.
LEMMA InitTyped == Init => Inv
<1> SUFFICES ASSUME Init PROVE Inv
  OBVIOUS
<1>1. Leader \in Members /\ 0 \in 0 .. MaxMembers + 1 /\ 0 \in 0 .. MaxPolls
      /\ 0 \in 0 .. MaxInterrupts
  BY DEF Leader, Members
<1>2. TypeOK
  BY <1>1 DEF Init, TypeOK, Statuses
<1>3. Unborn = Members \ {1}
  BY DEF Init, Unborn, Leader
<1>4. Scanned
  BY <1>3 DEF Init, Scanned, Members
<1>5. Answered
  BY DEF Init, Answered
<1> QED BY <1>2, <1>4, <1>5 DEF Inv

\* The group: nothing that it does touches the call, and a fork takes an id
\* that ps has not reached.
LEMMA GroupStep == ASSUME Inv, Group PROVE Inv'
<1>1. PICK m \in Members : Fork(m) \/ ExitMember(m) \/ InitReaps(m) \/ Write(m)
  BY DEF Group
<1>2. UNCHANGED <<killed, at, scan, polls, reason, signalled, quiescent, end,
                  interrupts, blind>>
  BY <1>1 DEF Fork, ExitMember, InitReaps, Write
<1>3. Live' \subseteq Live \/ Fork(m) => Answered'
  BY <1>2 DEF Inv, Answered, Fork
<1>4. status' \in [Members -> Statuses] /\ tree' \in {0, 1}
  BY <1>1 DEF Inv, TypeOK, Fork, ExitMember, InitReaps, Write, Statuses, Unborn
<1>5. TypeOK'
  BY <1>2, <1>4 DEF Inv, TypeOK
<1>6. CASE Fork(m)
  <2>1. PICK n \in Unborn : /\ \A k \in Unborn : n <= k
                            /\ status' = [status EXCEPT ![n] = "live"]
    BY <1>6 DEF Fork
  <2>2. Unborn' = Unborn \ {n} /\ Live' = Live \cup {n}
    BY <2>1 DEF Unborn, Live, Inv, TypeOK
  <2>3. n \in Members /\ Unborn \subseteq Members
    BY DEF Unborn
  <2>4. \A k \in Unborn', j \in Members : k <= j => j \in Unborn'
    BY <2>1, <2>2, <2>3 DEF Inv, Scanned, Members
  <2>5. Scanned'
    BY <1>2, <2>2, <2>4 DEF Inv, Scanned
  <2> QED BY <1>3, <1>5, <1>6, <2>5 DEF Inv
<1>7. CASE ~Fork(m)
  <2>1. Unborn' = Unborn /\ Live' \subseteq Live
    BY <1>1, <1>7 DEF ExitMember, InitReaps, Write, Unborn, Live, Inv, TypeOK, Leader
  <2> QED BY <1>2, <1>3, <1>5, <2>1 DEF Inv, Scanned
<1> QED BY <1>6, <1>7

\* A reaped leader was dead before.
LEMMA ReapedLeader ==
  ASSUME Inv, status' = Reaped
  PROVE  /\ status' \in [Members -> Statuses]
         /\ Live' = Live /\ Unborn' = Unborn
<1>1. Leader \in Members
  BY DEF Leader, Members
<1> QED BY <1>1 DEF Reaped, Live, Unborn, Inv, TypeOK, Statuses

\* The call ends with the answer it has; a positive one must be true.
LEMMA Finishing ==
  ASSUME Inv, NEW proven \in BOOLEAN, Finish(proven), Running,
         reason = "exited" => proven, blind' \in BOOLEAN,
         proven /\ ~blind' => Live = {}
  PROVE  Inv'
<1>1. TypeOK'
  BY DEF Finish, Inv, TypeOK, group
<1>2. Live' = Live /\ Unborn' = Unborn
  BY DEF Finish, group, Live, Unborn
<1> QED BY <1>1, <1>2 DEF Finish, Inv, Scanned, Answered, group

\* Moving on within the call, with no ps running.
LEMMA Moving ==
  ASSUME Inv, TypeOK', UNCHANGED <<quiescent, end, interrupts>>,
         Running, at' # "done", scan' = 0, Live' = Live, Unborn' = Unborn,
         at' \in {"wait", "exit-wait"} => reason' = "exited",
         reason' = "exited" =>
           /\ reason = "exited" /\ at' \in {"wait", "exit-wait"}
           /\ signalled' = signalled /\ killed' = killed
  PROVE  Inv'
BY DEF Inv, Scanned, Answered

\* _group_alive says TRUE: never an end with a positive answer.
LEMMA Alive == ASSUME Inv, Running, FoundAlive, UNCHANGED blind PROVE Inv'
<1>1. CASE at \in CheckPoints
  <2>1. /\ at' \in {"term", "kill"} /\ scan' = 0
        /\ UNCHANGED <<group, polls, reason, signalled, quiescent, end, interrupts>>
    BY <1>1 DEF FoundAlive
  <2> QED
    BY <1>1, <2>1, Moving DEF Inv, TypeOK, Answered, group, Live, Unborn
<1>2. CASE at \in WaitPoints /\ polls < MaxPolls
  <2>1. polls \in Nat /\ polls # MaxPolls
    BY <1>2 DEF Inv, TypeOK
  <2>2. /\ polls' \in polls + 1 .. MaxPolls /\ scan' = 0
        /\ UNCHANGED <<group, at, reason, signalled, quiescent, end, interrupts>>
    BY <1>2, <2>1 DEF FoundAlive
  <2>3. polls' \in 0 .. MaxPolls
    BY <2>1, <2>2
  <2> QED
    BY <1>2, <2>2, <2>3, Moving DEF Inv, TypeOK, Answered, group, Live, Unborn
<1>3. CASE at \in WaitPoints /\ polls = MaxPolls /\ scan' = 0 /\ NotGone
           /\ UNCHANGED <<group, polls, signalled, quiescent, end, interrupts>>
  <2>1. /\ at' \in {"term-check", "kill-check"}
        /\ reason' \in {"orphan-descendants", reason}
        /\ reason' # "exited"
    BY <1>3 DEF NotGone, Inv, Answered
  <2> QED
    BY <1>3, <2>1, Moving DEF Inv, TypeOK, group, Live, Unborn
<1>4. CASE at = "kill-wait" /\ Finish(FALSE)
  <2>1. blind' \in BOOLEAN /\ reason # "exited"
    BY <1>4 DEF Inv, TypeOK, Answered
  <2> QED BY <1>4, <2>1, Finishing
<1> QED BY <1>1, <1>2, <1>3, <1>4 DEF FoundAlive

\* _group_alive says FALSE, and rightly so if the answer counts.
LEMMA Dead ==
  ASSUME Inv, Running, FoundDead, blind' \in BOOLEAN,
         at \in WaitPoints /\ ~blind' => Live = {}
  PROVE  Inv'
<1>1. CASE at \in CheckPoints
  <2>1. /\ at' \in {"term-reap", "kill-reap"} /\ scan' = 0
        /\ UNCHANGED <<group, polls, reason, signalled, quiescent, end, interrupts>>
    BY <1>1 DEF FoundDead
  <2> QED
    BY <1>1, <2>1, Moving DEF Inv, TypeOK, Answered, group, Live, Unborn
<1>2. CASE at \in WaitPoints /\ Finish(TRUE)
  BY <1>2, Finishing
<1> QED BY <1>1, <1>2 DEF FoundDead

\* Behind the last entry nobody is alive.
LEMMA EndOfScan ==
  ASSUME Inv, scan > 0, scan \notin Members \ Unborn
  PROVE  Live = {}
<1> SUFFICES ASSUME NEW m \in Live PROVE FALSE
  OBVIOUS
<1>1. m \in Members /\ m \notin Unborn /\ scan <= m /\ scan \in Nat
  BY DEF Live, Unborn, Inv, Scanned, TypeOK
<1>2. CASE scan \in Unborn
  BY <1>1, <1>2 DEF Inv, Scanned
<1>3. CASE scan \notin Members
  BY <1>1, <1>3 DEF Members
<1> QED BY <1>2, <1>3

\* The steps of the call itself.
LEMMA ControllerStep == ASSUME Inv, Controller PROVE Inv'
<1>1. CASE LeaderExits
  <2>1. Live' = Live /\ Unborn' = Unborn /\ status' \in [Members -> Statuses]
    BY <1>1, ReapedLeader DEF LeaderExits
  <2>2. at' = "exit-wait" /\ polls' = 0 /\ at = "wait" /\ Running
        /\ UNCHANGED <<killed, tree, scan, reason, signalled, quiescent, end,
                       interrupts, blind>>
    BY <1>1 DEF LeaderExits
  <2>3. scan = 0 /\ reason = "exited"
    BY <2>2 DEF Inv, Scanned, Answered, TypeOK
  <2>4. TypeOK'
    BY <2>1, <2>2 DEF Inv, TypeOK
  <2> QED BY <2>1, <2>2, <2>3, <2>4, Moving
<1>2. CASE Timeout
  <2>1. Live' = Live /\ Unborn' = Unborn
    BY <1>2 DEF Timeout, group, Live, Unborn
  <2>2. at' = "term-check" /\ reason' = "timeout" /\ at = "wait" /\ Running
        /\ UNCHANGED <<group, scan, polls, signalled, quiescent, end,
                       interrupts, blind>>
    BY <1>2 DEF Timeout
  <2>3. scan = 0
    BY <2>2 DEF Inv, Scanned, TypeOK
  <2>4. TypeOK'
    BY <2>2 DEF Inv, TypeOK, group
  <2> QED BY <2>1, <2>2, <2>3, <2>4, Moving
<1>3. CASE Probe
  <2>0. blind' = blind /\ blind \in BOOLEAN
    BY <1>3 DEF Probe, Inv, TypeOK
  <2>1. CASE Present = {} /\ FoundDead
    <3>1. Live = {}
      BY <2>1 DEF Present, Live
    <3> QED BY <1>3, <2>0, <2>1, <3>1, Dead DEF Probe
  <2>2. CASE scan' = 1 /\ UNCHANGED <<group, at, polls, reason, signalled,
                                       quiescent, end, interrupts>>
    <3>1. Live' = Live /\ Unborn' = Unborn
      BY <2>2 DEF group, Live, Unborn
    <3>2. \A m \in Live \cup Unborn : 1 <= m
      BY DEF Live, Unborn, Members
    <3>3. TypeOK'
      BY <2>0, <2>2 DEF Inv, TypeOK, group
    <3>4. Scanned' /\ Answered'
      BY <1>3, <2>0, <2>2, <3>1, <3>2 DEF Probe, Inv, Scanned, Answered, group
    <3> QED BY <3>3, <3>4 DEF Inv
  <2> QED BY <1>3, <2>1, <2>2 DEF Probe
<1>4. CASE ScanEntry
  <2>0. blind' = blind /\ blind \in BOOLEAN
    BY <1>4 DEF ScanEntry, Inv, TypeOK
  <2>1. CASE FoundAlive
    BY <1>4, <2>0, <2>1, Alive DEF ScanEntry
  <2>2. CASE scan \notin Members \ Unborn /\ FoundDead
    BY <1>4, <2>0, <2>2, EndOfScan, Dead DEF ScanEntry
  <2>3. CASE /\ scan \in Members \ (Live \cup Unborn) /\ scan' = scan + 1
             /\ UNCHANGED <<group, at, polls, reason, signalled, quiescent, end,
                            interrupts>>
    <3>1. Live' = Live /\ Unborn' = Unborn
      BY <2>3 DEF group, Live, Unborn
    <3>2. \A m \in Live \cup Unborn : m \in Nat /\ scan <= m /\ scan # m
      BY <1>4, <2>3 DEF ScanEntry, Inv, Scanned, Live, Unborn, Members
    <3>3. scan \in Nat /\ scan + 1 \in 0 .. MaxMembers + 1
      BY <2>3 DEF Members
    <3>4. TypeOK'
      BY <2>0, <2>3, <3>3 DEF Inv, TypeOK, group
    <3>5. \A m \in Live \cup Unborn : scan + 1 <= m
      BY <3>2, <3>3
    <3>6. Scanned' /\ Answered'
      BY <1>4, <2>0, <2>3, <3>1, <3>5 DEF ScanEntry, Inv, Scanned, Answered, group
    <3> QED BY <3>4, <3>6 DEF Inv
  <2> QED BY <1>4, <2>1, <2>2, <2>3 DEF ScanEntry
<1>5. CASE Signal
  <2>0. Running /\ at \in {"term", "kill"} /\ scan = 0 /\ reason # "exited"
        /\ blind' = blind /\ blind \in BOOLEAN
    BY <1>5 DEF Signal, Inv, Scanned, Answered, TypeOK
  <2>1. CASE Live = {} /\ Finish(FALSE)
    BY <2>0, <2>1, Finishing
  <2>2. CASE ~(Live = {} /\ Finish(FALSE))
    <3>1. /\ killed' \in {killed, killed \cup Live} /\ signalled' = TRUE
          /\ at' \in {"term-reap", "kill-reap"}
          /\ UNCHANGED <<status, tree, scan, polls, reason, quiescent, end,
                         interrupts, blind>>
      BY <1>5, <2>2 DEF Signal
    <3>2. Live' = Live /\ Unborn' = Unborn /\ Live \subseteq Members
      BY <3>1 DEF Live, Unborn
    <3>3. TypeOK'
      BY <3>1, <3>2 DEF Inv, TypeOK
    <3> QED BY <2>0, <3>1, <3>2, <3>3, Moving
  <2> QED BY <2>1, <2>2
<1>6. CASE Reap
  <2>1. Live' = Live /\ Unborn' = Unborn /\ status' \in [Members -> Statuses]
    BY <1>6, ReapedLeader DEF Reap
  <2>2. /\ at' \in {"term-wait", "kill-wait"} /\ polls' = 0 /\ Running
        /\ at \in {"term-reap", "kill-reap"}
        /\ UNCHANGED <<killed, tree, scan, reason, signalled, quiescent, end,
                       interrupts, blind>>
    BY <1>6 DEF Reap
  <2>3. scan = 0 /\ reason # "exited"
    BY <2>2 DEF Inv, Scanned, Answered, TypeOK
  <2>4. TypeOK'
    BY <2>1, <2>2 DEF Inv, TypeOK
  <2> QED BY <2>1, <2>2, <2>3, <2>4, Moving
<1> QED BY <1>1, <1>2, <1>3, <1>4, <1>5, <1>6 DEF Controller

\* What goes wrong around it.
LEMMA FailureStep == ASSUME Inv, Failure PROVE Inv'
<1>1. CASE PsRaises
  BY <1>1, Alive DEF PsRaises
<1>2. CASE PsPrintsNothing
  <2>1. Running /\ FoundDead
    BY <1>2 DEF PsPrintsNothing
  <2>2. blind' \in BOOLEAN /\ ~(at \in WaitPoints /\ ~blind')
    BY <1>2 DEF PsPrintsNothing, Inv, TypeOK
  <2> QED BY <2>1, <2>2, Dead
<1>3. CASE Interrupt
  <2>1. /\ Running /\ interrupts' = interrupts + 1 /\ scan' = 0
        /\ interrupts' \in 0 .. MaxInterrupts
    BY <1>3 DEF Interrupt, Inv, TypeOK
  <2>2. Live' = Live /\ Unborn' = Unborn
    BY <1>3 DEF Interrupt, group, Live, Unborn
  <2>3. TypeOK'
    BY <1>3, <2>1 DEF Interrupt, group, Inv, TypeOK
  <2>4. /\ reason' # "exited" /\ UNCHANGED <<quiescent, blind>>
        /\ at' \notin {"wait", "exit-wait"}
        /\ end' = "running" <=> at' # "done"
    BY <1>3 DEF Interrupt, Inv, TypeOK
  <2>5. Scanned'
    BY <2>1, <2>2 DEF Inv, Scanned
  <2>6. Answered'
    BY <2>1, <2>2, <2>4 DEF Inv, Answered
  <2> QED BY <2>3, <2>5, <2>6 DEF Inv
<1> QED BY <1>1, <1>2, <1>3 DEF Failure

\* Every step keeps the invariant.
LEMMA NextTyped == Inv /\ [Next]_vars => Inv'
<1> SUFFICES ASSUME Inv, [Next]_vars PROVE Inv'
  OBVIOUS
<1>1. CASE UNCHANGED vars
  BY <1>1 DEF vars, Inv, TypeOK, Scanned, Answered, Live, Unborn
<1> QED BY <1>1, GroupStep, ControllerStep, FailureStep DEF Next

\* The invariant holds throughout.
LEMMA Invariant == Spec => []Inv
BY InitTyped, NextTyped, PTL DEF Spec

\* The locals and the process table keep their types in every interleaving.
THEOREM TypeCorrect == Spec => []TypeOK
<1>1. Inv => TypeOK
  BY DEF Inv
<1> QED BY <1>1, Invariant, PTL

\* Unless it rests on the silence of a ps that had failed, a result that says
\* quiescent is true, and stays true, of a group of any size that forks during
\* the scan.
THEOREM QuiescenceIsSound == Spec => []QuiescentMeansDead
<1>1. Inv => QuiescentMeansDead
  BY DEF Inv, Answered, QuiescentMeansDead
<1> QED BY <1>1, Invariant, PTL

\* A result that is neither a timeout nor an orphan report describes a group
\* that was never signalled and never interrupted.
THEOREM CleanExitsAreUntouched == Spec => []CleanExitUntouched
<1>1. Inv => CleanExitUntouched
  BY DEF Inv, Answered, CleanExitUntouched
<1> QED BY <1>1, Invariant, PTL

-----------------------------------------------------------------------------
(* The call cannot go on for ever *)

\* How far the call is, within an attempt to end it: it only moves down here.
Stage ==
  CASE at = "wait" -> 10 [] at = "exit-wait" -> 9
    [] at = "term-check" -> 8 [] at = "term" -> 7
    [] at = "term-reap" -> 6 [] at = "term-wait" -> 5
    [] at = "kill-check" -> 4 [] at = "kill" -> 3
    [] at = "kill-reap" -> 2 [] at = "kill-wait" -> 1
    [] at = "done" -> 0

\* A timeout or the first interrupt starts an attempt; nothing starts another.
Distance ==
  Stage + IF reason \in {"exited", "orphan-descendants"} THEN 11 ELSE 0
PollsLeft == MaxPolls - polls
EntriesLeft == MaxMembers + 2 - scan

StepsLeft ==
  (Distance * (MaxPolls + 1) + PollsLeft) * (MaxMembers + 3) + EntriesLeft

\* Two digits of a number.
LEMMA Digits ==
  ASSUME NEW K \in Nat, NEW a \in Nat, NEW b \in Nat, NEW c \in Nat,
         NEW d \in 0 .. K - 1, c < a
  PROVE  c * K + d < a * K + b
<1>1. PICK e \in Nat : a = c + 1 + e
  <2>1. a - c - 1 \in Nat /\ a = c + 1 + (a - c - 1)
    OBVIOUS
  <2> QED BY <2>1
<1>2. a * K = c * K + K + e * K
  BY <1>1
<1>3. c * K \in Nat /\ e * K \in Nat
  OBVIOUS
<1> QED BY <1>2, <1>3

\* Three of them, the first that differs being smaller.
LEMMA ThreeDigits ==
  ASSUME NEW a \in Nat, NEW b \in 0 .. MaxPolls, NEW c \in 0 .. MaxMembers + 2,
         NEW d \in Nat, NEW e \in 0 .. MaxPolls, NEW f \in 0 .. MaxMembers + 2,
         d < a \/ (d = a /\ e < b) \/ (d = a /\ e = b /\ f < c)
  PROVE  (d * (MaxPolls + 1) + e) * (MaxMembers + 3) + f
           < (a * (MaxPolls + 1) + b) * (MaxMembers + 3) + c
<1>1. PICK K \in Nat, L \in Nat :
        /\ K = MaxPolls + 1 /\ L = MaxMembers + 3
        /\ b \in Nat /\ c \in Nat /\ e \in 0 .. K - 1 /\ f \in 0 .. L - 1
  <2>1. MaxPolls + 1 \in Nat /\ MaxMembers + 3 \in Nat
    OBVIOUS
  <2>2. /\ b \in Nat /\ c \in Nat /\ e \in 0 .. (MaxPolls + 1) - 1
        /\ f \in 0 .. (MaxMembers + 3) - 1
    OBVIOUS
  <2> QED BY <2>1, <2>2
<1>2. e \in Nat /\ f \in Nat /\ a * K \in Nat /\ d * K \in Nat
  BY <1>1
<1>3. PICK x \in Nat, y \in Nat : x = a * K + b /\ y = d * K + e
  <2>1. a * K + b \in Nat /\ d * K + e \in Nat
    BY <1>1, <1>2
  <2> QED BY <2>1
<1>4. x * L \in Nat /\ y * L \in Nat
  BY <1>1, <1>3
<1>5. CASE d < a
  <2>1. d * K + e < a * K + b
    BY <1>1, <1>5, Digits
  <2>2. y * L + f < x * L + c
    BY <1>1, <1>3, <2>1, Digits
  <2> QED BY <1>1, <1>3, <2>2
<1>6. CASE d = a /\ e < b
  <2>1. y < x
    BY <1>1, <1>2, <1>3, <1>6
  <2>2. y * L + f < x * L + c
    BY <1>1, <1>3, <2>1, Digits
  <2> QED BY <1>1, <1>3, <2>2
<1>7. CASE d = a /\ e = b /\ f < c
  <2>1. x = y
    BY <1>3, <1>7
  <2>2. y * L + f < x * L + c
    BY <1>1, <1>2, <1>4, <1>7, <2>1
  <2> QED BY <1>1, <1>3, <2>2
<1> QED BY <1>5, <1>6, <1>7

\* The measures keep to their digits.
Measured ==
  /\ Distance \in 0 .. 21 /\ PollsLeft \in 0 .. MaxPolls
  /\ EntriesLeft \in 0 .. MaxMembers + 2

LEMMA Measures == TypeOK => Measured
<1> SUFFICES ASSUME TypeOK PROVE Measured
  OBVIOUS
<1>1. Distance \in 0 .. 21
  <2>1. Stage \in 0 .. 10
    BY DEF TypeOK, Stage
  <2> QED BY <2>1 DEF Distance
<1>2. PollsLeft \in 0 .. MaxPolls /\ EntriesLeft \in 0 .. MaxMembers + 2
  BY DEF TypeOK, PollsLeft, EntriesLeft
<1> QED BY <1>1, <1>2 DEF Measured

LEMMA StepsLeftIsNumber == TypeOK => StepsLeft \in Nat
<1> SUFFICES ASSUME NEW a \in Nat, NEW b \in Nat, NEW c \in Nat
             PROVE  (a * (MaxPolls + 1) + b) * (MaxMembers + 3) + c \in Nat
  <2>1. ASSUME TypeOK
        PROVE  Distance \in Nat /\ PollsLeft \in Nat /\ EntriesLeft \in Nat
    BY <2>1, Measures DEF Measured
  <2> QED BY <2>1 DEF StepsLeft
<1>1. a * (MaxPolls + 1) + b \in Nat
  OBVIOUS
<1> QED BY <1>1

\* The three measures: the first of them that moves moves down.
Closer ==
  \/ Distance' < Distance
  \/ Distance' = Distance /\ PollsLeft' < PollsLeft
  \/ Distance' = Distance /\ PollsLeft' = PollsLeft /\ EntriesLeft' < EntriesLeft

LEMMA CloserIsLess ==
  ASSUME TypeOK, TypeOK', Closer
  PROVE  StepsLeft' < StepsLeft
<1>1. Measured /\ Measured'
  BY Measures, PTL
<1>2. /\ Distance \in Nat /\ Distance' \in Nat
      /\ PollsLeft \in 0 .. MaxPolls /\ PollsLeft' \in 0 .. MaxPolls
      /\ EntriesLeft \in 0 .. MaxMembers + 2
      /\ EntriesLeft' \in 0 .. MaxMembers + 2
  BY <1>1 DEF Measured
<1> QED BY <1>2, ThreeDigits DEF Closer, StepsLeft

\* Neither the answer of a probe nor the end of the call brings it back.
LEMMA FinishIsCloser ==
  ASSUME Inv, Running, NEW proven, Finish(proven)
  PROVE  Closer
BY DEF Inv, TypeOK, Answered, Finish, Closer, Distance, Stage

LEMMA AliveIsCloser ==
  ASSUME Inv, Running, at \in CheckPoints \/ scan > 0, FoundAlive
  PROVE  Closer
<1>1. CASE at \in CheckPoints
  <2>1. reason' = reason /\ at' = IF at = "term-check" THEN "term" ELSE "kill"
    BY <1>1 DEF FoundAlive
  <2> QED BY <1>1, <2>1 DEF Closer, Distance, Stage
<1>2. CASE at \in WaitPoints /\ polls < MaxPolls
  <2>1. polls \in Nat /\ polls # MaxPolls
    BY <1>2 DEF Inv, TypeOK
  <2>2. polls' \in polls + 1 .. MaxPolls /\ UNCHANGED <<at, reason>>
    BY <1>2, <2>1 DEF FoundAlive
  <2>3. \A p, q, m \in Nat : q \in p + 1 .. m => m - q < m - p
    OBVIOUS
  <2>4. polls' \in Nat /\ MaxPolls' = MaxPolls
    BY <2>1, <2>2
  <2>5. PollsLeft' < PollsLeft
    BY <2>1, <2>2, <2>3, <2>4 DEF PollsLeft
  <2> QED BY <2>2, <2>5 DEF Closer, Distance, Stage
<1>3. CASE at \in WaitPoints /\ NotGone
  <2>1. \/ /\ at = "exit-wait" /\ at' = "term-check"
           /\ reason' = "orphan-descendants"
        \/ at = "term-wait" /\ at' = "kill-check" /\ reason' = reason
    BY <1>3 DEF NotGone
  <2>2. CASE at = "term-wait"
    BY <2>1, <2>2 DEF Closer, Distance, Stage
  <2>3. CASE at = "exit-wait"
    <3>1. reason = "exited" /\ at' = "term-check" /\ reason' = "orphan-descendants"
      BY <2>1, <2>3 DEF Inv, Answered
    <3>2. Stage = 9 /\ Stage' = 8
      BY <2>3, <3>1 DEF Stage
    <3>3. Distance = 20 /\ Distance' = 19
      BY <3>1, <3>2 DEF Distance
    <3> QED BY <3>3 DEF Closer
  <2> QED BY <2>1, <2>2, <2>3
<1>4. CASE Finish(FALSE)
  BY <1>4, FinishIsCloser
<1> QED BY <1>1, <1>2, <1>3, <1>4 DEF FoundAlive

LEMMA DeadIsCloser ==
  ASSUME Inv, Running, FoundDead
  PROVE  Closer
<1>1. CASE at \in CheckPoints
  <2>1. /\ reason' = reason
        /\ at' = IF at = "term-check" THEN "term-reap" ELSE "kill-reap"
    BY <1>1 DEF FoundDead
  <2> QED BY <1>1, <2>1 DEF Closer, Distance, Stage
<1>2. CASE at \in WaitPoints /\ Finish(TRUE)
  BY <1>2, FinishIsCloser
<1> QED BY <1>1, <1>2 DEF FoundDead

\* ps goes on to the next entry.
LEMMA CursorIsCloser ==
  ASSUME Inv, scan' = scan + 1, UNCHANGED <<at, polls, reason>>
  PROVE  Closer
<1>1. EntriesLeft' < EntriesLeft
  BY DEF Inv, TypeOK, EntriesLeft
<1> QED BY <1>1 DEF Closer, Distance, Stage, PollsLeft

LEMMA CallIsCloser ==
  ASSUME Inv, Controller \/ Failure
  PROVE  Closer
<1>1. CASE LeaderExits
  BY <1>1 DEF LeaderExits, Closer, Distance, Stage
<1>2. CASE Timeout
  BY <1>2 DEF Timeout, Inv, Answered, TypeOK, Closer, Distance, Stage
<1>3. CASE Probe
  <2>1. CASE scan' = 1 /\ UNCHANGED <<at, polls, reason>>
    BY <1>3, <2>1, CursorIsCloser DEF Probe
  <2> QED BY <1>3, <2>1, DeadIsCloser DEF Probe
<1>4. CASE ScanEntry
  BY <1>4, AliveIsCloser, DeadIsCloser, CursorIsCloser DEF ScanEntry
<1>5. CASE Signal
  <2>1. CASE at' = (IF at = "term" THEN "term-reap" ELSE "kill-reap")
             /\ reason' = reason
    BY <1>5, <2>1 DEF Signal, Closer, Distance, Stage
  <2> QED BY <1>5, <2>1, FinishIsCloser DEF Signal
<1>6. CASE Reap
  BY <1>6 DEF Reap, Closer, Distance, Stage
<1>7. CASE PsRaises
  BY <1>7, AliveIsCloser DEF PsRaises
<1>8. CASE PsPrintsNothing
  BY <1>8, DeadIsCloser DEF PsPrintsNothing
<1>9. CASE Interrupt
  <2>1. at \in {"wait", "exit-wait"} \cup TerminatePoints
    BY <1>9 DEF Interrupt, Inv, TypeOK, Answered
  <2>2. CASE reason \in {"exited", "orphan-descendants"}
    BY <1>9, <2>1, <2>2 DEF Interrupt, Closer, Distance, Stage
  <2>3. CASE reason \notin {"exited", "orphan-descendants"}
    BY <1>9, <2>1, <2>3 DEF Interrupt, Closer, Distance, Stage
  <2> QED BY <2>2, <2>3
<1> QED BY <1>1, <1>2, <1>3, <1>4, <1>5, <1>6, <1>7, <1>8, <1>9
        DEF Controller, Failure

\* A call that is scheduled ends after boundedly many steps of its own, however
\* the group behaves and whatever goes wrong: every probe, signal, wait,
\* failure and interrupt uses up one of StepsLeft (process.py:85-200).
THEOREM CallIsFinite ==
  Spec => [][Controller \/ Failure => StepsLeft' < StepsLeft]_vars
<1>1. Inv => TypeOK
  BY DEF Inv
<1>2. Inv /\ Inv' /\ [Next]_vars
        => [Controller \/ Failure => StepsLeft' < StepsLeft]_vars
  <2> SUFFICES ASSUME Inv, Inv', Controller \/ Failure
               PROVE  StepsLeft' < StepsLeft
    OBVIOUS
  <2> QED BY CallIsCloser, CloserIsLess DEF Inv
<1> QED BY <1>2, Invariant, PTL DEF Spec

\* The number is one, and the group cannot add to it.
THEOREM OnlyTheCallCounts ==
  Spec => /\ [](StepsLeft \in Nat)
          /\ [][Group => StepsLeft' = StepsLeft]_vars
<1>1. Inv => StepsLeft \in Nat
  BY StepsLeftIsNumber DEF Inv
<1>2. [Group => StepsLeft' = StepsLeft]_vars
  BY DEF Group, Fork, ExitMember, InitReaps, Write, StepsLeft, Distance, Stage,
         PollsLeft, EntriesLeft
<1> QED BY <1>1, <1>2, Invariant, PTL DEF Spec

-----------------------------------------------------------------------------
(* The call keeps the contract of module Target *)

\* Outside of a write of the group the workspace is left alone.
LEMMA TreeKept ==
  ASSUME Inv, Next, \A m \in Members : ~Write(m)
  PROVE  tree' = tree
<1>1. CASE Group
  BY <1>1 DEF Group, Fork, ExitMember, InitReaps
<1>2. CASE Controller
  BY <1>2 DEF Controller, LeaderExits, Timeout, Probe, ScanEntry, Signal, Reap,
              FoundAlive, FoundDead, Finish, NotGone, group
<1>3. CASE Failure
  BY <1>3 DEF Failure, PsRaises, PsPrintsNothing, Interrupt, FoundAlive,
              FoundDead, Finish, NotGone, group
<1> QED BY <1>1, <1>2, <1>3 DEF Next

\* A call that has ended does not change its answer.
LEMMA AnswerKept ==
  ASSUME Inv, Next, ~Running
  PROVE  UNCHANGED <<end, quiescent, blind>>
<1>1. CASE Group
  BY <1>1 DEF Group, Fork, ExitMember, InitReaps, Write
<1>2. CASE Controller
  BY <1>2 DEF Controller, LeaderExits, Timeout, Probe, ScanEntry, Signal, Reap
<1>3. CASE Failure
  BY <1>3 DEF Failure, PsRaises, PsPrintsNothing, Interrupt
<1> QED BY <1>1, <1>2, <1>3 DEF Next

\* Every step of the call and of its group is a step that the contract allows:
\* a write while nothing is proven, the one answer, or nothing.
LEMMA ContractStep ==
  ASSUME Inv, [Next]_vars
  PROVE  [Contract!Next]_(Contract!vars)
<1>1. CASE UNCHANGED vars
  BY <1>1 DEF vars, Contract!vars, TargetPhase
<1>2. ASSUME Next, NEW m \in Members, Write(m)
      PROVE  Contract!Write
  <2>1. ~quiescent \/ blind
    BY <1>2 DEF Write, Inv, Answered
  <2>2. tree' = 1 - tree /\ UNCHANGED <<end, quiescent, blind>>
    BY <1>2 DEF Write
  <2> QED BY <2>1, <2>2 DEF Contract!Write, TargetPhase
<1>3. CASE Next /\ \A m \in Members : ~Write(m)
  <2>1. tree' = tree
    BY <1>3, TreeKept
  <2>2. CASE ~Running
    <3>1. UNCHANGED <<end, quiescent, blind>>
      BY <1>3, <2>2, AnswerKept
    <3> QED BY <2>1, <3>1 DEF Contract!vars, TargetPhase
  <2>3. CASE Running /\ Running'
    BY <2>1, <2>3 DEF Contract!vars, TargetPhase
  <2>4. CASE Running /\ ~Running'
    <3>1. Contract!Settle
      BY <2>1, <2>4 DEF Contract!Settle, Contract!Answers, TargetPhase
    <3> QED BY <3>1 DEF Contract!Next
  <2> QED BY <2>2, <2>3, <2>4
<1> QED BY <1>1, <1>2, <1>3 DEF Contract!Next

\* run_bounded_process implements what run_attempt relies on: after it has
\* called a target quiescent, no byte of the workspace changes.
THEOREM ImplementsTarget == Spec => Contract!Spec
<1>1. Init => Contract!Init
  BY DEF Init, Contract!Init, TargetPhase
<1>2. Inv /\ [Next]_vars => [Contract!Next]_(Contract!vars)
  BY ContractStep
<1> QED BY <1>1, <1>2, Invariant, PTL DEF Spec, Contract!Spec
=============================================================================
