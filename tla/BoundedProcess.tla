--------------------------- MODULE BoundedProcess ---------------------------
(***************************************************************************)
(* run_bounded_process of fieldlab/process.py: one command in a process    *)
(* group of its own, waited for, terminated when it must be, and probed    *)
(* until no member of the group is left that could still write.            *)
(*                                                                         *)
(* The group moves while it is looked at: members fork, exit, and become   *)
(* zombies that init reaps.  `ps` reads the process table one entry after  *)
(* the other, in the order of the ids; ids grow and are not reused.        *)
(* Members that leave the group (setsid) are not seen by the code and not  *)
(* modelled.  SIGTERM may be ignored; a member that was sent SIGKILL forks *)
(* no more but may stay in the kernel, writing, for any length of time.    *)
(***************************************************************************)
EXTENDS Naturals

CONSTANTS
  MaxMembers,        \* bound: processes ever in the group
  MaxPolls,          \* probes that fit into one grace period
  MaxInterrupts      \* bound: KeyboardInterrupts

ASSUME MembersAssumption == MaxMembers \in Nat \ {0}
ASSUME PollsAssumption == MaxPolls \in Nat
ASSUME InterruptsAssumption == MaxInterrupts \in Nat

Members == 1 .. MaxMembers
Leader == 1     \* the process of the command; its pid is the group id

VARIABLES
  status,      \* the members of the group
  killed,      \* members with SIGKILL pending
  tree,        \* the bytes of the workspace: every write flips it
  at,          \* where run_bounded_process is
  scan,        \* the entry that ps reads next; 0 when ps is not running
  polls,       \* probes made in this grace period
  reason,      \* termination_reason
  signalled,   \* some signal was sent to the group
  quiescent,   \* the local of that name
  end,         \* how the call ended
  interrupts,  \* KeyboardInterrupts so far
  blind        \* the call ended on the silence of a ps that had failed

group == <<status, killed, tree>>
vars == <<status, killed, tree, at, scan, polls, reason, signalled, quiescent,
          end, interrupts, blind>>

Statuses == {"unborn", "live", "zombie", "gone"}
\* Where _group_alive is called: in _wait_group_gone ("...-wait") or once.
WaitPoints == {"exit-wait", "term-wait", "kill-wait"}
CheckPoints == {"term-check", "kill-check"}
ProbePoints == WaitPoints \cup CheckPoints
\* Inside _terminate_group.
TerminatePoints == {"term-check", "term", "term-reap", "term-wait",
                    "kill-check", "kill", "kill-reap", "kill-wait"}
Reasons == {"exited", "orphan-descendants", "timeout", "keyboard-interrupt"}

Live == {m \in Members : status[m] = "live"}
Present == {m \in Members : status[m] \in {"live", "zombie"}}
Unborn == {m \in Members : status[m] = "unborn"}

Running == end = "running"

Init ==
  /\ status = [m \in Members |-> IF m = Leader THEN "live" ELSE "unborn"]
  /\ killed = {} /\ tree = 0
  /\ at = "wait" /\ scan = 0 /\ polls = 0
  /\ reason = "exited" /\ signalled = FALSE /\ quiescent = FALSE
  /\ end = "running" /\ interrupts = 0 /\ blind = FALSE

-----------------------------------------------------------------------------
(* The process group *)

Fork(m) ==
  /\ m \in Live \ killed
  /\ \E n \in Unborn : /\ \A k \in Unborn : n <= k
                       /\ status' = [status EXCEPT ![n] = "live"]
  /\ UNCHANGED <<killed, tree, at, scan, polls, reason, signalled, quiescent,
                 end, interrupts, blind>>

ExitMember(m) ==
  /\ m \in Live
  /\ status' = [status EXCEPT ![m] = "zombie"]
  /\ UNCHANGED <<killed, tree, at, scan, polls, reason, signalled, quiescent,
                 end, interrupts, blind>>

\* init reaps orphans; the leader is reaped by subprocess.
InitReaps(m) ==
  /\ m # Leader /\ status[m] = "zombie"
  /\ status' = [status EXCEPT ![m] = "gone"]
  /\ UNCHANGED <<killed, tree, at, scan, polls, reason, signalled, quiescent,
                 end, interrupts, blind>>

Write(m) ==
  /\ m \in Live
  /\ tree' = 1 - tree
  /\ UNCHANGED <<status, killed, at, scan, polls, reason, signalled, quiescent,
                 end, interrupts, blind>>

-----------------------------------------------------------------------------
(* run_bounded_process *)

\* Popen.poll and Popen.wait reap a leader that has exited.
Reaped == [status EXCEPT ![Leader] = IF @ = "zombie" THEN "gone" ELSE @]

\* process.wait returns the exit code.
LeaderExits ==
  /\ Running /\ at = "wait" /\ status[Leader] = "zombie"
  /\ status' = Reaped
  /\ at' = "exit-wait" /\ polls' = 0
  /\ UNCHANGED <<killed, tree, scan, reason, signalled, quiescent, end,
                 interrupts, blind>>

\* process.wait raises TimeoutExpired.
Timeout ==
  /\ Running /\ at = "wait"
  /\ reason' = "timeout" /\ at' = "term-check"
  /\ UNCHANGED <<group, scan, polls, signalled, quiescent, end, interrupts, blind>>

\* The result is returned; after a KeyboardInterrupt an exception is raised.
Finish(proven) ==
  /\ quiescent' = proven
  /\ end' = IF reason # "keyboard-interrupt" THEN "returned"
            ELSE IF proven THEN "interrupt" ELSE "error"
  /\ at' = "done" /\ scan' = 0
  /\ UNCHANGED <<group, polls, reason, signalled, interrupts>>

\* Mutant: survivors are terminated but the result still says exited.
NotGoneUnmarked ==
  CASE at = "exit-wait" -> at' = "term-check" /\ UNCHANGED reason
    [] at = "term-wait" -> at' = "kill-check" /\ UNCHANGED reason
    [] OTHER -> FALSE

\* After a grace period without success.
NotGone ==
  CASE at = "exit-wait" -> /\ reason' = "orphan-descendants"
                           /\ at' = "term-check"
    [] at = "term-wait" -> at' = "kill-check" /\ UNCHANGED reason
    [] OTHER -> FALSE

\* Mutant: the loop of _wait_group_gone forgets its deadline.
FoundAliveNoDeadline ==
  \/ /\ at \in CheckPoints
     /\ at' = IF at = "term-check" THEN "term" ELSE "kill"
     /\ scan' = 0
     /\ UNCHANGED <<group, polls, reason, signalled, quiescent, end, interrupts>>
  \/ /\ at \in WaitPoints
     /\ scan' = 0
     /\ UNCHANGED <<group, at, polls, reason, signalled, quiescent, end,
                    interrupts>>

\* Mutant: the deadline is compared after the count.
FoundAliveOnceMore ==
  /\ at \in WaitPoints /\ polls <= MaxPolls
  /\ polls' = polls + 1 /\ scan' = 0
  /\ UNCHANGED <<group, at, reason, signalled, quiescent, end, interrupts>>

\* _group_alive returned TRUE.
FoundAlive ==
  \/ /\ at \in CheckPoints
     /\ at' = IF at = "term-check" THEN "term" ELSE "kill"
     /\ scan' = 0
     /\ UNCHANGED <<group, polls, reason, signalled, quiescent, end, interrupts>>
  \/ /\ at \in WaitPoints /\ polls < MaxPolls
     /\ polls' \in polls + 1 .. MaxPolls      \* sleep, or the deadline passes
     /\ scan' = 0
     /\ UNCHANGED <<group, at, reason, signalled, quiescent, end, interrupts>>
  \/ /\ at \in WaitPoints /\ polls = MaxPolls
     /\ \/ /\ NotGone /\ scan' = 0
           /\ UNCHANGED <<group, polls, signalled, quiescent, end, interrupts>>
        \/ at = "kill-wait" /\ Finish(FALSE)

\* _group_alive returned FALSE.
FoundDead ==
  \/ /\ at \in CheckPoints
     /\ at' = IF at = "term-check" THEN "term-reap" ELSE "kill-reap"
     /\ scan' = 0
     /\ UNCHANGED <<group, polls, reason, signalled, quiescent, end, interrupts>>
  \/ at \in WaitPoints /\ Finish(TRUE)

\* os.killpg(pgid, 0), then ps is started.
Probe ==
  /\ Running /\ at \in ProbePoints /\ scan = 0
  /\ \/ Present = {} /\ FoundDead
     \/ /\ Present # {} /\ scan' = 1
        /\ UNCHANGED <<group, at, polls, reason, signalled, quiescent, end,
                       interrupts>>
  /\ UNCHANGED blind

\* Mutant: only the exit of the leader is looked at.
ScanEntryOfLeader ==
  /\ Running /\ scan > 0
  /\ IF status[Leader] = "live" THEN FoundAlive ELSE FoundDead
  /\ UNCHANGED blind

\* ps reads one entry of the process table.
ScanEntry ==
  /\ Running /\ scan > 0
  /\ \/ /\ scan \in Live /\ FoundAlive
     \/ /\ scan \in Members \ (Live \cup Unborn)
        /\ scan' = scan + 1
        /\ UNCHANGED <<group, at, polls, reason, signalled, quiescent, end,
                       interrupts>>
     \/ scan \notin Members \ Unborn /\ FoundDead
  /\ UNCHANGED blind

\* ps cannot be run, takes more than a second, or killpg lacks permission.
PsRaises ==
  /\ Running /\ scan > 0
  /\ FoundAlive
  /\ UNCHANGED blind

\* check=False: an exit code of ps other than 0 is not looked at.
PsPrintsNothing ==
  /\ Running /\ scan > 0
  /\ FoundDead
  /\ \/ at \in WaitPoints /\ blind' = TRUE     \* this answer ends the call
     \/ at \in CheckPoints /\ UNCHANGED blind

\* killpg(SIGTERM) or killpg(SIGKILL); it raises when nobody is left, on macOS
\* also when only zombies are.
Signal ==
  /\ Running /\ at \in {"term", "kill"}
  /\ \/ /\ Present # {}
        /\ signalled' = TRUE
        /\ killed' = IF at = "kill" THEN killed \cup Live ELSE killed
        /\ at' = IF at = "term" THEN "term-reap" ELSE "kill-reap"
        /\ UNCHANGED <<status, tree, scan, polls, reason, quiescent, end,
                       interrupts>>
     \/ Live = {} /\ Finish(FALSE)
  /\ UNCHANGED blind

\* _reap_parent: the leader may still be alive when its wait ends.
Reap ==
  /\ Running /\ at \in {"term-reap", "kill-reap"}
  /\ status' = Reaped
  /\ at' = (IF at = "term-reap" THEN "term-wait" ELSE "kill-wait")
  /\ polls' = 0
  /\ UNCHANGED <<killed, tree, scan, reason, signalled, quiescent, end,
                 interrupts, blind>>

\* Inside the try block an interrupt terminates the group; inside one of the
\* except clauses it leaves run_bounded_process at once.
Interrupt ==
  /\ Running /\ interrupts < MaxInterrupts /\ interrupts' = interrupts + 1
  /\ UNCHANGED blind
  /\ IF reason \in {"exited", "orphan-descendants"}
     THEN /\ reason' = "keyboard-interrupt" /\ at' = "term-check"
          /\ polls' = 0 /\ scan' = 0
          /\ UNCHANGED <<group, signalled, quiescent, end>>
     ELSE /\ end' = "interrupt" /\ at' = "done" /\ scan' = 0
          /\ UNCHANGED <<group, polls, reason, signalled, quiescent>>

-----------------------------------------------------------------------------
Group == \E m \in Members : Fork(m) \/ ExitMember(m) \/ InitReaps(m) \/ Write(m)

Controller == \/ LeaderExits \/ Timeout \/ Probe \/ ScanEntry \/ Signal \/ Reap

Failure == PsRaises \/ PsPrintsNothing \/ Interrupt

Next == Group \/ Controller \/ Failure

Spec == Init /\ [][Next]_vars

\* The call is scheduled, and time passes: the timeout of process.wait expires
\* unless the leader exits.  Nothing is assumed of the group.
FairSpec == Spec /\ WF_vars(Controller)

-----------------------------------------------------------------------------
TypeOK ==
  /\ status \in [Members -> Statuses]
  /\ killed \in SUBSET Members
  /\ tree \in {0, 1}
  /\ at \in {"wait", "exit-wait", "done"} \cup TerminatePoints
  /\ scan \in 0 .. MaxMembers + 1
  /\ polls \in 0 .. MaxPolls
  /\ reason \in Reasons
  /\ signalled \in BOOLEAN /\ quiescent \in BOOLEAN
  /\ end \in {"running", "returned", "interrupt", "error"}
  /\ interrupts \in 0 .. MaxInterrupts
  /\ blind \in BOOLEAN

\* A result that says quiescent was read from a table that the group was
\* changing; still, no member is alive to fork, write or be seen later, unless
\* ps had failed and nobody looked at its exit code.
QuiescentMeansDead == quiescent /\ ~blind => Live = {}

\* A result without timeout and without orphans is one in which nothing was
\* ever done to the group: it ended by itself within the grace period.
CleanExitUntouched ==
  end = "returned" /\ reason = "exited" =>
    quiescent /\ ~signalled /\ killed = {} /\ interrupts = 0

\* The call keeps the contract that run_attempt is modelled against.
TargetPhase == IF Running THEN "live"
               ELSE IF ~quiescent THEN "unproven"
               ELSE IF blind THEN "misjudged" ELSE "quiescent"

Contract == INSTANCE Target WITH phase <- TargetPhase, tree <- tree

KeepsContract == Contract!FairSpec

(* A statement of the documentation that the code does not keep *)

\* fieldlab/process.py: without a usable ps the probe falls back to killpg, so
\* it never calls a group dead that killpg still finds.
ProbeFallsBack ==
  [][\/ at \in CheckPoints /\ at' \in {"term-reap", "kill-reap"}
     \/ quiescent' # quiescent
       => Live = {}]_vars
=============================================================================
