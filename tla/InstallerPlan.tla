--------------------------- MODULE InstallerPlan ---------------------------
(***************************************************************************)
(* The engine over a plan of steps that keep the Step contract of          *)
(* internal/installer/installer.go, on a machine that outlives the         *)
(* process.  Of each step's work the machine holds one of                  *)
(*   "absent"   nothing;                                                   *)
(*   "partial"  something, that Verify does not take for the work;         *)
(*   "decoy"    something incomplete that Verify takes for the work;       *)
(*   "present"  the work, whole.                                           *)
(* A run of the program may fail, be cancelled or die at any point; the    *)
(* operator may launch it again on whatever machine that left.             *)
(***************************************************************************)
EXTENDS InstallerEngine

CONSTANTS
  Checked,     \* the steps with a VerifyFunc; the others always run
  Reversible,  \* the steps with a RollbackFunc
  Honest,      \* the steps whose failed Run never leaves a "decoy"
  MaxFaults    \* bound on the failures, cancellations and crashes of a behaviour

ASSUME PlanAssumption ==
  /\ Checked \subseteq Steps
  /\ Reversible \subseteq Steps
  /\ Honest \subseteq Steps
  /\ MaxFaults \in Nat

VARIABLES
  world,    \* what the machine holds of each step's work
  start,    \* world as this run found it (history)
  faults    \* how many faults have happened (bound)

vars == <<evars, world, start, faults>>

Work == {"absent", "partial", "decoy", "present"}

Satisfied(w) == w \in {"decoy", "present"}     \* what Verify goes by

\* What a Run that failed, or was killed, leaves of step j's work.
Leftovers(j) == IF j \in Honest THEN Work \ {"decoy"} ELSE Work

TypeOK ==
  /\ EngineTypeOK
  /\ world \in [Steps -> Work]
  /\ start \in [Steps -> Work]
  /\ faults \in 0..MaxFaults

\* The machine may already hold some of the work (WireGuard installed by hand).
Init ==
  /\ EngineInit
  /\ world \in [Steps -> {"absent", "present"}]
  /\ start = world
  /\ faults = 0

Fault   == faults < MaxFaults /\ faults' = faults + 1

\* Under a cancelled context commands and downloads fail of themselves.
Failure == \/ Fault
           \/ cancelled /\ UNCHANGED faults

Becomes(j, w) == world' = [world EXCEPT ![j] = w]

Relaunch   == Launch /\ start' = world /\ UNCHANGED <<world, faults>>
CancelCtx  == Cancel /\ Fault /\ UNCHANGED <<world, start>>
StepHead   == (Enter \/ Interrupted \/ Finish) /\ UNCHANGED <<world, start, faults>>

VerifyErrs == VerifyFails /\ cur \in Checked /\ Failure /\ UNCHANGED <<world, start>>

VerifyHolds ==
  /\ Skip
  /\ cur \in Checked /\ Satisfied(world[cur])
  /\ UNCHANGED <<world, start, faults>>

VerifyLacks ==
  /\ Begin
  /\ cur \in Checked => ~Satisfied(world[cur])
  /\ UNCHANGED <<world, start, faults>>

RunSucceeds == Complete /\ Becomes(cur, "present") /\ UNCHANGED <<start, faults>>

RunFails ==
  /\ Fail
  /\ Failure
  /\ \E w \in Leftovers(cur) : Becomes(cur, w)
  /\ UNCHANGED start

\* A nil RollbackFunc does nothing and returns nil.
RollbackNothing ==
  /\ Undo
  /\ Undone \notin Reversible
  /\ UNCHANGED <<world, start, faults>>

\* Both plans' rollbacks are external commands run with the engine's context,
\* and exec.CommandContext starts none once that is cancelled.
RollbackSucceeds ==
  /\ Undo
  /\ Undone \in Reversible /\ ~cancelled
  /\ Becomes(Undone, "absent")
  /\ UNCHANGED <<start, faults>>

RollbackErrs ==
  /\ UndoFails
  /\ Undone \in Reversible
  /\ Failure
  /\ \/ UNCHANGED world
     \/ ~cancelled /\ \E w \in Leftovers(Undone) : Becomes(Undone, w)
  /\ UNCHANGED start

GiveUp == ReturnCause /\ UNCHANGED <<world, start, faults>>

\* Killed between two steps, during a Run, or during a Rollback.
Killed ==
  /\ Crash
  /\ Fault
  /\ \/ UNCHANGED world
     \/ pc = "run" /\ \E w \in Leftovers(cur) : Becomes(cur, w)
     \/ /\ RollingBack /\ Undone \in Reversible
        /\ \E w \in Leftovers(Undone) : Becomes(Undone, w)
  /\ UNCHANGED start

EngineStep ==
  \/ StepHead \/ VerifyErrs \/ VerifyHolds \/ VerifyLacks
  \/ RunSucceeds \/ RunFails
  \/ RollbackNothing \/ RollbackSucceeds \/ RollbackErrs \/ GiveUp

Next == Relaunch \/ EngineStep \/ CancelCtx \/ Killed

Spec == Init /\ [][Next]_vars

\* The engine never waits; and an operator whose install did not succeed runs
\* it again.
FairSpec == Spec /\ WF_vars(EngineStep) /\ WF_vars(Relaunch)

-----------------------------------------------------------------------------
\* A run that returns nil leaves every honest step's work whole, whether the
\* run did that work itself or its Verify found it (Engine.Run's "skipping when
\* already satisfied"), and whatever earlier runs crashed in the middle of.
SuccessIsComplete ==
  pc = "ok" => \A j \in Honest : world[j] = "present"

\* A run that returns an error leaves every reversible step as it found it: the
\* steps it skipped are untouched and those it completed are undone.  Excepted
\* are the step that failed and one whose own Rollback failed, which is still
\* reported done.
FailureRestores ==
  pc = "failed" =>
    \A j \in Checked \cap Reversible :
      status[j] \notin {"failed", "done"} => Satisfied(world[j]) = Satisfied(start[j])

\* What the progress lines say when the run is over is true of the machine:
\* no step is left "running", and one reported rolled back that can be undone
\* is gone.
ReportIsTrue ==
  pc \in {"ok", "failed"} =>
    \A j \in Steps :
      /\ status[j] # "running"
      /\ status[j] = "done" => (pc = "ok" /\ world[j] = "present") \/ j \in Reversible
      /\ status[j] = "rolled-back" /\ j \in Reversible => world[j] = "absent"

\* Rollback undoes only what this very run completed: it never takes away work
\* that was on the machine before the run.
OnlyOwnWorkUndone ==
  [][\A j \in Checked : pc = "rollback" /\ world'[j] # world[j]
        => j \in Range(completed) /\ ~Satisfied(start[j])]_vars

\* What an install is worth to its operator: AtomicInstall, when a run in
\* progress is taken to have done nothing yet.
SatisfiedIn(w) == {j \in Checked : Satisfied(w[j])}

Atomic == INSTANCE AtomicInstall WITH
  Kept     <- Checked,
  Undoable <- Checked \cap Reversible,
  phase    <- IF pc \in Active THEN "running" ELSE pc,
  holds    <- SatisfiedIn(IF pc \in Active THEN start ELSE world),
  spoiled  <- IF pc = "failed"
              THEN {j \in Checked : status[j] \in {"failed", "done"}} ELSE {}

\* Every behaviour of the engine over such a plan is one of AtomicInstall:
\* commits are whole, aborts add nothing they can undo, and neither a failure
\* nor a crash, in a Run or in a rollback, loses work that was there before.
ImplementsAtomicInstall == Atomic!Spec

\* Re-running a partially completed install resumes: once the faults are over,
\* the operator's next runs succeed.
Resumes == []<>(pc = "ok")

-----------------------------------------------------------------------------
(* The inductive invariant behind the properties above.                    *)

\* While the engine walks forward, the steps before cur are done or skipped
\* and those after it untouched.
Forward ==
  /\ pc \in {"verify", "run"} => cur \in Steps
  /\ pc = "ok" => cur = N + 1
  /\ pc \in {"check", "verify", "run", "ok"} =>
       /\ \A j \in Steps : j < cur => status[j] \in {"done", "skipped"}
       /\ \A j \in Steps : j >= cur =>
            status[j] = IF pc = "run" /\ j = cur THEN "running" ELSE "none"
       /\ \A k \in DOMAIN completed : status[completed[k]] = "done"

\* While it walks back, the steps still to undo are whole, and of those it has
\* been at only one whose Rollback erred is still reported done.
Backward ==
  /\ pc = "failed" => back = 0
  /\ pc = "rollback" =>
       \A k \in 1..back : /\ status[completed[k]] = "done"
                          /\ world[completed[k]] = "present"
  /\ pc \in {"rollback", "failed"} =>
       \A k \in DOMAIN completed : k > back =>
         \/ status[completed[k]] = "rolled-back"
         \/ status[completed[k]] = "done" /\ completed[k] \in Reversible

\* What a step's reported status says of its work.
StepFact(j) ==
  /\ status[j] = "none" => world[j] = start[j]
  /\ status[j] = "skipped" =>
       j \in Checked /\ Satisfied(start[j]) /\ world[j] = start[j]
  /\ status[j] = "running" =>
       /\ pc = "run" /\ j = cur /\ world[j] = start[j]
       /\ j \in Checked => ~Satisfied(start[j])
  /\ status[j] = "failed" =>
       /\ pc \in {"rollback", "failed"}
       /\ j \notin Range(completed)
       /\ j \in Checked /\ Satisfied(start[j]) => Satisfied(world[j])
  /\ status[j] \in {"done", "rolled-back"} =>
       /\ j \in Range(completed)
       /\ j \in Checked => ~Satisfied(start[j])
  /\ status[j] = "done" /\ pc \in {"check", "verify", "run", "ok"} =>
       world[j] = "present"
  /\ status[j] = "rolled-back" /\ j \in Reversible => world[j] = "absent"

NoDecoy == \A j \in Honest : world[j] # "decoy"

IInv ==
  /\ TypeOK
  /\ Accounted
  /\ Forward
  /\ Backward
  /\ NoDecoy
  /\ pc # "idle" => \A j \in Steps : StepFact(j)
=============================================================================
