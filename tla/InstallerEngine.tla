-------------------------- MODULE InstallerEngine --------------------------
(***************************************************************************)
(* The control of the installer engine (internal/installer/engine.go): how *)
(* Engine.Run walks a plan of N steps, skips, runs or fails each one, and  *)
(* undoes the completed ones newest-first.  What the steps do to the       *)
(* machine is left to the modules that extend this one: InstallerPlan (any *)
(* plan that keeps the Step contract), WindowsInstall (the server's plan), *)
(* MacInstall (the client's) and ServerPrograms.  The last part states what*)
(* every run keeps, whatever its steps do; InstallerPlan_proof proves it.  *)
(***************************************************************************)
EXTENDS Naturals, Sequences, Functions

CONSTANT N              \* the number of steps in the plan

ASSUME NAssumption == N \in Nat

VARIABLES
  pc,         \* where Engine.Run is: see Phases
  cur,        \* the step the loop is at
  completed,  \* the steps this run completed, oldest first
  back,       \* index in completed of the next step to roll back, 0 when none
  cancelled,  \* whether the caller's context is cancelled
  status      \* the last status reported for each step

evars == <<pc, cur, completed, back, cancelled, status>>

Steps  == 1..N
Phases == {"idle", "check", "verify", "run", "rollback", "ok", "failed"}
Active == {"check", "verify", "run", "rollback"}

\* "none" is a step nothing has been reported of yet.
StepStatus == {"none", "skipped", "running", "done", "failed", "rolled-back"}

EngineTypeOK ==
  /\ pc \in Phases
  /\ cur \in 1..(N + 1)
  /\ completed \in Seq(Steps)
  /\ back \in 0..Len(completed)
  /\ cancelled \in BOOLEAN
  /\ status \in [Steps -> StepStatus]

EngineInit ==
  /\ pc = "idle"
  /\ cur = 1
  /\ completed = <<>>
  /\ back = 0
  /\ cancelled = FALSE
  /\ status = [j \in Steps |-> "none"]

\* The process starts: a new Engine, a new State, a fresh context.
Launch ==
  /\ pc \notin Active
  /\ pc' = "check"
  /\ cur' = 1
  /\ completed' = <<>>
  /\ back' = 0
  /\ cancelled' = FALSE
  /\ status' = [j \in Steps |-> "none"]

\* The caller cancels the context, at any point of the run.
Cancel ==
  /\ pc \in Active
  /\ ~cancelled
  /\ cancelled' = TRUE
  /\ UNCHANGED <<pc, cur, completed, back, status>>

\* The process dies: nothing of the run survives but the machine's state.
Crash ==
  /\ pc \in Active
  /\ pc' = "idle"
  /\ UNCHANGED <<cur, completed, back, cancelled, status>>

Report(s) == status' = [status EXCEPT ![cur] = s]

\* Mutant: rollback starts past the end of completed.
BeginRollbackPastEnd ==
  /\ pc' = "rollback"
  /\ back' = Len(completed) + 1
  /\ UNCHANGED <<cur, completed, cancelled>>

\* Mutant: rollback misses the newest completed step.
BeginRollbackMissesNewest ==
  /\ pc' = "rollback"
  /\ back' = IF completed = <<>> THEN 0 ELSE Len(completed) - 1
  /\ UNCHANGED <<cur, completed, cancelled>>

BeginRollback ==
  /\ pc' = "rollback"
  /\ back' = Len(completed)
  /\ UNCHANGED <<cur, completed, cancelled>>

\* The loop's head, with steps left: the context is looked at once per step.
Enter ==
  /\ pc = "check" /\ cur \in Steps /\ ~cancelled
  /\ pc' = "verify"
  /\ UNCHANGED <<cur, completed, back, cancelled, status>>

Interrupted ==
  /\ pc = "check" /\ cur \in Steps /\ cancelled
  /\ BeginRollback
  /\ UNCHANGED status

Finish ==
  /\ pc = "check" /\ cur \notin Steps
  /\ pc' = "ok"
  /\ UNCHANGED <<cur, completed, back, cancelled, status>>

VerifyFails == pc = "verify" /\ Report("failed") /\ BeginRollback

\* Mutant: a skipped step is put in completed.
SkipCompletes ==
  /\ pc = "verify"
  /\ Report("skipped")
  /\ pc' = "check"
  /\ cur' = cur + 1
  /\ completed' = Append(completed, cur)
  /\ UNCHANGED <<back, cancelled>>

\* Mutant: a skipped step is looked at again.
SkipStays ==
  /\ pc = "verify"
  /\ Report("skipped")
  /\ pc' = "check"
  /\ UNCHANGED <<cur, completed, back, cancelled>>

Skip ==
  /\ pc = "verify"
  /\ Report("skipped")
  /\ pc' = "check"
  /\ cur' = cur + 1
  /\ UNCHANGED <<completed, back, cancelled>>

Begin ==
  /\ pc = "verify"
  /\ Report("running")
  /\ pc' = "run"
  /\ UNCHANGED <<cur, completed, back, cancelled>>

\* Mutant: a failed step is passed over.
FailGoesOn ==
  /\ pc = "run"
  /\ Report("failed")
  /\ pc' = "check"
  /\ cur' = cur + 1
  /\ UNCHANGED <<completed, back, cancelled>>

Fail == pc = "run" /\ Report("failed") /\ BeginRollback

\* Mutant: completed is kept newest first.
CompletePrepends ==
  /\ pc = "run"
  /\ Report("done")
  /\ completed' = <<cur>> \o completed
  /\ pc' = "check"
  /\ cur' = cur + 1
  /\ UNCHANGED <<back, cancelled>>

Complete ==
  /\ pc = "run"
  /\ Report("done")
  /\ completed' = Append(completed, cur)
  /\ pc' = "check"
  /\ cur' = cur + 1
  /\ UNCHANGED <<back, cancelled>>

\* One turn of rollback's loop, whose step's Rollback returned nil or an error.
RollingBack == pc = "rollback" /\ back > 0
Undone == completed[back]       \* the step that turn is about

Undo ==
  /\ RollingBack
  /\ status' = [status EXCEPT ![Undone] = "rolled-back"]
  /\ back' = back - 1
  /\ UNCHANGED <<pc, cur, completed, cancelled>>

UndoFails ==
  /\ RollingBack
  /\ back' = back - 1
  /\ UNCHANGED <<pc, cur, completed, cancelled, status>>

ReturnCause ==
  /\ pc = "rollback" /\ back = 0
  /\ pc' = "failed"
  /\ UNCHANGED <<cur, completed, back, cancelled, status>>

-----------------------------------------------------------------------------
(* What every run of the engine keeps, whatever its steps do.              *)

\* completed holds exactly the steps the loop has passed and run, each once
\* and oldest first; every other step it passed was skipped.
Accounted ==
  /\ \A k, l \in DOMAIN completed : k < l => completed[k] < completed[l]
  /\ \A k \in DOMAIN completed : completed[k] < cur
  /\ pc \in {"check", "verify", "run", "ok"} =>
       \A j \in Steps : j < cur =>
         status[j] = IF j \in Range(completed) THEN "done" ELSE "skipped"

\* While rollback walks, the steps it has still to undo are reported done, and
\* each one is older than every step it has already been at.
NewestFirst ==
  pc = "rollback" =>
    /\ \A k \in 1..back : status[completed[k]] = "done"
    /\ \A j \in Steps : status[j] = "rolled-back" =>
         \A k \in 1..back : completed[k] < j

\* The steps from cur on have not been reported of, but for the one that runs.
Ahead ==
  /\ pc \in {"verify", "run"} => cur \in Steps
  /\ pc = "ok" => cur = N + 1
  /\ pc \in {"check", "verify", "run", "ok"} =>
       \A j \in Steps : j >= cur =>
         status[j] = IF pc = "run" /\ j = cur THEN "running" ELSE "none"

\* When a run turns back, at step cur, the steps it completed are reported done or
\* rolled back and no other is.
Behind ==
  /\ pc = "failed" => back = 0
  /\ pc \in {"rollback", "failed"} =>
       /\ cur \in Steps
       /\ \A k \in 1..back : status[completed[k]] = "done"
       /\ \A k \in DOMAIN completed : status[completed[k]] \in {"done", "rolled-back"}
       /\ \A j \in Steps : j \notin Range(completed) =>
            status[j] \in IF j < cur THEN {"skipped"}
                          ELSE IF j = cur THEN {"none", "failed"} ELSE {"none"}

EngineInv == EngineTypeOK /\ Accounted /\ Ahead /\ Behind

\* Whatever the engine, its caller, or the end of the process does; and, between two
\* runs, that the outcome of the last one no longer stands.
Drift ==
  /\ pc \notin Active /\ pc' = "idle"
  /\ UNCHANGED <<cur, completed, back, cancelled, status>>

EngineActs ==
  \/ Launch \/ Cancel \/ Crash \/ Drift
  \/ Enter \/ Interrupted \/ Finish \/ VerifyFails \/ Skip \/ Begin
  \/ Fail \/ Complete \/ Undo \/ UndoFails \/ ReturnCause
=============================================================================
