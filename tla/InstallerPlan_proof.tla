------------------------ MODULE InstallerPlan_proof ------------------------
(***************************************************************************)
(* Proofs about InstallerPlan, for plans of any length, any choice of the  *)
(* steps that are checked, reversible and honest, and any number of        *)
(* faults.  IInv is inductive (InitIInv, NextKeepsIInv); every safety      *)
(* property of the module, and the refinement of AtomicInstall, follows    *)
(* from it.                                                                *)
(*                                                                         *)
(* The first part is about the engine alone: EngineInv is preserved by     *)
(* every action of InstallerEngine.  WindowsInstall_proof, MacInstall_proof*)
(* and ServerPrograms_proof take it from here by INSTANCE: each adds what  *)
(* its plan's steps do to the machine.                                     *)
(***************************************************************************)
EXTENDS InstallerPlan, TLAPS

-----------------------------------------------------------------------------
(* The engine.                                                             *)

\* What Append does to a sequence's length, elements and range: Engine.Run
\* appends every step it completes to completed.
LEMMA AppendFacts ==
  ASSUME NEW S, NEW s \in Seq(S), NEW e \in S
  PROVE  /\ Append(s, e) \in Seq(S)
         /\ Len(Append(s, e)) = Len(s) + 1
         /\ DOMAIN Append(s, e) = 1..(Len(s) + 1)
         /\ \A k \in 1..Len(s) : Append(s, e)[k] = s[k]
         /\ Append(s, e)[Len(s) + 1] = e
         /\ Range(Append(s, e)) = Range(s) \cup {e}
<1>1. /\ Append(s, e) \in Seq(S)
      /\ Len(Append(s, e)) = Len(s) + 1
      /\ DOMAIN Append(s, e) = 1..(Len(s) + 1)
      /\ \A k \in 1..Len(s) : Append(s, e)[k] = s[k]
      /\ Append(s, e)[Len(s) + 1] = e
  OBVIOUS
<1>3. Range(Append(s, e)) = Range(s) \cup {e}
  BY <1>1 DEF Range
<1>4. QED
  BY <1>3

\* Before the first run nothing is reported or completed.
LEMMA EngineInits == EngineInit => EngineInv
<1> SUFFICES ASSUME EngineInit PROVE EngineInv
  OBVIOUS
<1>1. Len(completed) = 0 /\ completed \in Seq(Steps) /\ DOMAIN completed = {}
  BY DEF EngineInit
<1>2. EngineTypeOK
  <2>1. cur \in 1..(N + 1) /\ back \in 0..Len(completed)
    BY <1>1, NAssumption DEF EngineInit
  <2>2. QED
    BY <1>1, <2>1 DEF EngineInit, EngineTypeOK, Phases, StepStatus
<1>3. Accounted /\ Ahead /\ Behind
  BY <1>1 DEF EngineInit, Accounted, Ahead, Behind
<1>4. QED
  BY <1>2, <1>3 DEF EngineInv

\* The steps completed are told apart by their places in completed, and are all
\* behind the loop.
LEMMA CompletedFacts ==
  ASSUME EngineInv
  PROVE  /\ Len(completed) \in Nat /\ DOMAIN completed = 1..Len(completed)
         /\ \A k \in 1..Len(completed) : completed[k] \in Steps /\ completed[k] < cur
         /\ \A k, l \in 1..Len(completed) : k # l => completed[k] # completed[l]
         /\ \A j \in Range(completed) : j \in Steps /\ j < cur
<1>1. /\ Len(completed) \in Nat /\ DOMAIN completed = 1..Len(completed)
      /\ \A k \in 1..Len(completed) : completed[k] \in Steps
  BY DEF EngineInv, EngineTypeOK
<1>2. \A k, l \in 1..Len(completed) : k # l => completed[k] # completed[l]
  BY <1>1 DEF EngineInv, Accounted, Steps
<1>3. \A k \in 1..Len(completed) : completed[k] < cur
  BY <1>1 DEF EngineInv, Accounted
<1>4. QED
  BY <1>1, <1>2, <1>3 DEF Range

\* Turning back leaves Accounted and Behind.
LEMMA TurnsBack ==
  ASSUME EngineInv, BeginRollback, pc \in {"check", "verify", "run"}, cur \in Steps,
         \/ status' = status /\ pc = "check"
         \/ Report("failed") /\ pc \in {"verify", "run"}
  PROVE  EngineInv'
<1>0. /\ pc' = "rollback" /\ back' = Len(completed)
      /\ cur' = cur /\ completed' = completed /\ cancelled' = cancelled
  BY DEF BeginRollback
<1>1. \A j \in Steps : /\ j # cur => status'[j] = status[j]
                       /\ j = cur => status'[j] \in {"none", "failed"}
  BY DEF EngineInv, EngineTypeOK, Ahead, Report
<1>2. status' \in [Steps -> StepStatus]
  BY DEF EngineInv, EngineTypeOK, Report, StepStatus
<1>3. EngineTypeOK'
  BY <1>0, <1>2, CompletedFacts DEF EngineInv, EngineTypeOK, Phases
<1>4. Accounted' /\ Ahead'
  BY <1>0 DEF EngineInv, Accounted, Ahead
<1>5. Behind'
  <2>1. \A k \in DOMAIN completed : status'[completed[k]] = "done"
    BY <1>1, CompletedFacts DEF EngineInv, Accounted, Range, Steps
  <2>2. \A j \in Steps : j \notin Range(completed) =>
            status'[j] \in IF j < cur THEN {"skipped"}
                           ELSE IF j = cur THEN {"none", "failed"} ELSE {"none"}
    BY <1>1, NAssumption DEF EngineInv, Accounted, Ahead, Steps
  <2>3. QED
    BY <1>0, <2>1, <2>2, CompletedFacts DEF Behind
<1>6. QED
  BY <1>3, <1>4, <1>5 DEF EngineInv

\* Nothing the engine does, or that is done to it, falsifies EngineInv.
LEMMA EngineKept ==
  ASSUME EngineInv, EngineActs \/ UNCHANGED evars
  PROVE  EngineInv'
<1> USE NAssumption
<1>0. CASE UNCHANGED evars
  BY <1>0 DEF evars, EngineInv, EngineTypeOK, Accounted, Ahead, Behind
<1>1. CASE Launch
  <2>1. /\ completed' \in Seq(Steps) /\ back' \in 0..Len(completed')
        /\ DOMAIN completed' = {} /\ cur' = 1 /\ cur' \in 1..(N + 1)
    BY <1>1 DEF Launch
  <2>2. EngineTypeOK'
    BY <1>1, <2>1 DEF Launch, Phases, StepStatus, EngineTypeOK
  <2>3. Accounted' /\ Ahead' /\ Behind'
    BY <1>1, <2>1 DEF Launch, Accounted, Ahead, Behind, Steps
  <2>4. QED
    BY <2>2, <2>3 DEF EngineInv
<1>2. CASE Cancel \/ Crash \/ Drift \/ ReturnCause \/ Enter \/ Finish
  <2>1. /\ cur' = cur /\ completed' = completed /\ back' = back /\ status' = status
        /\ cancelled' \in BOOLEAN /\ pc' \in Phases
    BY <1>2 DEF Cancel, Crash, Drift, ReturnCause, Enter, Finish, EngineInv, EngineTypeOK,
                Phases
  <2>2. EngineTypeOK'
    BY <2>1 DEF EngineInv, EngineTypeOK
  <2>3. Accounted' /\ Ahead' /\ Behind'
    BY <1>2, <2>1 DEF Cancel, Crash, Drift, ReturnCause, Enter, Finish, EngineInv,
                      EngineTypeOK, Accounted, Ahead, Behind, Steps
  <2>4. QED
    BY <2>2, <2>3 DEF EngineInv
<1>3. CASE Interrupted \/ VerifyFails \/ Fail
  BY <1>3, TurnsBack DEF Interrupted, VerifyFails, Fail, EngineInv, Ahead
<1>4. CASE Skip
  <2>1. /\ pc = "verify" /\ pc' = "check" /\ cur \in Steps /\ cur' = cur + 1
        /\ completed' = completed /\ back' = back /\ cancelled' = cancelled
        /\ status' = [status EXCEPT ![cur] = "skipped"]
    BY <1>4 DEF Skip, Report, EngineInv, Ahead
  <2>2. EngineTypeOK'
    BY <2>1 DEF EngineInv, EngineTypeOK, Phases, StepStatus, Steps
  <2>3. Accounted'
    BY <2>1, CompletedFacts DEF EngineInv, EngineTypeOK, Accounted, Steps
  <2>4. Ahead' /\ Behind'
    BY <2>1 DEF EngineInv, EngineTypeOK, Ahead, Behind, Steps
  <2>5. QED
    BY <2>2, <2>3, <2>4 DEF EngineInv
<1>5. CASE Begin
  <2>1. /\ pc = "verify" /\ pc' = "run" /\ cur \in Steps /\ cur' = cur
        /\ completed' = completed /\ back' = back /\ cancelled' = cancelled
        /\ status' = [status EXCEPT ![cur] = "running"]
    BY <1>5 DEF Begin, Report, EngineInv, Ahead
  <2>2. EngineTypeOK'
    BY <2>1 DEF EngineInv, EngineTypeOK, Phases, StepStatus
  <2>3. Accounted'
    BY <2>1 DEF EngineInv, EngineTypeOK, Accounted, Steps
  <2>4. Ahead' /\ Behind'
    BY <2>1 DEF EngineInv, EngineTypeOK, Ahead, Behind, Steps
  <2>5. QED
    BY <2>2, <2>3, <2>4 DEF EngineInv
<1>6. CASE Complete
  <2>1. /\ pc = "run" /\ pc' = "check" /\ cur \in Steps /\ cur' = cur + 1
        /\ completed' = Append(completed, cur) /\ back' = back /\ cancelled' = cancelled
        /\ status' = [status EXCEPT ![cur] = "done"]
    BY <1>6 DEF Complete, Report, EngineInv, Ahead
  <2>2. /\ completed' \in Seq(Steps) /\ Len(completed') = Len(completed) + 1
        /\ DOMAIN completed' = 1..(Len(completed) + 1)
        /\ \A k \in 1..Len(completed) : completed'[k] = completed[k]
        /\ completed'[Len(completed) + 1] = cur
        /\ Range(completed') = Range(completed) \cup {cur}
    BY <2>1, AppendFacts DEF EngineInv, EngineTypeOK
  <2>3. EngineTypeOK'
    BY <2>1, <2>2, CompletedFacts DEF EngineInv, EngineTypeOK, Phases, StepStatus, Steps
  <2>4. Accounted'
    <3>1. \A k \in DOMAIN completed' : completed'[k] < cur'
      BY <2>1, <2>2, CompletedFacts DEF Steps
    <3>2. \A k, l \in DOMAIN completed' : k < l => completed'[k] < completed'[l]
      BY <2>1, <2>2, CompletedFacts DEF EngineInv, Accounted, Steps
    <3>3. \A j \in Steps : j < cur' =>
            status'[j] = IF j \in Range(completed') THEN "done" ELSE "skipped"
      BY <2>1, <2>2 DEF EngineInv, EngineTypeOK, Accounted, Steps
    <3>4. QED
      BY <3>1, <3>2, <3>3 DEF Accounted
  <2>5. Ahead' /\ Behind'
    BY <2>1 DEF EngineInv, EngineTypeOK, Ahead, Behind, Steps
  <2>6. QED
    BY <2>3, <2>4, <2>5 DEF EngineInv
<1>7. CASE Undo \/ UndoFails
  <2>1. /\ pc = "rollback" /\ pc' = pc /\ cur' = cur /\ cur \in Steps /\ back > 0
        /\ completed' = completed /\ back' = back - 1 /\ cancelled' = cancelled
        /\ status' = status \/ status' = [status EXCEPT ![completed[back]] = "rolled-back"]
    BY <1>7 DEF Undo, UndoFails, Undone, RollingBack, EngineInv, Behind
  <2>2. back \in 1..Len(completed) /\ completed[back] \in Steps
    BY <2>1, CompletedFacts DEF EngineInv, EngineTypeOK
  <2>3. EngineTypeOK'
    BY <2>1, <2>2 DEF EngineInv, EngineTypeOK, Phases, StepStatus
  <2>4. Accounted' /\ Ahead'
    BY <2>1 DEF EngineInv, Accounted, Ahead
  <2>5. Behind'
    <3>1. \A k \in 1..Len(completed) :
            status'[completed[k]] = IF k = back /\ status' # status THEN "rolled-back"
                                    ELSE status[completed[k]]
      BY <2>1, <2>2, CompletedFacts DEF EngineInv, EngineTypeOK
    <3>2. \A j \in Steps : j \notin Range(completed) => status'[j] = status[j]
      BY <2>1, <2>2, CompletedFacts DEF EngineInv, EngineTypeOK, Range
    <3>3. QED
      BY <2>1, <2>2, <3>1, <3>2, CompletedFacts DEF EngineInv, EngineTypeOK, Behind
  <2>6. QED
    BY <2>3, <2>4, <2>5 DEF EngineInv
<1>8. QED
  BY <1>0, <1>1, <1>2, <1>3, <1>4, <1>5, <1>6, <1>7 DEF EngineActs

-----------------------------------------------------------------------------
(* The plan.                                                               *)

\* IInv is inductive: no step of Engine.Run, of its rollback loop, of the
\* operator or of a crash falsifies it.
LEMMA NextKeepsIInv == IInv /\ [Next]_vars => IInv'
<1> SUFFICES ASSUME IInv, [Next]_vars PROVE IInv'
  OBVIOUS
<1> USE NAssumption, PlanAssumption
<1>b. /\ Len(completed) \in Nat
      /\ DOMAIN completed = 1..Len(completed)
      /\ \A k \in 1..Len(completed) : completed[k] \in Steps
  BY DEF IInv, TypeOK, EngineTypeOK
<1>c. pc # "idle" => \A j \in Steps : StepFact(j)
  BY DEF IInv
<1>d. \A k, l \in 1..Len(completed) : k # l => completed[k] # completed[l]
  BY <1>b DEF IInv, Accounted, Steps
<1>e. ASSUME NEW j, UNCHANGED world \/ \E w \in Leftovers(j) : Becomes(j, w)
      PROVE  world' \in [Steps -> Work]
  BY <1>e DEF Leftovers, Becomes, IInv, TypeOK
<1>f. ASSUME Failure \/ Fault PROVE faults' \in 0..MaxFaults
  BY <1>f DEF Failure, Fault, IInv, TypeOK
<1>1. CASE Relaunch
  <2>1. TypeOK'
    <3>1. completed' \in Seq(Steps) /\ back' \in 0..Len(completed')
      BY <1>1 DEF Relaunch, Launch
    <3>2. cur' \in 1..(N + 1)
      BY <1>1 DEF Relaunch, Launch
    <3>3. QED
      BY <1>1, <3>1, <3>2
         DEF Relaunch, Launch, Phases, StepStatus, IInv, TypeOK, EngineTypeOK
  <2>2. Accounted'
    BY <1>1 DEF Relaunch, Launch, Accounted, Steps
  <2>3. Forward'
    BY <1>1 DEF Relaunch, Launch, Forward, Steps
  <2>4. Backward'
    BY <1>1 DEF Relaunch, Launch, Backward
  <2>5. NoDecoy'
    BY <1>1 DEF Relaunch, NoDecoy, IInv
  <2>6. (pc # "idle" => \A j \in Steps : StepFact(j))'
    BY <1>1 DEF Relaunch, Launch, StepFact
  <2>7. QED BY <2>1, <2>2, <2>3, <2>4, <2>5, <2>6 DEF IInv
<1>2. CASE CancelCtx
  <2>1. TypeOK'
    BY <1>2 DEF CancelCtx, Cancel, Fault, IInv, TypeOK, EngineTypeOK
  <2>2. Accounted'
    BY <1>2 DEF CancelCtx, Cancel, Accounted, IInv
  <2>3. Forward'
    BY <1>2 DEF CancelCtx, Cancel, Forward, IInv
  <2>4. Backward'
    BY <1>2 DEF CancelCtx, Cancel, Backward, IInv
  <2>5. NoDecoy'
    BY <1>2 DEF CancelCtx, NoDecoy, IInv
  <2>6. (pc # "idle" => \A j \in Steps : StepFact(j))'
    BY <1>2 DEF CancelCtx, Cancel, StepFact, IInv
  <2>7. QED BY <2>1, <2>2, <2>3, <2>4, <2>5, <2>6 DEF IInv
<1>3. CASE StepHead /\ Enter
  <2>1. TypeOK'
    BY <1>3 DEF StepHead, Enter, Phases, IInv, TypeOK, EngineTypeOK
  <2>2. Accounted'
    BY <1>3 DEF Enter, Accounted, IInv
  <2>3. Forward'
    BY <1>3 DEF Enter, Forward, IInv
  <2>4. Backward'
    BY <1>3 DEF Enter, Backward
  <2>5. NoDecoy'
    BY <1>3 DEF StepHead, NoDecoy, IInv
  <2>6. (pc # "idle" => \A j \in Steps : StepFact(j))'
    BY <1>3 DEF StepHead, Enter, StepFact, IInv
  <2>7. QED BY <2>1, <2>2, <2>3, <2>4, <2>5, <2>6 DEF IInv
<1>4. CASE StepHead /\ Interrupted
  <2>1. TypeOK'
    BY <1>4 DEF StepHead, Interrupted, BeginRollback, Phases, IInv, TypeOK, EngineTypeOK
  <2>2. Accounted'
    BY <1>4 DEF Interrupted, BeginRollback, Accounted, IInv
  <2>3. Forward'
    BY <1>4 DEF Interrupted, BeginRollback, Forward
  <2>4. Backward'
    <3>1. pc' = "rollback" /\ back' = Len(completed) /\ completed' = completed
      BY <1>4 DEF Interrupted, BeginRollback
    <3>2. \A k \in 1..back' : /\ status'[completed[k]] = "done"
                             /\ world'[completed[k]] = "present"
      BY <1>4
         DEF StepHead, Interrupted, BeginRollback, IInv, TypeOK, EngineTypeOK,
             Forward, Accounted, StepFact
    <3>3. QED
      BY <3>1, <3>2 DEF Backward
  <2>5. NoDecoy'
    BY <1>4 DEF StepHead, NoDecoy, IInv
  <2>6. (pc # "idle" => \A j \in Steps : StepFact(j))'
    BY <1>4 DEF StepHead, Interrupted, BeginRollback, StepFact, IInv
  <2>7. QED BY <2>1, <2>2, <2>3, <2>4, <2>5, <2>6 DEF IInv
<1>5. CASE StepHead /\ Finish
  <2>1. TypeOK'
    BY <1>5 DEF StepHead, Finish, Phases, IInv, TypeOK, EngineTypeOK
  <2>2. Accounted'
    BY <1>5 DEF Finish, Accounted, IInv
  <2>3. Forward'
    BY <1>5 DEF Finish, Forward, IInv, TypeOK, EngineTypeOK, Steps
  <2>4. Backward'
    BY <1>5 DEF Finish, Backward
  <2>5. NoDecoy'
    BY <1>5 DEF StepHead, NoDecoy, IInv
  <2>6. (pc # "idle" => \A j \in Steps : StepFact(j))'
    BY <1>5 DEF StepHead, Finish, StepFact, IInv
  <2>7. QED BY <2>1, <2>2, <2>3, <2>4, <2>5, <2>6 DEF IInv
<1>6. CASE VerifyErrs
  <2>1. TypeOK'
    BY <1>6
       DEF VerifyErrs, VerifyFails, BeginRollback, Report, Failure, Fault, Phases,
           StepStatus, IInv, TypeOK, EngineTypeOK
  <2>2. Accounted'
    BY <1>6 DEF VerifyErrs, VerifyFails, BeginRollback, Accounted, IInv
  <2>3. Forward'
    BY <1>6 DEF VerifyErrs, VerifyFails, BeginRollback, Forward
  <2>4. Backward'
    <3>1. /\ pc' = "rollback" /\ back' = Len(completed) /\ completed' = completed
          /\ world' = world /\ status' = [status EXCEPT ![cur] = "failed"]
      BY <1>6 DEF VerifyErrs, VerifyFails, BeginRollback, Report
    <3>2. \A k \in 1..Len(completed) : /\ status[completed[k]] = "done"
                                       /\ completed[k] # cur
                                       /\ world[completed[k]] = "present"
      BY <1>6, <1>b DEF VerifyErrs, VerifyFails, IInv, Forward, StepFact, Steps
    <3>4. QED
      BY <3>1, <3>2 DEF Backward
  <2>5. NoDecoy'
    BY <1>6 DEF VerifyErrs, NoDecoy, IInv
  <2>6. (pc # "idle" => \A j \in Steps : StepFact(j))'
    BY <1>6
       DEF VerifyErrs, VerifyFails, BeginRollback, Report, StepFact, Forward,
           Accounted, Range, IInv, Steps
  <2>7. QED BY <2>1, <2>2, <2>3, <2>4, <2>5, <2>6 DEF IInv
<1>7. CASE VerifyHolds
  <2>1. TypeOK'
    BY <1>7
       DEF VerifyHolds, Skip, Report, Phases, StepStatus, IInv, TypeOK, EngineTypeOK,
           Steps
  <2>2. Accounted'
    BY <1>7
       DEF VerifyHolds, Skip, Report, Accounted, Range, IInv, TypeOK, EngineTypeOK,
           Steps
  <2>3. Forward'
    BY <1>7 DEF VerifyHolds, Skip, Report, Forward, IInv, TypeOK, EngineTypeOK
  <2>4. Backward'
    BY <1>7 DEF VerifyHolds, Skip, Backward
  <2>5. NoDecoy'
    BY <1>7 DEF VerifyHolds, NoDecoy, IInv
  <2>6. (pc # "idle" => \A j \in Steps : StepFact(j))'
    BY <1>7, <1>c DEF VerifyHolds, Skip, Report, StepFact, Forward, IInv, Steps
  <2>7. QED BY <2>1, <2>2, <2>3, <2>4, <2>5, <2>6 DEF IInv
<1>8. CASE VerifyLacks
  <2>1. TypeOK'
    BY <1>8
       DEF VerifyLacks, Begin, Report, Phases, StepStatus, IInv, TypeOK, EngineTypeOK
  <2>2. Accounted'
    BY <1>8 DEF VerifyLacks, Begin, Report, Accounted, IInv, Steps
  <2>3. Forward'
    BY <1>8 DEF VerifyLacks, Begin, Report, Forward, IInv, TypeOK, EngineTypeOK
  <2>4. Backward'
    BY <1>8 DEF VerifyLacks, Begin, Backward
  <2>5. NoDecoy'
    BY <1>8 DEF VerifyLacks, NoDecoy, IInv
  <2>6. (pc # "idle" => \A j \in Steps : StepFact(j))'
    BY <1>8 DEF VerifyLacks, Begin, Report, StepFact, Forward, IInv, Steps
  <2>7. QED BY <2>1, <2>2, <2>3, <2>4, <2>5, <2>6 DEF IInv
<1>9. CASE RunSucceeds
  <2>a. /\ cur \in Steps /\ completed \in Seq(Steps)
        /\ completed' = Append(completed, cur)
    BY <1>9 DEF RunSucceeds, Complete, IInv, TypeOK, EngineTypeOK, Forward
  <2>b. /\ completed' \in Seq(Steps)
        /\ Len(completed') = Len(completed) + 1
        /\ DOMAIN completed' = 1..(Len(completed) + 1)
        /\ \A k \in 1..Len(completed) : completed'[k] = completed[k]
        /\ completed'[Len(completed) + 1] = cur
        /\ Range(completed') = Range(completed) \cup {cur}
    BY <2>a, AppendFacts
  <2>c. /\ pc = "run" /\ pc' = "check" /\ cur' = cur + 1 /\ back' = back
        /\ status' = [status EXCEPT ![cur] = "done"]
        /\ world' = [world EXCEPT ![cur] = "present"]
        /\ UNCHANGED <<cancelled, start, faults>>
    BY <1>9 DEF RunSucceeds, Complete, Report, Becomes
  <2>1. TypeOK'
    BY <2>b, <2>c DEF IInv, TypeOK, EngineTypeOK, Phases, StepStatus, Work, Steps
  <2>2. Accounted'
    <3>1. \A k, l \in DOMAIN completed' : k < l => completed'[k] < completed'[l]
      BY <2>b, <1>b DEF IInv, Accounted
    <3>2. \A k \in DOMAIN completed' : completed'[k] < cur'
      <4>1. \A k \in DOMAIN completed : completed[k] < cur /\ completed[k] \in Int
        BY <2>b DEF IInv, TypeOK, EngineTypeOK, Accounted, Steps
      <4>2. cur \in Int /\ cur' = cur + 1
        BY <2>c DEF IInv, TypeOK, EngineTypeOK
      <4>3. QED
        BY <2>b, <4>1, <4>2
    <3>3. \A j \in Steps : j < cur' =>
            status'[j] = IF j \in Range(completed') THEN "done" ELSE "skipped"
      BY <2>b, <2>c DEF IInv, TypeOK, EngineTypeOK, Accounted, Steps
    <3>4. QED
      BY <3>1, <3>2, <3>3 DEF Accounted
  <2>3. Forward'
    BY <1>9
       DEF RunSucceeds, Complete, Report, Forward, IInv, TypeOK, EngineTypeOK, Steps
  <2>4. Backward'
    BY <1>9 DEF RunSucceeds, Complete, Backward
  <2>5. NoDecoy'
    BY <1>9 DEF RunSucceeds, Becomes, NoDecoy, IInv
  <2>6. (pc # "idle" => \A j \in Steps : StepFact(j))'
    <3> SUFFICES ASSUME NEW j \in Steps PROVE StepFact(j)'
      OBVIOUS
    <3>1. StepFact(j) /\ (j # cur => status[j] # "running")
      BY <1>c, <2>c DEF StepFact
    <3>2. CASE j = cur
      <4>1. status[cur] = "running" /\ status'[cur] = "done" /\ world'[cur] = "present"
        BY <2>c DEF IInv, TypeOK, EngineTypeOK, Forward
      <4>2. QED
        BY <2>b, <2>c, <3>1, <4>1 DEF StepFact
    <3>3. CASE j # cur
      <4>2. QED
        BY <2>b, <2>c, <3>1, <3>3 DEF StepFact
    <3>4. QED
      BY <3>2, <3>3
  <2>7. QED BY <2>1, <2>2, <2>3, <2>4, <2>5, <2>6 DEF IInv
<1>10. CASE RunFails
  <2>1. TypeOK'
    <3>1. PICK w \in Work : world' = [world EXCEPT ![cur] = w]
      BY <1>10 DEF RunFails, Becomes, Leftovers
    <3>2. world' \in [Steps -> Work]
      BY <3>1 DEF IInv, TypeOK
    <3>3. EngineTypeOK'
      <4>1. /\ pc' = "rollback" /\ back' = Len(completed)
            /\ status' = [status EXCEPT ![cur] = "failed"]
            /\ UNCHANGED <<cur, completed, cancelled>>
        BY <1>10 DEF RunFails, Fail, Report, BeginRollback
      <4>2. status' \in [Steps -> StepStatus]
        BY <4>1 DEF StepStatus, IInv, TypeOK, EngineTypeOK
      <4>4. QED
        BY <4>1, <4>2 DEF Phases, IInv, TypeOK, EngineTypeOK
    <3>4. faults' \in 0..MaxFaults /\ start' \in [Steps -> Work]
      BY <1>10 DEF RunFails, Failure, Fault, IInv, TypeOK
    <3>5. QED
      BY <3>2, <3>3, <3>4 DEF TypeOK
  <2>2. Accounted'
    BY <1>10 DEF RunFails, Fail, BeginRollback, Accounted, IInv
  <2>3. Forward'
    BY <1>10 DEF RunFails, Fail, BeginRollback, Forward
  <2>4. Backward'
    <3>1. pc' = "rollback" /\ back' = Len(completed) /\ completed' = completed
      BY <1>10 DEF RunFails, Fail, BeginRollback
    <3>2. \A k \in 1..back' : /\ status'[completed[k]] = "done"
                             /\ world'[completed[k]] = "present"
      BY <1>10
         DEF RunFails, Fail, Report, BeginRollback, Becomes, Work, IInv, TypeOK,
             EngineTypeOK, Forward, Accounted, StepFact
    <3>3. QED
      BY <3>1, <3>2 DEF Backward
  <2>5. NoDecoy'
    BY <1>10 DEF RunFails, Becomes, Leftovers, NoDecoy, IInv
  <2>6. (pc # "idle" => \A j \in Steps : StepFact(j))'
    BY <1>10
       DEF RunFails, Fail, Report, BeginRollback, Becomes, Leftovers, StepFact,
           Forward, Range, NoDecoy, IInv, TypeOK, EngineTypeOK
  <2>7. QED BY <2>1, <2>2, <2>3, <2>4, <2>5, <2>6 DEF IInv
<1>11. CASE RollbackNothing
  <2>1. TypeOK'
    BY <1>11
       DEF RollbackNothing, Undo, RollingBack, Undone, StepStatus, IInv, TypeOK,
           EngineTypeOK
  <2>2. Accounted'
    BY <1>11 DEF RollbackNothing, Undo, RollingBack, Accounted, IInv
  <2>3. Forward'
    BY <1>11 DEF RollbackNothing, Undo, RollingBack, Forward
  <2>4. Backward'
    <3>1. /\ pc = "rollback" /\ UNCHANGED <<pc, completed>>
          /\ back \in 1..Len(completed) /\ back' = back - 1
      BY <1>11 DEF RollbackNothing, Undo, RollingBack, IInv, TypeOK, EngineTypeOK
    <3>2. \A k \in 1..Len(completed) : k # back =>
            /\ status'[completed[k]] = status[completed[k]]
            /\ world'[completed[k]] = world[completed[k]]
      BY <1>11, <1>d
         DEF RollbackNothing, Undo, RollingBack, Undone, IInv, TypeOK, EngineTypeOK
    <3>4. \/ status'[completed[back]] = "rolled-back"
          \/ status'[completed[back]] = "done" /\ completed[back] \in Reversible
      BY <1>11
         DEF RollbackNothing, Undo, RollingBack, Undone, IInv, TypeOK, EngineTypeOK
    <3>5. QED
      BY <3>1, <3>2, <3>4 DEF IInv, Backward
  <2>5. NoDecoy'
    BY <1>11 DEF RollbackNothing, NoDecoy, IInv
  <2>6. (pc # "idle" => \A j \in Steps : StepFact(j))'
    BY <1>11
       DEF RollbackNothing, Undo, RollingBack, Undone, StepFact, Backward, IInv,
           TypeOK, EngineTypeOK
  <2>7. QED BY <2>1, <2>2, <2>3, <2>4, <2>5, <2>6 DEF IInv
<1>12. CASE RollbackSucceeds
  <2>1. TypeOK'
    BY <1>12
       DEF RollbackSucceeds, Undo, RollingBack, Becomes, Work, StepStatus, IInv,
           TypeOK, EngineTypeOK
  <2>2. Accounted'
    BY <1>12 DEF RollbackSucceeds, Undo, RollingBack, Accounted, IInv
  <2>3. Forward'
    BY <1>12 DEF RollbackSucceeds, Undo, RollingBack, Forward
  <2>4. Backward'
    <3>1. /\ pc = "rollback" /\ UNCHANGED <<pc, completed>>
          /\ back \in 1..Len(completed) /\ back' = back - 1
      BY <1>12 DEF RollbackSucceeds, Undo, RollingBack, IInv, TypeOK, EngineTypeOK
    <3>2. \A k \in 1..Len(completed) : k # back =>
            /\ status'[completed[k]] = status[completed[k]]
            /\ world'[completed[k]] = world[completed[k]]
      BY <1>12, <1>d
         DEF RollbackSucceeds, Undo, RollingBack, Undone, Becomes, IInv, TypeOK,
             EngineTypeOK
    <3>4. \/ status'[completed[back]] = "rolled-back"
          \/ status'[completed[back]] = "done" /\ completed[back] \in Reversible
      BY <1>12 DEF RollbackSucceeds, Undo, Undone, IInv, TypeOK, EngineTypeOK
    <3>5. QED
      BY <3>1, <3>2, <3>4 DEF IInv, Backward
  <2>5. NoDecoy'
    BY <1>12 DEF RollbackSucceeds, Becomes, NoDecoy, IInv
  <2>6. (pc # "idle" => \A j \in Steps : StepFact(j))'
    BY <1>12
       DEF RollbackSucceeds, Undo, RollingBack, Undone, Becomes, StepFact, Backward,
           IInv, TypeOK, EngineTypeOK
  <2>7. QED BY <2>1, <2>2, <2>3, <2>4, <2>5, <2>6 DEF IInv
<1>13. CASE RollbackErrs
  <2>1. TypeOK'
    <3>1. world' \in [Steps -> Work] /\ faults' \in 0..MaxFaults
      BY <1>13, <1>e, <1>f DEF RollbackErrs
    <3>2. EngineTypeOK'
      BY <1>13 DEF RollbackErrs, UndoFails, RollingBack, IInv, TypeOK, EngineTypeOK
    <3>3. QED
      BY <1>13, <3>1, <3>2 DEF RollbackErrs, IInv, TypeOK
  <2>2. Accounted'
    BY <1>13 DEF RollbackErrs, UndoFails, RollingBack, Accounted, IInv
  <2>3. Forward'
    BY <1>13 DEF RollbackErrs, UndoFails, Forward, IInv
  <2>4. Backward'
    <3>1. /\ pc = "rollback" /\ UNCHANGED <<pc, completed>>
          /\ back \in 1..Len(completed) /\ back' = back - 1
      BY <1>13 DEF RollbackErrs, UndoFails, RollingBack, IInv, TypeOK, EngineTypeOK
    <3>2. \A k \in 1..Len(completed) : k # back =>
            /\ status'[completed[k]] = status[completed[k]]
            /\ world'[completed[k]] = world[completed[k]]
      BY <1>13, <1>d
         DEF RollbackErrs, UndoFails, RollingBack, Undone, Becomes, IInv, TypeOK,
             EngineTypeOK
    <3>4. \/ status'[completed[back]] = "rolled-back"
          \/ status'[completed[back]] = "done" /\ completed[back] \in Reversible
      BY <1>13
         DEF RollbackErrs, UndoFails, RollingBack, Undone, IInv, TypeOK,
             EngineTypeOK, Backward
    <3>5. QED
      BY <3>1, <3>2, <3>4 DEF IInv, Backward
  <2>5. NoDecoy'
    BY <1>13 DEF RollbackErrs, Becomes, Leftovers, NoDecoy, IInv, TypeOK
  <2>6. (pc # "idle" => \A j \in Steps : StepFact(j))'
    <3> SUFFICES ASSUME NEW j \in Steps PROVE StepFact(j)'
      OBVIOUS
    <3>1. /\ pc = "rollback" /\ back \in 1..Len(completed)
          /\ UNCHANGED <<pc, cur, completed, status, start>>
      BY <1>13 DEF RollbackErrs, UndoFails, RollingBack, IInv, TypeOK, EngineTypeOK
    <3>2. StepFact(j)
      BY <1>c, <3>1
    <3>3. CASE world'[j] = world[j]
      BY <3>1, <3>2, <3>3 DEF StepFact
    <3>4. CASE world'[j] # world[j]
      <4>1. j = Undone
        BY <1>13, <3>4 DEF RollbackErrs, Becomes, IInv, TypeOK
      <4>2. status[j] = "done"
        BY <3>1, <4>1 DEF Undone, IInv, Backward
      <4>3. QED
        BY <3>1, <3>2, <4>2 DEF StepFact
    <3>5. QED
      BY <3>3, <3>4
  <2>7. QED BY <2>1, <2>2, <2>3, <2>4, <2>5, <2>6 DEF IInv
<1>14. CASE GiveUp
  <2>1. TypeOK'
    BY <1>14 DEF GiveUp, ReturnCause, Phases, IInv, TypeOK, EngineTypeOK
  <2>2. Accounted'
    BY <1>14 DEF GiveUp, ReturnCause, Accounted, IInv
  <2>3. Forward'
    BY <1>14 DEF GiveUp, ReturnCause, Forward
  <2>4. Backward'
    BY <1>14 DEF GiveUp, ReturnCause, Backward, IInv
  <2>5. NoDecoy'
    BY <1>14 DEF GiveUp, NoDecoy, IInv
  <2>6. (pc # "idle" => \A j \in Steps : StepFact(j))'
    BY <1>14 DEF GiveUp, ReturnCause, StepFact, IInv
  <2>7. QED BY <2>1, <2>2, <2>3, <2>4, <2>5, <2>6 DEF IInv
<1>15. CASE Killed
  <2>1. TypeOK'
    <3>1. world' \in [Steps -> Work] /\ faults' \in 0..MaxFaults
      BY <1>15, <1>e, <1>f DEF Killed
    <3>2. EngineTypeOK'
      BY <1>15 DEF Killed, Crash, Phases, IInv, TypeOK, EngineTypeOK
    <3>3. QED
      BY <1>15, <3>1, <3>2 DEF Killed, IInv, TypeOK
  <2>2. Accounted'
    BY <1>15 DEF Killed, Crash, Accounted, IInv
  <2>3. Forward'
    BY <1>15 DEF Killed, Crash, Forward
  <2>4. Backward'
    BY <1>15 DEF Killed, Crash, Backward
  <2>5. NoDecoy'
    BY <1>15 DEF Killed, Becomes, Leftovers, NoDecoy, IInv, TypeOK
  <2>6. (pc # "idle" => \A j \in Steps : StepFact(j))'
    BY <1>15 DEF Killed, Crash
  <2>7. QED BY <2>1, <2>2, <2>3, <2>4, <2>5, <2>6 DEF IInv
<1>16. CASE UNCHANGED vars
  BY <1>16
     DEF vars, evars, IInv, TypeOK, EngineTypeOK, Accounted, Forward, Backward,
         NoDecoy, StepFact
<1>17. QED
  BY <1>1, <1>2, <1>3, <1>4, <1>5, <1>6, <1>7, <1>8, <1>9, <1>10, <1>11, <1>12,
     <1>13, <1>14, <1>15, <1>16
     DEF Next, EngineStep, StepHead

\* IInv holds before the first run, on whatever machine the program meets.
LEMMA InitIInv == Init => IInv
<1> SUFFICES ASSUME Init PROVE IInv
  OBVIOUS
<1> USE NAssumption, PlanAssumption
<1>2. TypeOK
  <2>1. EngineTypeOK
    <3>1. completed \in Seq(Steps) /\ back \in 0..Len(completed)
      BY DEF Init, EngineInit
    <3>2. cur \in 1..(N + 1)
      BY DEF Init, EngineInit
    <3>3. QED
      BY <3>1, <3>2 DEF Init, EngineInit, EngineTypeOK, Phases, StepStatus
  <2>2. world \in [Steps -> Work] /\ start = world
    BY DEF Init, Work
  <2>3. QED
    BY <2>1, <2>2 DEF Init, TypeOK
<1>3. Accounted /\ Forward /\ Backward
  BY DEF Init, EngineInit, Accounted, Forward, Backward
<1>4. NoDecoy /\ pc = "idle"
  BY DEF Init, EngineInit, NoDecoy
<1>5. QED
  BY <1>2, <1>3, <1>4 DEF IInv

\* IInv holds in every state of every behaviour of the engine.
THEOREM Inductive == Spec => []IInv
<1>1. Init => IInv
  BY InitIInv
<1>2. IInv /\ [Next]_vars => IInv'
  BY NextKeepsIInv
<1>3. QED
  BY <1>1, <1>2, PTL DEF Spec

\* The engine's variables keep their types; in particular rollback never
\* indexes completed out of its bounds.
THEOREM TypeCorrect == Spec => []TypeOK
<1>1. IInv => TypeOK
  BY DEF IInv
<1>2. QED
  BY <1>1, Inductive, PTL

\* completed is exactly what the run passed and did not skip, each step once
\* and oldest first.
THEOREM AllAccounted == Spec => []Accounted
<1>1. IInv => Accounted
  BY DEF IInv
<1>2. QED
  BY <1>1, Inductive, PTL

\* rollback walks newest first, over steps that are still reported done.
THEOREM RollsBackNewestFirst == Spec => []NewestFirst
<1>1. ASSUME IInv PROVE NewestFirst
  <2> SUFFICES ASSUME pc = "rollback" PROVE NewestFirst
    BY DEF NewestFirst
  <2>1. \A k \in 1..back : status[completed[k]] = "done"
    BY <1>1 DEF IInv, Backward
  <2>2. ASSUME NEW j \in Steps, status[j] = "rolled-back", NEW k \in 1..back
        PROVE  completed[k] < j
    <3>1. PICK l \in DOMAIN completed : completed[l] = j
      BY <1>1, <2>2 DEF IInv, StepFact, Range
    <3>2. l \notin 1..back
      BY <2>1, <2>2, <3>1
    <3>3. DOMAIN completed = 1..Len(completed) /\ k \in DOMAIN completed
      BY <1>1 DEF IInv, TypeOK, EngineTypeOK
    <3>4. k < l
      BY <1>1, <3>2 DEF IInv, TypeOK, EngineTypeOK
    <3>5. QED
      BY <1>1, <3>1, <3>3, <3>4 DEF IInv, Accounted
  <2>3. QED
    BY <2>1, <2>2 DEF NewestFirst
<1>2. QED
  BY <1>1, Inductive, PTL

\* Engine.Run returns nil only with every honest step's work whole, over any
\* sequence of failed, killed and repeated runs.
THEOREM CompleteOnSuccess == Spec => []SuccessIsComplete
<1>1. ASSUME IInv PROVE SuccessIsComplete
  <2> SUFFICES ASSUME pc = "ok", NEW j \in Honest PROVE world[j] = "present"
    BY DEF SuccessIsComplete
  <2>1. j \in Steps /\ j < cur
    BY <1>1, NAssumption, PlanAssumption DEF IInv, Forward, Steps
  <2>2. status[j] \in {"done", "skipped"}
    BY <1>1, <2>1 DEF IInv, Forward
  <2>3. StepFact(j) /\ world[j] # "decoy"
    BY <1>1, <2>1 DEF IInv, NoDecoy
  <2>4. QED
    BY <2>2, <2>3 DEF StepFact, Satisfied
<1>2. QED
  BY <1>1, Inductive, PTL

\* When Engine.Run returns an error, what it can undo is as it found it, but
\* for the step that failed and those whose own rollback failed.
THEOREM RestoredOnFailure == Spec => []FailureRestores
<1>1. ASSUME IInv PROVE FailureRestores
  <2> SUFFICES ASSUME pc = "failed", NEW j \in Checked \cap Reversible,
                      status[j] \notin {"failed", "done"}
               PROVE  Satisfied(world[j]) = Satisfied(start[j])
    BY DEF FailureRestores
  <2>1. j \in Steps /\ StepFact(j)
    BY <1>1, PlanAssumption DEF IInv
  <2>2. status[j] \in {"none", "skipped", "rolled-back"}
    BY <1>1, <2>1 DEF IInv, TypeOK, EngineTypeOK, StepStatus, StepFact
  <2>3. QED
    BY <2>1, <2>2 DEF StepFact, Satisfied
<1>2. QED
  BY <1>1, Inductive, PTL

\* After a rollback only a step whose Rollback returned an error, so one that
\* has a Rollback, is still reported done.
LEMMA DoneWhenFailed ==
  IInv /\ pc = "failed" => \A j \in Steps : status[j] = "done" => j \in Reversible
<1> SUFFICES ASSUME IInv, pc = "failed", NEW j \in Steps, status[j] = "done"
             PROVE  j \in Reversible
  OBVIOUS
<1>1. PICK k \in DOMAIN completed : completed[k] = j
  BY DEF IInv, StepFact, Range
<1>2. k > back
  BY DEF IInv, TypeOK, EngineTypeOK, Backward
<1>3. QED
  BY <1>1, <1>2 DEF IInv, Backward

\* When a run is over, what was last reported of each step is true.
THEOREM TrueReport == Spec => []ReportIsTrue
<1>1. ASSUME IInv PROVE ReportIsTrue
  <2> SUFFICES ASSUME pc \in {"ok", "failed"}, NEW j \in Steps
               PROVE  /\ status[j] # "running"
                      /\ status[j] = "done" =>
                           (pc = "ok" /\ world[j] = "present") \/ j \in Reversible
                      /\ status[j] = "rolled-back" /\ j \in Reversible =>
                           world[j] = "absent"
    BY DEF ReportIsTrue
  <2>1. StepFact(j)
    BY <1>1 DEF IInv
  <2>2. QED
    BY <1>1, <2>1, DoneWhenFailed DEF StepFact
<1>2. QED
  BY <1>1, Inductive, PTL

\* rollback changes the work of a step only if this run completed that step
\* and did not find its work already there.
THEOREM UndoesOnlyOwnWork == Spec => OnlyOwnWorkUndone
<1> DEFINE Own == \A j \in Checked : pc = "rollback" /\ world'[j] # world[j]
                     => j \in Range(completed) /\ ~Satisfied(start[j])
<1>1. ASSUME IInv, [Next]_vars PROVE [Own]_vars
  <2> SUFFICES ASSUME Next, NEW j \in Checked,
                      pc = "rollback", world'[j] # world[j]
               PROVE  j \in Range(completed) /\ ~Satisfied(start[j])
    BY <1>1
  <2>1. back \in 1..Len(completed) /\ j = Undone
    <3>a. world \in [Steps -> Work] /\ j \in Steps /\ back \in 0..Len(completed)
      BY <1>1, PlanAssumption DEF IInv, TypeOK, EngineTypeOK
    <3>b. ASSUME RollingBack, NEW w, Becomes(Undone, w)
          PROVE  back \in 1..Len(completed) /\ j = Undone
      BY <3>a, <3>b DEF RollingBack, Becomes
    <3>1. CASE RollbackSucceeds
      BY <3>1, <3>b DEF RollbackSucceeds, Undo
    <3>2. CASE RollbackErrs
      BY <3>2, <3>b DEF RollbackErrs, UndoFails
    <3>3. CASE Killed
      BY <3>3, <3>b DEF Killed
    <3>4. QED
      BY <3>1, <3>2, <3>3
         DEF Next, EngineStep, Relaunch, CancelCtx, StepHead, VerifyErrs,
             VerifyHolds, VerifyLacks, RunSucceeds, Complete, RunFails, Fail,
             RollbackNothing, GiveUp
  <2>2. status[j] = "done" /\ j \in Steps
    BY <1>1, <2>1, PlanAssumption DEF IInv, Backward, Undone
  <2>3. QED
    BY <1>1, <2>2 DEF IInv, StepFact
<1>2. QED
  BY <1>1, Inductive, PTL DEF Spec, OnlyOwnWorkUndone

-----------------------------------------------------------------------------

\* At no point of a run is any work gone that Verify saw when the run began.
LEMMA NothingLost ==
  IInv /\ pc # "idle" =>
    \A j \in Checked : Satisfied(start[j]) => Satisfied(world[j])
<1> SUFFICES ASSUME IInv, pc # "idle", NEW j \in Checked, Satisfied(start[j])
             PROVE  Satisfied(world[j])
  OBVIOUS
<1>1. j \in Steps /\ StepFact(j) /\ status[j] \in StepStatus
  BY PlanAssumption DEF IInv, TypeOK, EngineTypeOK
<1>2. QED
  BY <1>1 DEF StepFact, StepStatus

\* Engine.Run and its rollback implement AtomicInstall: to the operator a run
\* commits, aborts or dies, and loses nothing.
THEOREM Refines == Spec => ImplementsAtomicInstall
<1>1. Init => Atomic!Init
  BY DEF Init, EngineInit, Atomic!Init, Active, SatisfiedIn
<1>2. ASSUME IInv, IInv', [Next]_vars PROVE [Atomic!Next]_(Atomic!avars)
  <2> USE DEF Active
  <2>1. CASE Relaunch
    <3>1. Atomic!Begin
      BY <1>2, <2>1
         DEF Relaunch, Launch, Atomic!Begin, IInv, TypeOK, EngineTypeOK, Phases
    <3>2. QED
      BY <3>1 DEF Atomic!Next
  <2>2. CASE StepHead /\ Finish
    <3>1. \A j \in Checked : Satisfied(world'[j])
      <4>1. SUFFICES ASSUME NEW j \in Checked PROVE Satisfied(world'[j])
        OBVIOUS
      <4>2. pc' = "ok" /\ j \in Steps /\ j < cur'
        BY <1>2, <2>2, NAssumption, PlanAssumption DEF Finish, IInv, Forward, Steps
      <4>3. status'[j] \in {"done", "skipped"} /\ StepFact(j)'
        BY <1>2, <4>2 DEF IInv, Forward
      <4>4. QED
        BY <4>2, <4>3 DEF StepFact, Satisfied
    <3>2. Atomic!Commit
      BY <2>2, <3>1 DEF Finish, Atomic!Commit, SatisfiedIn
    <3>3. QED
      BY <3>2 DEF Atomic!Next
  <2>3. CASE GiveUp
    <3>1. \A j \in Checked : Satisfied(start[j]) => Satisfied(world[j])
      BY <1>2, <2>3, NothingLost DEF GiveUp, ReturnCause
    <3>2. \A j \in Checked \cap Reversible :
            Satisfied(world[j]) /\ ~Satisfied(start[j]) => status[j] \in {"failed", "done"}
      <4>1. SUFFICES ASSUME NEW j \in Checked \cap Reversible,
                            Satisfied(world[j]), ~Satisfied(start[j])
                     PROVE  status[j] \in {"failed", "done"}
        OBVIOUS
      <4>2. StepFact(j) /\ status[j] \in StepStatus
        BY <1>2, <2>3, PlanAssumption
           DEF IInv, TypeOK, EngineTypeOK, GiveUp, ReturnCause
      <4>3. QED
        BY <4>1, <4>2 DEF StepFact, StepStatus, Satisfied
    <3>3. Atomic!Abort
      BY <2>3, <3>1, <3>2 DEF GiveUp, ReturnCause, Atomic!Abort, SatisfiedIn
    <3>4. QED
      BY <3>3 DEF Atomic!Next
  <2>4. CASE Killed
    <3>1. \A j \in Checked : Satisfied(start[j]) => Satisfied(world'[j])
      <4>1. SUFFICES ASSUME NEW j \in Checked, Satisfied(start[j])
                     PROVE  Satisfied(world'[j])
        OBVIOUS
      <4>a. pc # "idle"
        BY <2>4 DEF Killed, Crash
      <4>2. j \in Steps /\ StepFact(j) /\ Satisfied(world[j])
        BY <1>2, <4>1, <4>a, PlanAssumption, NothingLost DEF IInv
      <4>3. CASE world' = world
        BY <4>2, <4>3
      <4>4. CASE pc = "run" /\ \E w \in Leftovers(cur) : Becomes(cur, w)
        <5>1. j # cur
          BY <1>2, <4>2, <4>4 DEF IInv, Forward, StepFact, Steps
        <5>2. QED
          BY <4>2, <4>4, <5>1 DEF Becomes
      <4>5. CASE RollingBack /\ \E w \in Leftovers(Undone) : Becomes(Undone, w)
        <5>1. status[Undone] = "done"
          BY <1>2, <4>5 DEF IInv, TypeOK, EngineTypeOK, Backward, RollingBack, Undone
        <5>2. j # Undone
          BY <4>1, <4>2, <5>1 DEF StepFact
        <5>3. QED
          BY <4>2, <4>5, <5>2 DEF Becomes
      <4>6. QED
        BY <2>4, <4>3, <4>4, <4>5 DEF Killed
    <3>2. Atomic!Die
      BY <2>4, <3>1 DEF Killed, Crash, Atomic!Die, SatisfiedIn
    <3>3. QED
      BY <3>2 DEF Atomic!Next
  <2>5. CASE UNCHANGED vars
    BY <2>5 DEF vars, evars, Atomic!avars
  <2>6. CASE CancelCtx \/ (EngineStep /\ ~(StepHead /\ Finish) /\ ~GiveUp)
    <3>1. pc \in Active /\ pc' \in Active /\ start' = start
      BY <2>6
         DEF CancelCtx, Cancel, EngineStep, StepHead, Enter, Interrupted,
             BeginRollback, VerifyErrs, VerifyFails, VerifyHolds, Skip, VerifyLacks,
             Begin, RunSucceeds, Complete, RunFails, Fail, RollbackNothing,
             RollbackSucceeds, RollbackErrs, Undo, UndoFails, RollingBack
    <3>2. QED
      BY <3>1 DEF Atomic!avars
  <2>7. QED
    BY <1>2, <2>1, <2>2, <2>3, <2>4, <2>5, <2>6 DEF Next
<1>3. QED
  BY <1>1, <1>2, Inductive, PTL DEF Spec, ImplementsAtomicInstall, Atomic!Spec
=============================================================================
