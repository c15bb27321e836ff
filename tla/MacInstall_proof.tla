-------------------------- MODULE MacInstall_proof --------------------------
(***************************************************************************)
(* Proofs about MacInstall, for any registry of models, any supply of keys *)
(* and any number of faults.  IInv is inductive; that a run which returns  *)
(* leaves the client configured or its tunnel untouched, and that the      *)
(* client's install is the atomic operation of AtomicInstall, follow from  *)
(* it.                                                                     *)
(***************************************************************************)
EXTENDS MacInstall, TLAPS

-----------------------------------------------------------------------------
(* The inductive invariant.  Steps are named by their places in Plan: the  *)
(* tools 3, 4 and 5, wireguard-enroll 6, wireguard-tunnel-up 7, and        *)
(* opencode-config 8.                                                      *)

\* While the engine walks forward, a step it is past has left its work; and until it
\* has completed tunnel-up the tunnel is as the run found it.
Walked ==
  pc \in {"check", "verify", "run", "ok"} =>
    /\ \A j \in 3..5 : cur > j => Plan[j] \in machine.tools
    /\ cur > 6 => reply = machine.conf /\ reply # NoKey
    /\ cur > 7 => machine.tunnel # NoKey
    /\ cur > 8 => machine.config = want
    /\ IF 7 \in Range(completed) THEN machine.tunnel = reply
                                 ELSE machine.tunnel = start.tunnel

\* What the run found on the machine is still there, the tunnel with its key; and it
\* completes tunnel-up only where there was none.
StillThere ==
  /\ start.tools \subseteq machine.tools
  /\ start.tunnel # NoKey => machine.tunnel = start.tunnel

FoundNothing == 7 \in Range(completed) => start.tunnel = NoKey

\* A run that turns back has a tunnel it did not find only while tunnel-up is
\* reported done.
TurnedBack ==
  pc \in {"rollback", "failed"} =>
    machine.tunnel = start.tunnel \/ (7 \in Range(completed) /\ status[7] = "done")

IInv ==
  /\ TypeOK /\ EngineInv
  /\ Walked /\ TurnedBack
  /\ pc # "idle" => StillThere /\ FoundNothing

-----------------------------------------------------------------------------
(* What InstallerPlan_proof shows of the engine holds of it here.  Its     *)
(* lemmas say nothing of the plan or the machine, so what stands for them  *)
(* is immaterial.                                                          *)
Engine == INSTANCE InstallerPlan_proof WITH
  Checked <- {}, Reversible <- {}, Honest <- {}, world <- machine

\* The instance's assumption holds of it.
LEMMA EngineAssumption ==
  {} \subseteq Engine!Steps /\ MaxFaults \in Nat
BY MacAssumption

\* EngineInv there is EngineInv here.
LEMMA SameInv == EngineInv <=> Engine!EngineInv
BY DEF EngineInv, EngineTypeOK, Accounted, Ahead, Behind, Steps, Phases, StepStatus, Range,
       Engine!Range, Engine!EngineInv, Engine!EngineTypeOK, Engine!Accounted, Engine!Ahead,
       Engine!Behind, Engine!Steps, Engine!Phases, Engine!StepStatus

\* Before the first run nothing is reported or completed.
LEMMA EngineInits == EngineInit => EngineInv
BY Engine!EngineInits, EngineAssumption, NAssumption, SameInv
   DEF EngineInit, Steps, Engine!EngineInit, Engine!Steps

\* The steps completed are told apart by their places in completed, and are all
\* behind the loop.
LEMMA CompletedFacts ==
  ASSUME EngineInv
  PROVE  /\ Len(completed) \in Nat /\ DOMAIN completed = 1..Len(completed)
         /\ \A k \in 1..Len(completed) : completed[k] \in Steps /\ completed[k] < cur
         /\ \A k, l \in 1..Len(completed) : k # l => completed[k] # completed[l]
         /\ \A j \in Range(completed) : j \in Steps /\ j < cur
BY Engine!CompletedFacts, EngineAssumption, NAssumption, SameInv DEF Steps, Engine!Steps,
   Range, Engine!Range

\* Nothing the engine does, or that is done to it, falsifies EngineInv.
LEMMA EngineKept ==
  ASSUME EngineInv, EngineActs \/ UNCHANGED evars
  PROVE  EngineInv'
<1>1. EngineActs <=> Engine!EngineActs
  <2> USE DEF Active, Steps, Report, BeginRollback, RollingBack, Undone, evars,
              Engine!Active, Engine!Steps, Engine!Report, Engine!BeginRollback,
              Engine!RollingBack, Engine!Undone
  <2>1. /\ Launch <=> Engine!Launch
        /\ Cancel <=> Engine!Cancel
        /\ Crash <=> Engine!Crash
        /\ Drift <=> Engine!Drift
        /\ Enter <=> Engine!Enter
        /\ Interrupted <=> Engine!Interrupted
    BY DEF Launch, Cancel, Crash, Drift, Enter, Interrupted, Engine!Launch, Engine!Cancel,
           Engine!Crash, Engine!Drift, Engine!Enter, Engine!Interrupted
  <2>2. /\ Finish <=> Engine!Finish
        /\ VerifyFails <=> Engine!VerifyFails
        /\ Skip <=> Engine!Skip
        /\ Begin <=> Engine!Begin
        /\ Fail <=> Engine!Fail
        /\ Complete <=> Engine!Complete
    BY DEF Finish, VerifyFails, Skip, Begin, Fail, Complete, Engine!Finish,
           Engine!VerifyFails, Engine!Skip, Engine!Begin, Engine!Fail, Engine!Complete
  <2>3. /\ Undo <=> Engine!Undo
        /\ UndoFails <=> Engine!UndoFails
        /\ ReturnCause <=> Engine!ReturnCause
    BY DEF Undo, UndoFails, ReturnCause, Engine!Undo, Engine!UndoFails, Engine!ReturnCause
  <2>4. QED
    BY <2>1, <2>2, <2>3 DEF EngineActs, Engine!EngineActs
<1>2. UNCHANGED evars => UNCHANGED Engine!evars
  BY DEF evars, Engine!evars
<1>3. Engine!EngineInv'
  BY <1>1, <1>2, SameInv, EngineAssumption, NAssumption, Engine!EngineKept
<1>4. QED
  BY <1>3, SameInv DEF EngineInv, EngineTypeOK, Accounted, Ahead, Behind, Steps, Phases,
       StepStatus, Range, Engine!Range, Engine!EngineInv, Engine!EngineTypeOK, Engine!Accounted, Engine!Ahead,
       Engine!Behind, Engine!Steps, Engine!Phases, Engine!StepStatus

\* What Append does to completed.
LEMMA AppendFacts ==
  ASSUME NEW S, NEW s \in Seq(S), NEW e \in S
  PROVE  /\ Append(s, e) \in Seq(S)
         /\ Len(Append(s, e)) = Len(s) + 1
         /\ DOMAIN Append(s, e) = 1..(Len(s) + 1)
         /\ \A k \in 1..Len(s) : Append(s, e)[k] = s[k]
         /\ Append(s, e)[Len(s) + 1] = e
         /\ Range(Append(s, e)) = Range(s) \cup {e}
BY Engine!AppendFacts DEF Range, Engine!Range

-----------------------------------------------------------------------------
(* The plan and what its steps do to the machine.                          *)

\* Where each step is in the plan.
LEMMA PlanFacts ==
  /\ N = 9 /\ Steps = 1..9
  /\ \A j \in Steps :
       /\ Plan[j] = "install-homebrew"    <=> j = 2
       /\ Plan[j] = "install-git"         <=> j = 3
       /\ Plan[j] = "install-opencode"    <=> j = 4
       /\ Plan[j] = "install-wireguard"   <=> j = 5
       /\ Plan[j] = "wireguard-enroll"    <=> j = 6
       /\ Plan[j] = "wireguard-tunnel-up" <=> j = 7
       /\ Plan[j] = "opencode-config"     <=> j = 8
       /\ Plan[j] = "report"              <=> j = 9
<1>1. N = 9 /\ Steps = 1..9
  BY MacAssumption DEF Plan, Steps
<1>2. QED
  BY <1>1 DEF Plan

\* A Run, done or half done, takes no tool away, and the tunnel only from having no
\* key to having wg0.conf's.
Touches(l, m) ==
  /\ m \in Machines
  /\ machine.tools \subseteq m.tools
  /\ l # "wireguard-enroll"    => m.conf = machine.conf
  /\ l # "wireguard-tunnel-up" => m.tunnel = machine.tunnel
  /\ l # "opencode-config"     => m.config = machine.config

\* Every Run keeps to that.
LEMMA RunTouches ==
  ASSUME machine \in Machines, want \in Models \cup {NoModel}, NEW l,
         NEW m \in Ran(l) \cup HalfRan(l)
  PROVE  Touches(l, m)
<1>1. CASE m = machine
  BY <1>1 DEF Touches
<1>2. CASE \E b \in {"off", "on"} : m = [machine EXCEPT !.brew = b]
  BY <1>2 DEF Touches, Machines
<1>3. CASE l \in Tools /\ m = [machine EXCEPT !.tools = @ \cup {l}]
  BY <1>3 DEF Touches, Machines
<1>4. CASE l = "wireguard-enroll" /\ \E k \in Keys \cup {NoKey} : m = [machine EXCEPT !.conf = k]
  BY <1>4 DEF Touches, Machines
<1>5. CASE l = "wireguard-tunnel-up" /\ m = [machine EXCEPT !.tunnel = machine.conf]
  BY <1>5 DEF Touches, Machines
<1>6. CASE l = "opencode-config"
             /\ \E x \in Models \cup {NoModel} : m = [machine EXCEPT !.config = x]
  BY <1>6 DEF Touches, Machines
<1>7. QED
  <2>1. CASE l = "wireguard-enroll"
    BY <1>1, <1>4, <2>1 DEF Ran, HalfRan, Tools, FreshKeys
  <2>2. CASE l # "wireguard-enroll"
    BY <1>1, <1>2, <1>3, <1>5, <1>6, <2>2 DEF Ran, HalfRan
  <2>3. QED
    BY <2>1, <2>2

\* A Run that returned nil has left its work.
LEMMA RunLeaves ==
  ASSUME machine \in Machines, NEW l, NEW m \in Ran(l)
  PROVE  /\ l \in Tools               => l \in m.tools
         /\ l = "wireguard-enroll"    => m.conf \in Keys
         /\ l = "wireguard-tunnel-up" => m.tunnel = machine.conf
         /\ l = "opencode-config"     => m.config = want
<1>1. CASE l \in Tools
  BY <1>1 DEF Ran, Tools, Machines
<1>2. CASE l \notin Tools
  BY <1>2 DEF Ran, Machines, FreshKeys
<1>3. QED
  BY <1>1, <1>2

\* wg-quick takes back what it did when it fails.
LEMMA HalfRunLeaves ==
  ASSUME machine \in Machines, want \in Models \cup {NoModel}, NEW l, NEW m \in HalfRan(l)
  PROVE  m.tunnel = machine.tunnel
<1>1. CASE l = "wireguard-tunnel-up"
  BY <1>1 DEF HalfRan
<1>2. CASE l # "wireguard-tunnel-up"
  BY <1>2, RunTouches DEF Touches
<1>3. QED
  BY <1>1, <1>2

\* A Rollback touches the tunnel only.
LEMMA RollbackTouches ==
  ASSUME machine \in Machines, NEW l
  PROVE  /\ TakenBack(l) \in Machines
         /\ TakenBack(l).tools = machine.tools
         /\ TakenBack(l).tunnel = IF l = "wireguard-tunnel-up" THEN NoKey ELSE machine.tunnel
BY DEF TakenBack, HasRollback, Machines

-----------------------------------------------------------------------------
(* Each part of the invariant is kept.                                     *)

\* Every step is one of the engine, or of its surroundings.
LEMMA EngineMoves ==
  ASSUME IInv, [Next]_vars
  PROVE  EngineInv'
<1>1. EngineActs \/ UNCHANGED evars
  BY DEF Next, vars, EngineActs, Drift, Install, EngineStep, StepHead, VerifyHolds, VerifyLacks,
         RunSucceeds, HomebrewUnfetched, RunFails, RollbackSucceeds, RollbackErrs, GiveUp, Killed,
         Reboot, FixPath,
         Later
<1>2. QED
  BY <1>1, EngineKept DEF IInv

\* The step that runs, and the one that is undone, is one of the plan's.
LEMMA AtStep ==
  ASSUME IInv
  PROVE  /\ pc \in {"verify", "run"} => cur \in Steps
         /\ RollingBack => /\ back \in 1..Len(completed) /\ Undone \in Steps
                           /\ Undone \in Range(completed)
<1>1. RollingBack => back \in 1..Len(completed)
  BY CompletedFacts DEF IInv, EngineInv, EngineTypeOK, RollingBack
<1>2. RollingBack => Undone \in Steps /\ Undone \in Range(completed)
  BY <1>1, CompletedFacts DEF IInv, Undone, Range
<1>3. QED
  BY <1>1, <1>2 DEF IInv, EngineInv, Ahead

\* The machine a step leaves, by what has happened.
Happened ==
  \/ machine' = machine
  \/ pc = "run" /\ CanRun(Label) /\ Touches(Label, machine')
  \/ RollingBack /\ machine' = TakenBack(UndoneLabel)
  \/ Reboot \/ FixPath

\* No step does anything else to the machine.
LEMMA WhatHappens ==
  ASSUME IInv, Next
  PROVE  Happened
<1>0. machine \in Machines /\ want \in Models \cup {NoModel}
  BY DEF IInv, TypeOK
<1>1. ASSUME machine' \in Ran(Label) \cup HalfRan(Label)
      PROVE  Touches(Label, machine')
  BY <1>0, <1>1, RunTouches
<1>2. QED
  BY <1>1 DEF Next, Happened, Install, EngineStep, StepHead, VerifyHolds, VerifyLacks,
         RunSucceeds, HomebrewUnfetched, RunFails, RollbackSucceeds, RollbackErrs, GiveUp, Killed,
         Complete, Fail, Undo, UndoFails

\* The types of the machine and of the run.
LEMMA TypeKept ==
  ASSUME IInv, Next
  PROVE  TypeOK'
<1>0. TypeOK
  BY DEF IInv
<1>1. EngineTypeOK'
  BY EngineMoves DEF EngineInv
<1>2. machine' \in Machines
  <2>1. CASE RollingBack /\ machine' = TakenBack(UndoneLabel)
    BY <1>0, <2>1, RollbackTouches DEF TypeOK
  <2>2. CASE Reboot \/ FixPath
    BY <1>0, <2>2 DEF Reboot, FixPath, Later, TypeOK, Machines
  <2>3. QED
    BY <1>0, <2>1, <2>2, WhatHappens DEF Happened, Touches, TypeOK
<1>3. start' \in Machines /\ want' \in Models \cup {NoModel} /\ mistake' \in Mistakes
  BY <1>0 DEF TypeOK, Next, Install, EngineStep, StepHead, VerifyHolds, VerifyLacks,
         RunSucceeds, HomebrewUnfetched, RunFails, RollbackSucceeds, RollbackErrs, GiveUp, Killed,
         Reboot, FixPath,
         Later
<1>4. reply' \in Keys \cup {NoKey}
  <2>1. machine'.conf \in Keys \cup {NoKey}
    BY <1>2 DEF Machines
  <2>2. QED
    BY <1>0, <2>1 DEF TypeOK, Next, Install, EngineStep, StepHead, VerifyHolds, VerifyLacks,
         RunSucceeds, HomebrewUnfetched, RunFails, RollbackSucceeds, RollbackErrs, GiveUp, Killed,
         Reboot, FixPath,
         Later
<1>5. faults' \in 0..MaxFaults
  <2>1. Fault \/ UNCHANGED faults
    BY DEF Next, Install, EngineStep, StepHead, VerifyHolds, VerifyLacks,
         RunSucceeds, HomebrewUnfetched, RunFails, RollbackSucceeds, RollbackErrs, GiveUp, Killed,
         Reboot, FixPath,
         Later
  <2>2. QED
    BY <1>0, <2>1, MacAssumption DEF TypeOK, Fault
<1>6. QED
  BY <1>1, <1>2, <1>3, <1>4, <1>5 DEF TypeOK

\* While the engine walks forward: a step that is skipped was seen to be done, and one
\* that has run has done it; the reply is of the key it wrote, and so is the tunnel.
LEMMA WalkedKept ==
  ASSUME IInv, Next
  PROVE  Walked'
<1>0. TypeOK /\ Walked
  BY DEF IInv
<1>1. CASE pc' \notin {"check", "verify", "run", "ok"}
  BY <1>1 DEF Walked
<1>2. CASE Install
  BY <1>2 DEF Install, Launch, Walked, Range
<1>3. CASE StepHead \/ VerifyLacks
  <2>1. /\ UNCHANGED <<cur, completed, machine, reply, want, start>>
        /\ pc \in {"check", "verify"}
    BY <1>3 DEF StepHead, Enter, Finish, VerifyLacks, Begin
  <2>2. QED
    BY <1>0, <2>1 DEF Walked
<1>4. CASE VerifyHolds
  <2>1. /\ UNCHANGED <<completed, machine, reply, want, start>>
        /\ pc = "verify" /\ cur \in 1..9 /\ cur' = cur + 1
        /\ Seen(Plan[cur], machine)
    BY <1>4, AtStep, PlanFacts DEF VerifyHolds, Skip, Label
  <2>2. /\ cur \in {1, 2, 3, 4, 5, 7}
        /\ cur \in 3..5 => Plan[cur] \in machine.tools
        /\ cur = 7 => machine.tunnel # NoKey
    BY <2>1, PlanFacts DEF Seen, Tools
  <2>3. QED
    BY <1>0, <2>1, <2>2 DEF Walked
<1>5. CASE RunSucceeds
  <2>1. /\ UNCHANGED <<want, start>> /\ pc = "run" /\ cur \in 1..9 /\ cur' = cur + 1
        /\ CanRun(Plan[cur]) /\ machine' \in Ran(Plan[cur])
        /\ reply' = IF cur = 6 THEN machine'.conf ELSE reply
    BY <1>5, AtStep, PlanFacts DEF RunSucceeds, Complete, Label
  <2>2. /\ machine.tools \subseteq machine'.tools
        /\ cur # 6 => machine'.conf = machine.conf
        /\ cur # 7 => machine'.tunnel = machine.tunnel
        /\ cur # 8 => machine'.config = machine.config
    BY <1>0, <2>1, RunTouches, PlanFacts DEF TypeOK, Touches
  <2>3. /\ cur \in 3..5 => Plan[cur] \in machine'.tools
        /\ cur = 6 => machine'.conf \in Keys
        /\ cur = 7 => machine'.tunnel = machine.conf
        /\ cur = 8 => machine'.config = want
    BY <1>0, <2>1, PlanFacts, RunLeaves DEF TypeOK, Tools
  <2>4. Range(completed') = Range(completed) \cup {cur}
    BY <1>0, <1>5, <2>1, AppendFacts, PlanFacts DEF RunSucceeds, Complete, TypeOK, EngineTypeOK
  <2>5. 7 \in Range(completed) => cur > 7
    BY CompletedFacts DEF IInv
  <2>6. QED
    <3>1. \A j \in 3..5 : cur' > j => Plan[j] \in machine'.tools
      BY <1>0, <2>1, <2>2, <2>3 DEF Walked
    <3>2. cur' > 6 => reply' = machine'.conf /\ reply' # NoKey
      BY <1>0, <2>1, <2>2, <2>3, MacAssumption DEF Walked
    <3>3. (cur' > 7 => machine'.tunnel # NoKey) /\ (cur' > 8 => machine'.config = want')
      BY <1>0, <2>1, <2>2, <2>3 DEF Walked
    <3>4. IF 7 \in Range(completed') THEN machine'.tunnel = reply'
                                     ELSE machine'.tunnel = start'.tunnel
      BY <1>0, <2>1, <2>2, <2>3, <2>4, <2>5 DEF Walked
    <3>5. QED
      BY <3>1, <3>2, <3>3, <3>4 DEF Walked
<1>6. CASE HomebrewUnfetched
  <2>1. /\ UNCHANGED <<machine, reply, want, start>> /\ pc = "run" /\ cur = 2 /\ cur' = cur + 1
        /\ completed' = Append(completed, cur)
    BY <1>6, AtStep, PlanFacts DEF HomebrewUnfetched, Complete, Label
  <2>2. Range(completed') = Range(completed) \cup {cur}
    BY <1>0, <2>1, AppendFacts, PlanFacts DEF TypeOK, EngineTypeOK
  <2>3. QED
    BY <1>0, <2>1, <2>2 DEF Walked
<1>7. QED
  BY <1>1, <1>2, <1>3, <1>4, <1>5, <1>6 DEF Next, EngineStep, BeginRollback,
     RunFails, Fail, RollbackSucceeds, Undo, RollbackErrs, UndoFails, RollingBack, GiveUp,
     ReturnCause, Killed, Crash, Reboot, FixPath, Later

\* While a run goes on nothing that it found is taken away, by its end either.
LEMMA NothingTaken ==
  ASSUME IInv, Next, pc \in Active
  PROVE  StillThere' /\ start' = start
<1>1. pc # "idle" /\ StillThere /\ FoundNothing /\ start' = start
  <2>1. pc # "idle" /\ start' = start
    BY DEF Next, Install, Launch, EngineStep, StepHead, VerifyHolds, VerifyLacks,
       RunSucceeds, HomebrewUnfetched, RunFails, RollbackSucceeds, RollbackErrs, GiveUp,
       Killed, Active,
       Reboot, FixPath, Later
  <2>2. QED
    BY <2>1 DEF IInv
<1>2. CASE machine' = machine
  BY <1>1, <1>2 DEF StillThere
<1>3. CASE pc = "run" /\ CanRun(Label) /\ Touches(Label, machine')
  <2>1. machine'.tunnel = machine.tunnel \/ machine.tunnel = NoKey
    BY <1>3 DEF CanRun, Touches
  <2>2. QED
    BY <1>1, <1>3, <2>1 DEF Touches, StillThere
<1>4. CASE RollingBack /\ machine' = TakenBack(UndoneLabel)
  <2>1. /\ machine'.tools = machine.tools
        /\ Undone # 7 => machine'.tunnel = machine.tunnel
    BY <1>4, AtStep, PlanFacts, RollbackTouches DEF IInv, TypeOK, UndoneLabel
  <2>2. Undone = 7 => start.tunnel = NoKey
    BY <1>1, <1>4, AtStep DEF FoundNothing
  <2>3. QED
    BY <1>1, <2>1, <2>2 DEF StillThere
<1>5. QED
  BY <1>2, <1>3, <1>4, WhatHappens DEF Happened, Reboot, FixPath, Later

\* What the run found stays, and tunnel-up is completed only where no tunnel was.
LEMMA StillThereKept ==
  ASSUME IInv, Next, pc' # "idle"
  PROVE  StillThere' /\ FoundNothing'
<1>1. CASE Install
  BY <1>1 DEF Install, Launch, StillThere, FoundNothing, Range
<1>2. CASE ~Install
  <2>1. pc \in Active /\ pc # "idle"
    BY <1>2 DEF Next, EngineStep, StepHead, Enter, Finish, VerifyHolds, Skip, VerifyLacks,
       Begin, RunSucceeds, HomebrewUnfetched, Complete, RunFails, Fail,
       RollbackSucceeds, Undo, RollbackErrs,
       UndoFails, RollingBack, GiveUp, ReturnCause, Killed, Crash, Active, Reboot, FixPath,
       Later
  <2>2. StillThere' /\ StillThere /\ FoundNothing /\ start' = start
    BY <2>1, NothingTaken DEF IInv
  <2>3. FoundNothing'
    <3>1. CASE completed' = completed
      BY <2>2, <3>1 DEF FoundNothing
    <3>2. CASE RunSucceeds
      <4>1. /\ pc = "run" /\ cur \in Steps /\ completed' = Append(completed, cur)
            /\ CanRun(Label)
        BY <3>2, AtStep DEF RunSucceeds, Complete
      <4>2. Range(completed') = Range(completed) \cup {cur}
        BY <4>1, AppendFacts DEF IInv, TypeOK, EngineTypeOK
      <4>3. cur = 7 => machine.tunnel = NoKey
        BY <4>1, PlanFacts DEF CanRun, Label
      <4>4. QED
        BY <2>2, <4>2, <4>3 DEF FoundNothing, StillThere
    <3>3. CASE HomebrewUnfetched
      <4>1. cur \in Steps /\ cur # 7 /\ completed' = Append(completed, cur)
        BY <3>3, AtStep, PlanFacts DEF HomebrewUnfetched, Complete, Label
      <4>2. Range(completed') = Range(completed) \cup {cur}
        BY <4>1, AppendFacts DEF IInv, TypeOK, EngineTypeOK
      <4>3. QED
        BY <2>2, <4>1, <4>2 DEF FoundNothing
    <3>4. QED
      BY <1>2, <3>1, <3>2, <3>3 DEF Next, EngineStep, StepHead, Enter, Finish, BeginRollback,
         VerifyHolds, Skip, VerifyLacks, Begin, RunFails, Fail, RollbackSucceeds, Undo,
         RollbackErrs, UndoFails, GiveUp, ReturnCause, Killed, Crash, Reboot, FixPath, Later
  <2>4. QED
    BY <2>2, <2>3
<1>3. QED
  BY <1>1, <1>2

\* Turning back, and undoing step by step.
LEMMA TurnedBackKept ==
  ASSUME IInv, Next
  PROVE  TurnedBack'
<1>0. /\ TypeOK /\ Walked /\ TurnedBack /\ EngineInv /\ EngineInv'
      /\ pc # "idle" => StillThere /\ FoundNothing
  BY EngineMoves DEF IInv
<1>1. CASE pc' \notin {"rollback", "failed"}
  BY <1>1 DEF TurnedBack
<1>2. CASE RunFails
  <2>1. /\ pc = "run" /\ cur \in Steps /\ completed' = completed /\ start' = start
        /\ status' = [status EXCEPT ![cur] = "failed"]
    BY <1>2, AtStep DEF RunFails, Fail, BeginRollback, Report
  <2>2. machine'.tunnel = machine.tunnel
    BY <1>0, <1>2, HalfRunLeaves DEF RunFails, TypeOK
  <2>3. 7 \in Range(completed) => status'[7] = "done"
    <3>1. 7 \in Range(completed) => 7 \in Steps /\ 7 < cur
      BY <1>0, CompletedFacts
    <3>2. QED
      BY <1>0, <2>1, <3>1 DEF EngineInv, EngineTypeOK, Accounted
  <2>4. QED
    BY <1>0, <2>1, <2>2, <2>3 DEF Walked, TurnedBack
<1>3. CASE RollbackSucceeds
  <2>1. /\ RollingBack /\ pc = "rollback" /\ pc # "idle"
        /\ UNCHANGED <<completed, start>> /\ machine' = TakenBack(UndoneLabel)
        /\ status' = [status EXCEPT ![Undone] = "rolled-back"]
    BY <1>3 DEF RollbackSucceeds, Undo, RollingBack
  <2>2. machine'.tunnel = IF Undone = 7 THEN NoKey ELSE machine.tunnel
    BY <1>0, <2>1, AtStep, PlanFacts, RollbackTouches DEF TypeOK, UndoneLabel
  <2>3. Undone = 7 => start.tunnel = NoKey
    BY <1>0, <2>1, AtStep DEF FoundNothing
  <2>4. Undone # 7 => status'[7] = status[7]
    BY <1>0, <2>1, PlanFacts, AtStep DEF TypeOK, EngineTypeOK
  <2>5. QED
    BY <1>0, <2>1, <2>2, <2>3, <2>4 DEF TurnedBack
<1>4. CASE RollbackErrs \/ GiveUp
  BY <1>0, <1>4 DEF RollbackErrs, UndoFails, RollingBack, GiveUp, ReturnCause, TurnedBack
<1>5. QED
  BY <1>1, <1>2, <1>3, <1>4 DEF Next, Install, Launch, EngineStep, StepHead, Enter,
     Finish, VerifyHolds, Skip, VerifyLacks, Begin, RunSucceeds, HomebrewUnfetched,
     Complete, Killed, Crash,
     Reboot, FixPath, Later

-----------------------------------------------------------------------------
(* The theorems.                                                           *)

\* Before the first run the tools may be there, and no tunnel is.
LEMMA InitIInv == Init => IInv
<1> SUFFICES ASSUME Init PROVE IInv
  OBVIOUS
<1>1. EngineInv /\ EngineTypeOK /\ pc = "idle"
  BY EngineInits DEF Init, EngineInit, EngineInv
<1>2. machine \in Machines /\ start = machine
  BY DEF Init, Machines
<1>3. TypeOK
  BY <1>1, <1>2, MacAssumption DEF Init, TypeOK, Mistakes
<1>4. Walked /\ TurnedBack
  BY <1>1 DEF Walked, TurnedBack
<1>5. QED
  BY <1>1, <1>3, <1>4 DEF IInv

\* No step, of the engine or of what happens between two runs, falsifies it.
LEMMA NextKeepsIInv == IInv /\ [Next]_vars => IInv'
<1> SUFFICES ASSUME IInv, [Next]_vars PROVE IInv'
  OBVIOUS
<1>1. CASE Next
  <2>1. EngineInv'
    BY EngineMoves
  <2>2. pc' # "idle" => StillThere' /\ FoundNothing'
    BY <1>1, StillThereKept
  <2>3. TypeOK' /\ Walked' /\ TurnedBack'
    BY <1>1, TypeKept, WalkedKept, TurnedBackKept
  <2>4. QED
    BY <2>1, <2>2, <2>3 DEF IInv
<1>2. CASE UNCHANGED vars
  <2>1. EngineInv'
    BY EngineMoves
  <2>2. TypeOK'
    BY <1>2, <2>1 DEF vars, IInv, TypeOK, EngineInv
  <2>3. Walked' /\ TurnedBack'
    BY <1>2 DEF vars, evars, IInv, Walked, TurnedBack
  <2>4. pc' # "idle" => StillThere' /\ FoundNothing'
    BY <1>2 DEF vars, evars, IInv, StillThere, FoundNothing
  <2>5. QED
    BY <2>1, <2>2, <2>3, <2>4 DEF IInv
<1>3. QED
  BY <1>1, <1>2

\* IInv holds in every state the client and its runs reach.
THEOREM Inductive == Spec => []IInv
<1>1. QED
  BY InitIInv, NextKeepsIInv, PTL DEF Spec

\* The variables keep their types.
THEOREM TypeCorrect == Spec => []TypeOK
<1>1. IInv => TypeOK
  BY DEF IInv
<1>2. QED
  BY <1>1, Inductive, PTL

\* A run that returns leaves the client set up for the token and the model it was
\* given, and its reply's key in wg0.conf and in the tunnel it started; or, failing,
\* its tunnel as it was.
THEOREM ReturnsClean == Spec => []ConfiguredOrUntouched
<1>1. IInv => ConfiguredOrUntouched
  <2> SUFFICES ASSUME IInv PROVE ConfiguredOrUntouched
    OBVIOUS
  <2>0. TypeOK /\ Walked /\ TurnedBack
    BY DEF IInv
  <2>1. pc = "ok" => cur = 10
    BY PlanFacts DEF IInv, EngineInv, Ahead
  <2>2. pc = "ok" => machine.tools = Tools
    <3>1. {Plan[j] : j \in 3..5} = Tools
      BY DEF Plan, Tools
    <3>2. machine.tools \subseteq Tools
      BY <2>0 DEF TypeOK, Machines
    <3>3. QED
      BY <2>0, <2>1, <3>1, <3>2 DEF Walked
  <2>3. SuccessConfigures
    BY <2>0, <2>1, <2>2 DEF Walked, SuccessConfigures
  <2>4. ReplyIsRunningKey
    BY <2>0, <2>1 DEF Walked, ReplyIsRunningKey
  <2>5. NoStrayTunnel
    <3>1. ASSUME 7 \in Range(completed), status[7] = "done"
          PROVE  \E k \in DOMAIN completed :
                   Plan[completed[k]] = "wireguard-tunnel-up" /\ status[completed[k]] = "done"
      BY <3>1, PlanFacts DEF Range
    <3>2. QED
      BY <2>0, <3>1 DEF TurnedBack, NoStrayTunnel
  <2>6. QED
    BY <2>3, <2>4, <2>5 DEF ConfiguredOrUntouched
<1>2. QED
  BY <1>1, Inductive, PTL

\* The client's install implements AtomicInstall: but for a reboot, or brew being put on
\* PATH, a run commits all of its work, or is undone, and loses nothing.
THEOREM Refines == Spec => ImplementsAtomicInstall
<1>1. Init => Atomic!Init
  BY DEF Init, EngineInit, Atomic!Init, Active, SeenIn
<1>2. ASSUME IInv, IInv', [Next]_vars
      PROVE  [Reboot \/ FixPath \/ Atomic!Next]_(Atomic!avars)
  <2> USE DEF Active
  <2>1. CASE Install
    <3>1. Atomic!Begin
      BY <1>2, <2>1
         DEF Install, Launch, Atomic!Begin, IInv, TypeOK, EngineTypeOK, Phases, SeenIn, Seen
    <3>2. QED
      BY <3>1 DEF Atomic!Next
  <2>2. CASE StepHead /\ Finish
    <3>1. pc' = "ok" /\ cur' = 10
      BY <1>2, <2>2, PlanFacts DEF Finish, IInv, EngineInv, Ahead
    <3>2. \A l \in Visible : Seen(l, machine)'
      <4>1. Tools = {Plan[j] : j \in 3..5}
        BY DEF Plan, Tools
      <4>2. \A l \in Tools : l \in machine'.tools
        BY <1>2, <3>1, <4>1 DEF IInv, Walked
      <4>3. machine'.tunnel # NoKey
        BY <1>2, <3>1 DEF IInv, Walked
      <4>4. QED
        BY <4>2, <4>3 DEF Seen, Visible, HasRollback
    <3>3. Atomic!Commit
      BY <2>2, <3>1, <3>2 DEF Finish, Atomic!Commit, SeenIn
    <3>4. QED
      BY <3>3 DEF Atomic!Next
  <2>3. CASE GiveUp
    <3>1. /\ pc = "rollback" /\ pc' = "failed" /\ pc # "idle"
          /\ UNCHANGED <<machine, start, status>>
      BY <2>3 DEF GiveUp, ReturnCause
    <3>2. \A l \in Visible : Seen(l, start) => Seen(l, machine)
      BY <1>2, <3>1 DEF IInv, StillThere, Seen, Visible, HasRollback, Tools
    <3>3. Seen("wireguard-tunnel-up", machine) /\ ~Seen("wireguard-tunnel-up", start) =>
            7 \in Steps /\ Plan[7] = "wireguard-tunnel-up" /\ status[7] = "done"
      BY <1>2, <3>1, PlanFacts DEF IInv, TurnedBack, Seen, Tools
    <3>4. \A l \in Visible : Seen(l, machine)' <=> Seen(l, machine)
      BY <3>1 DEF Seen
    <3>5. Atomic!Abort
      BY <3>1, <3>2, <3>3, <3>4 DEF Atomic!Abort, SeenIn, Visible, HasRollback
    <3>6. QED
      BY <3>5 DEF Atomic!Next
  <2>4. CASE Killed
    <3>1. StillThere' /\ start' = start /\ pc \in Active /\ pc' = "idle"
      BY <1>2, <2>4, NothingTaken DEF Next, Killed, Crash
    <3>2. \A l \in Visible : Seen(l, start) => Seen(l, machine)'
      BY <3>1 DEF StillThere, Seen, Visible, HasRollback, Tools
    <3>3. Atomic!Die
      BY <3>1, <3>2 DEF Atomic!Die, SeenIn
    <3>4. QED
      BY <3>3 DEF Atomic!Next
  <2>5. CASE UNCHANGED vars
    BY <2>5 DEF vars, evars, Atomic!avars, SeenIn, Seen
  <2>6. CASE EngineStep /\ ~(StepHead /\ Finish) /\ ~GiveUp
    <3>1. pc \in Active /\ pc' \in Active /\ start' = start
      BY <2>6
         DEF EngineStep, StepHead, Enter, BeginRollback, VerifyHolds, Skip, VerifyLacks, Begin,
             RunSucceeds, HomebrewUnfetched, Complete, RunFails, Fail,
             RollbackSucceeds, RollbackErrs, Undo,
             UndoFails, RollingBack
    <3>2. QED
      BY <3>1 DEF Atomic!avars, SeenIn, Seen
  <2>7. QED
    BY <1>2, <2>1, <2>2, <2>3, <2>4, <2>5, <2>6 DEF Next
<1>3. QED
  BY <1>1, <1>2, Inductive, PTL DEF Spec, ImplementsAtomicInstall
=============================================================================
