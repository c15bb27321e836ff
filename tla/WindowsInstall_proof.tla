------------------------ MODULE WindowsInstall_proof ------------------------
(***************************************************************************)
(* Proofs about WindowsInstall, for any registry of models and any number  *)
(* of faults.  IInv is inductive; the module's safety properties, and that *)
(* the server's install is the atomic operation of AtomicInstall, follow   *)
(* from it.                                                                *)
(***************************************************************************)
EXTENDS WindowsInstall, TLAPS

-----------------------------------------------------------------------------
(* The inductive invariant.  Steps are named by their places in Plan:      *)
(* install-wireguard 2, acquire-llama 3, download-model 4, the server's    *)
(* config 5, its tunnel 6, the service 7, the firewall 8, the report 9.    *)

\* While the engine walks forward, a step it is past has left its work and its
\* keys, and what no step that it completed has changed is as the run found it.
Walked ==
  pc \in {"check", "verify", "run", "ok"} =>
    /\ cur > 2 => machine.wireguard
    /\ cur > 3 => machine.llama \in {"binary", "whole"} /\ "llama_binary" \in data
    /\ cur > 4 => want \in Models /\ machine.model[want] # "none" /\ "model_path" \in data
    /\ cur > 5 => machine.conf /\ "join_token" \in data
    /\ cur > 6 => machine.tunnel
    /\ cur > 7 => /\ machine.service = "running"
                  /\ \/ machine.serves = want
                     \/ start.service = "running" /\ machine.serves = start.serves
    /\ cur > 8 => machine.rules > 0
    /\ 6 \notin Range(completed) => machine.tunnel = start.tunnel
    /\ 7 \notin Range(completed) =>
         machine.service = start.service /\ machine.serves = start.serves
    /\ cur <= 8 => machine.rules = start.rules

\* A step that runs was found lacking, unless its probe guesses.
Lacking ==
  pc = "run" => /\ Seen(Label, machine) => Label \in Guessing
                /\ cur = 4 => want \in Models

\* What the run found on the machine is still there; and a step that it completed,
\* and may have to undo, found nothing.
StillThere ==
  /\ start.wireguard => machine.wireguard
  /\ start.llama \in {"binary", "whole"} => machine.llama \in {"binary", "whole"}
  /\ start.tunnel => machine.tunnel
  /\ start.service = "running" => machine.service = "running" /\ machine.serves = start.serves
  /\ start.rules > 0 => machine.rules > 0

FoundNothing ==
  /\ 6 \in Range(completed) => ~start.tunnel
  /\ 7 \in Range(completed) => start.service = "none"

\* A run that turns back has not completed the firewall step, which might take away
\* a rule it did not see; what it made and has not undone is reported done.
TurnedBack ==
  pc \in {"rollback", "failed"} =>
    /\ cur <= 8 /\ machine.rules = start.rules
    /\ machine.tunnel /\ ~start.tunnel => status[6] = "done"
    /\ machine.service = "running" /\ start.service # "running" => status[7] = "done"
    /\ pc = "rollback" => \A k \in 1..back : completed[k] = 7 => machine.service # "none"

IInv ==
  /\ TypeOK /\ EngineInv
  /\ Walked /\ Lacking /\ TurnedBack
  /\ pc # "idle" => StillThere /\ FoundNothing
  /\ ServiceHasItsFiles

-----------------------------------------------------------------------------
(* What InstallerPlan_proof shows of the engine holds of it here.  Its     *)
(* lemmas say nothing of the plan or the machine, so what stands for them  *)
(* is immaterial.                                                          *)
Engine == INSTANCE InstallerPlan_proof WITH
  Checked <- {}, Reversible <- {}, Honest <- {}, world <- machine

\* The instance's assumption holds of it.
LEMMA EngineAssumption ==
  {} \subseteq Engine!Steps /\ MaxFaults \in Nat
BY WindowsAssumption

\* EngineInv there is EngineInv here.
LEMMA SameInv == EngineInv <=> Engine!EngineInv
BY DEF EngineInv, EngineTypeOK, Accounted, Ahead, Behind, Steps, Phases, StepStatus, Range,
       Engine!Range, Engine!EngineInv, Engine!EngineTypeOK, Engine!Accounted, Engine!Ahead,
       Engine!Behind, Engine!Steps, Engine!Phases, Engine!StepStatus

\* Before the first run nothing is reported or completed.
LEMMA EngineInits == EngineInit => EngineInv
BY Engine!EngineInits, EngineAssumption, NAssumption, SameInv
   DEF EngineInit, Steps, Engine!EngineInit, Engine!Steps

\* The steps completed are told apart by their places in completed, and are all
\* behind the loop.
LEMMA CompletedFacts ==
  ASSUME EngineInv
  PROVE  /\ Len(completed) \in Nat /\ DOMAIN completed = 1..Len(completed)
         /\ \A k \in 1..Len(completed) : completed[k] \in Steps /\ completed[k] < cur
         /\ \A k, l \in 1..Len(completed) : k # l => completed[k] # completed[l]
         /\ \A j \in Range(completed) : j \in Steps /\ j < cur
BY Engine!CompletedFacts, EngineAssumption, NAssumption, SameInv DEF Steps, Engine!Steps,
   Range, Engine!Range

\* Nothing the engine does, or that is done to it, falsifies EngineInv.
LEMMA EngineKept ==
  ASSUME EngineInv, EngineActs \/ UNCHANGED evars
  PROVE  EngineInv'
<1>1. EngineActs <=> Engine!EngineActs
  <2> USE DEF Active, Steps, Report, BeginRollback, RollingBack, Undone, evars,
              Engine!Active, Engine!Steps, Engine!Report, Engine!BeginRollback,
              Engine!RollingBack, Engine!Undone
  <2>1. /\ Launch <=> Engine!Launch
        /\ Cancel <=> Engine!Cancel
        /\ Crash <=> Engine!Crash
        /\ Drift <=> Engine!Drift
        /\ Enter <=> Engine!Enter
        /\ Interrupted <=> Engine!Interrupted
    BY DEF Launch, Cancel, Crash, Drift, Enter, Interrupted, Engine!Launch, Engine!Cancel,
           Engine!Crash, Engine!Drift, Engine!Enter, Engine!Interrupted
  <2>2. /\ Finish <=> Engine!Finish
        /\ VerifyFails <=> Engine!VerifyFails
        /\ Skip <=> Engine!Skip
        /\ Begin <=> Engine!Begin
        /\ Fail <=> Engine!Fail
        /\ Complete <=> Engine!Complete
    BY DEF Finish, VerifyFails, Skip, Begin, Fail, Complete, Engine!Finish,
           Engine!VerifyFails, Engine!Skip, Engine!Begin, Engine!Fail, Engine!Complete
  <2>3. /\ Undo <=> Engine!Undo
        /\ UndoFails <=> Engine!UndoFails
        /\ ReturnCause <=> Engine!ReturnCause
    BY DEF Undo, UndoFails, ReturnCause, Engine!Undo, Engine!UndoFails, Engine!ReturnCause
  <2>4. QED
    BY <2>1, <2>2, <2>3 DEF EngineActs, Engine!EngineActs
<1>2. UNCHANGED evars => UNCHANGED Engine!evars
  BY DEF evars, Engine!evars
<1>3. Engine!EngineInv'
  BY <1>1, <1>2, SameInv, EngineAssumption, NAssumption, Engine!EngineKept
<1>4. QED
  BY <1>3, SameInv DEF EngineInv, EngineTypeOK, Accounted, Ahead, Behind, Steps, Phases,
       StepStatus, Range, Engine!Range, Engine!EngineInv, Engine!EngineTypeOK, Engine!Accounted, Engine!Ahead,
       Engine!Behind, Engine!Steps, Engine!Phases, Engine!StepStatus

\* What Append does to completed.
LEMMA AppendFacts ==
  ASSUME NEW S, NEW s \in Seq(S), NEW e \in S
  PROVE  /\ Append(s, e) \in Seq(S)
         /\ Len(Append(s, e)) = Len(s) + 1
         /\ DOMAIN Append(s, e) = 1..(Len(s) + 1)
         /\ \A k \in 1..Len(s) : Append(s, e)[k] = s[k]
         /\ Append(s, e)[Len(s) + 1] = e
         /\ Range(Append(s, e)) = Range(s) \cup {e}
BY Engine!AppendFacts DEF Range, Engine!Range

-----------------------------------------------------------------------------
(* The plan and what its steps do to the machine.                          *)

\* Where each step is in the plan.
LEMMA PlanFacts ==
  /\ N = 9 /\ Steps = 1..9
  /\ \A j \in Steps :
       /\ Plan[j] \in Labels
       /\ Plan[j] = "install-wireguard"       <=> j = 2
       /\ Plan[j] = "acquire-llama"           <=> j = 3
       /\ Plan[j] = "download-model"          <=> j = 4
       /\ Plan[j] = "wireguard-server-config" <=> j = 5
       /\ Plan[j] = "wireguard-tunnel-up"     <=> j = 6
       /\ Plan[j] = "install-llama-service"   <=> j = 7
       /\ Plan[j] = "configure-firewall"      <=> j = 8
       /\ Plan[j] = "report"                  <=> j = 9
<1>1. N = 9 /\ Steps = 1..9
  BY WindowsAssumption DEF Plan, Steps
<1>2. DOMAIN Plan = 1..9
  BY DEF Plan
<1>3. \A j \in Steps : Plan[j] \in Labels
  BY <1>1, <1>2 DEF Labels, Range
<1>4. QED
  BY <1>1, <1>3 DEF Plan

\* A Run, done or half done, touches its own part of the machine only and takes none
\* of the work away that was there -- but for the service's, which does not run where
\* one is registered.
Touches(l, m) ==
  /\ m \in Machines
  /\ l # "install-wireguard"       => m.wireguard = machine.wireguard
  /\ l # "acquire-llama"           => m.llama = machine.llama
  /\ l # "download-model"          => m.model = machine.model
  /\ l # "wireguard-server-config" => m.conf = machine.conf
  /\ l # "wireguard-tunnel-up"     => m.tunnel = machine.tunnel
  /\ l # "install-llama-service"   => m.service = machine.service /\ m.serves = machine.serves
  /\ l # "configure-firewall"      => m.rules = machine.rules
  /\ machine.wireguard => m.wireguard
  /\ machine.llama \in {"binary", "whole"} => m.llama \in {"binary", "whole"}
  /\ machine.conf      => m.conf
  /\ machine.tunnel    => m.tunnel
  /\ machine.rules > 0 => m.rules > 0
  /\ \A x \in Models : machine.model[x] # "none" => m.model[x] # "none"
  /\ \/ m.service = machine.service /\ m.serves = machine.serves
     \/ machine.service = "none" /\ m.service \in {"stopped", "running"} /\ m.serves = want

\* Every Run keeps to that.
LEMMA RunTouches ==
  ASSUME machine \in Machines, want \in Models \cup {NoModel},
         NEW l \in Labels, l = "download-model" => want \in Models,
         NEW m, m \in HalfRan(l) \/ (CanRun(l) /\ m \in Ran(l))
  PROVE  Touches(l, m)
<1>0. MaxRules \in Nat \ {0}
  BY WindowsAssumption
<1>1. CASE m = machine
  BY <1>1 DEF Touches
<1>2. CASE l = "install-wireguard"
  <2> DEFINE s == machine.spoilt \cup {l}
  <2>1. \/ m = machine \/ m = [machine EXCEPT !.wireguard = TRUE]
        \/ m = [machine EXCEPT !.spoilt = s]
    BY <1>2 DEF Ran, HalfRan
  <2>2. s \in SUBSET Spoilable
    BY <1>2 DEF Machines, Spoilable
  <2> HIDE DEF s
  <2>3. CASE m = [machine EXCEPT !.spoilt = s]
    BY <1>2, <2>2, <2>3 DEF Touches, Machines
  <2>4. CASE m = [machine EXCEPT !.wireguard = TRUE]
    BY <1>2, <2>4 DEF Touches, Machines
  <2>5. QED
    BY <1>1, <2>1, <2>3, <2>4
<1>3. CASE l = "acquire-llama"
  <2> DEFINE s == machine.spoilt \cup {l}
  <2>1. \/ m = machine \/ m = [machine EXCEPT !.llama = "whole"]
        \/ \E u \in HalfUnpacked : \/ m = [machine EXCEPT !.llama = u]
                                  \/ m = [machine EXCEPT !.llama = u, !.spoilt = s]
    BY <1>3 DEF Ran, HalfRan
  <2>2. /\ s \in SUBSET Spoilable
        /\ HalfUnpacked \subseteq {"none", "some", "binary", "whole"}
        /\ machine.llama \in {"binary", "whole"} => HalfUnpacked = {"binary"}
    BY <1>3 DEF Machines, Spoilable, HalfUnpacked
  <2> HIDE DEF s
  <2>3. CASE m = [machine EXCEPT !.llama = "whole"]
    BY <1>3, <2>3 DEF Touches, Machines
  <2>4. ASSUME NEW u \in HalfUnpacked, m = [machine EXCEPT !.llama = u]
        PROVE  Touches(l, m)
    BY <1>3, <2>2, <2>4 DEF Touches, Machines
  <2>5. ASSUME NEW u \in HalfUnpacked, m = [machine EXCEPT !.llama = u, !.spoilt = s]
        PROVE  Touches(l, m)
    BY <1>3, <2>2, <2>5 DEF Touches, Machines
  <2>6. QED
    BY <1>1, <2>1, <2>3, <2>4, <2>5
<1>4. CASE l = "download-model"
  <2>1. Downloaded \subseteq {"part", "bad", "whole"}
    BY DEF Downloaded
  <2>2. m = machine \/ \E u \in {"part", "bad", "whole"} : m = [machine EXCEPT !.model[want] = u]
    BY <1>4, <2>1 DEF Ran, HalfRan
  <2>3. QED
    BY <1>1, <1>4, <2>2 DEF Touches, Machines
<1>5. CASE l = "wireguard-server-config"
  <2>1. m = machine \/ m = [machine EXCEPT !.conf = TRUE]
    BY <1>5 DEF Ran, HalfRan
  <2>2. QED
    BY <1>1, <1>5, <2>1 DEF Touches, Machines
<1>6. CASE l = "wireguard-tunnel-up"
  <2>1. m = machine \/ m = [machine EXCEPT !.tunnel = TRUE]
    BY <1>6 DEF Ran, HalfRan
  <2>2. QED
    BY <1>1, <1>6, <2>1 DEF Touches, Machines
<1>7. CASE l = "install-llama-service"
  <2>1. \/ m = machine
        \/ /\ machine.service = "none"
           /\ \E u \in {"running", "stopped"} : m = [machine EXCEPT !.service = u, !.serves = want]
    BY <1>7 DEF Ran, HalfRan, CanRun
  <2>2. QED
    BY <1>1, <1>7, <2>1 DEF Touches, Machines
<1>8. CASE l = "configure-firewall"
  <2> DEFINE r == IF machine.rules < MaxRules THEN machine.rules + 1 ELSE machine.rules
  <2>1. m = machine \/ m = [machine EXCEPT !.rules = r]
    BY <1>8 DEF Ran, HalfRan
  <2>2. r \in 0..MaxRules /\ r > 0
    BY <1>0 DEF Machines
  <2> HIDE DEF r
  <2>3. QED
    BY <1>1, <1>8, <2>1, <2>2 DEF Touches, Machines
<1>9. CASE l \notin {"install-wireguard", "acquire-llama", "download-model",
                    "wireguard-server-config", "wireguard-tunnel-up",
                    "install-llama-service", "configure-firewall"}
  <2>1. Ran(l) = {machine} /\ HalfRan(l) = {machine}
    BY <1>9 DEF Ran, HalfRan
  <2>2. QED
    BY <1>1, <2>1
<1>10. QED
  BY <1>2, <1>3, <1>4, <1>5, <1>6, <1>7, <1>8, <1>9

\* A Run that returned nil has left its work.
LEMMA RunLeaves ==
  ASSUME machine \in Machines, NEW l \in Labels, l = "download-model" => want \in Models,
         NEW m \in Ran(l)
  PROVE  /\ l = "install-wireguard"       => m.wireguard
         /\ l = "acquire-llama"           => m.llama = "whole"
         /\ l = "download-model"          => m.model[want] # "none"
         /\ l = "wireguard-server-config" => m.conf
         /\ l = "wireguard-tunnel-up"     => m.tunnel
         /\ l = "install-llama-service"   => m.service = "running" /\ m.serves = want
         /\ l = "configure-firewall"      => m.rules > 0
<1>1. CASE l = "configure-firewall"
  <2> DEFINE r == IF machine.rules < MaxRules THEN machine.rules + 1 ELSE machine.rules
  <2>1. m = [machine EXCEPT !.rules = r]
    BY <1>1 DEF Ran
  <2>2. r > 0
    BY WindowsAssumption DEF Machines
  <2> HIDE DEF r
  <2>3. QED
    BY <1>1, <2>1, <2>2 DEF Machines
<1>2. CASE l \in {"install-wireguard", "acquire-llama", "wireguard-server-config",
                 "wireguard-tunnel-up"}
  BY <1>2 DEF Ran, Machines
<1>3. CASE l = "install-llama-service"
  BY <1>3 DEF Ran, Machines
<1>3a. CASE l = "download-model"
  <2>1. "none" \notin Downloaded
    BY DEF Downloaded
  <2>2. QED
    BY <1>3a, <2>1 DEF Ran, Machines
<1>4. CASE l \notin {"install-wireguard", "acquire-llama", "wireguard-server-config",
                    "wireguard-tunnel-up", "download-model", "install-llama-service",
                    "configure-firewall"}
  BY <1>4
<1>5. QED
  BY <1>1, <1>2, <1>3, <1>3a, <1>4

\* A Run that failed on the way has brought no tunnel up, nor a service that runs.
LEMMA HalfRunLeaves ==
  ASSUME machine \in Machines, NEW l \in Labels, NEW m \in HalfRan(l)
  PROVE  /\ m.tunnel = machine.tunnel /\ m.rules = machine.rules
         /\ \/ m.service = machine.service /\ m.serves = machine.serves
            \/ m.service = "stopped"
<1>1. CASE m = machine
  BY <1>1
<1>2. CASE l = "install-llama-service"
  <2>1. m = machine \/ m = [machine EXCEPT !.service = "stopped", !.serves = want]
    BY <1>2 DEF HalfRan
  <2>2. QED
    BY <2>1 DEF Machines
<1>3. CASE l = "acquire-llama"
  <2>1. \/ m = machine
        \/ \E u, s : m = [machine EXCEPT !.llama = u] \/ m = [machine EXCEPT !.llama = u, !.spoilt = s]
    BY <1>3 DEF HalfRan
  <2>2. QED
    BY <2>1 DEF Machines
<1>4. CASE l = "install-wireguard"
  <2>1. \/ m = machine \/ m = [machine EXCEPT !.wireguard = TRUE]
        \/ \E s : m = [machine EXCEPT !.spoilt = s]
    BY <1>4 DEF HalfRan
  <2>2. QED
    BY <2>1 DEF Machines
<1>5. CASE l \notin {"install-wireguard", "acquire-llama", "install-llama-service"}
  <2>1. \/ m = machine \/ m = [machine EXCEPT !.conf = TRUE]
        \/ \E u \in {"part", "bad"} : m = [machine EXCEPT !.model[want] = u]
    BY <1>5 DEF HalfRan
  <2>2. QED
    BY <2>1 DEF Machines
<1>6. QED
  BY <1>2, <1>3, <1>4, <1>5

\* A Rollback, done or half done, touches its own part of the machine only.
LEMMA RollbackTouches ==
  ASSUME machine \in Machines, NEW l \in Labels,
         NEW m \in {TakenBack(l)} \cup HalfTakenBack(l)
  PROVE  /\ m \in Machines
         /\ m.wireguard = machine.wireguard /\ m.llama = machine.llama
         /\ m.model = machine.model /\ m.conf = machine.conf
         /\ l # "wireguard-tunnel-up"   => m.tunnel = machine.tunnel
         /\ l # "install-llama-service" => m.service = machine.service /\ m.serves = machine.serves
         /\ l # "configure-firewall"    => m.rules = machine.rules
         /\ m.tunnel => machine.tunnel
         /\ m.service # "none" => m.serves = machine.serves
         /\ m.service = "running" => machine.service = "running"
         /\ m = TakenBack(l) =>
              /\ l = "wireguard-tunnel-up"   => ~m.tunnel
              /\ l = "install-llama-service" => m.service = "none"
<1>1. CASE m = machine
  BY <1>1 DEF TakenBack, Machines
<1>2. CASE l = "wireguard-tunnel-up" /\ m = [machine EXCEPT !.tunnel = FALSE]
  BY <1>2 DEF Machines
<1>3. CASE l = "install-llama-service"
             /\ m = [machine EXCEPT !.service = "none", !.serves = NoModel]
  BY <1>3 DEF Machines
<1>4. CASE l = "configure-firewall" /\ m = [machine EXCEPT !.rules = 0]
  BY <1>4, WindowsAssumption DEF Machines
<1>5. CASE /\ l = "install-llama-service" /\ m = [machine EXCEPT !.service = "stopped"]
  <2>1. m.service = "stopped" /\ TakenBack(l).service = "none"
    BY <1>5 DEF Machines, TakenBack
  <2>2. QED
    BY <1>5, <2>1 DEF Machines
<1>6. QED
  BY <1>1, <1>2, <1>3, <1>4, <1>5 DEF TakenBack, HalfTakenBack

-----------------------------------------------------------------------------
(* Each part of the invariant is kept.                                     *)

\* Every step is one of the engine, or of its surroundings.
LEMMA EngineMoves ==
  ASSUME IInv, [Next]_vars
  PROVE  EngineInv'
<1>1. EngineActs \/ UNCHANGED evars
  BY DEF Next, vars, EngineActs, Drift, Install, EngineStep, StepHead, VerifyErrs, VerifyHolds,
         VerifyLacks, RunSucceeds, RunFails, RollbackSucceeds, RollbackErrs, GiveUp, Killed,
         Outside, Outage, Reboot, Spoil, Mend, Later
<1>2. QED
  BY <1>1, EngineKept DEF IInv

\* The step that runs, and the one that is undone, is one of the plan's.
LEMMA AtStep ==
  ASSUME IInv
  PROVE  /\ pc \in {"verify", "run"} => cur \in Steps /\ Label \in Labels
         /\ pc = "run" /\ Label = "download-model" => want \in Models
         /\ RollingBack => /\ back \in 1..Len(completed) /\ Undone \in Steps
                           /\ Undone \in Range(completed) /\ UndoneLabel \in Labels
                           /\ Undone < cur /\ cur <= 8
<1>1. pc \in {"verify", "run"} => cur \in Steps /\ Label \in Labels
  BY PlanFacts DEF IInv, EngineInv, Ahead, Label
<1>2. pc = "run" /\ Label = "download-model" => want \in Models
  BY <1>1, PlanFacts DEF IInv, Lacking, Label
<1>3. RollingBack => back \in 1..Len(completed)
  BY CompletedFacts DEF IInv, EngineInv, EngineTypeOK, RollingBack
<1>4. RollingBack => /\ Undone \in Steps /\ Undone \in Range(completed)
                     /\ Undone < cur /\ cur <= 8
  BY <1>3, CompletedFacts DEF IInv, Undone, Range, TurnedBack, RollingBack
<1>5. QED
  BY <1>1, <1>2, <1>3, <1>4, PlanFacts DEF UndoneLabel

\* The machine a step leaves, by what has happened.
Happened ==
  \/ machine' = machine
  \/ /\ pc = "run" /\ Touches(Label, machine')
     /\ machine' \in HalfRan(Label) \/ (CanRun(Label) /\ machine' \in Ran(Label))
  \/ /\ RollingBack /\ machine' \in {TakenBack(UndoneLabel)} \cup HalfTakenBack(UndoneLabel)
  \/ Outside

\* No step does anything else to the machine.
LEMMA WhatHappens ==
  ASSUME IInv, Next
  PROVE  Happened
<1>0. machine \in Machines /\ want \in Models \cup {NoModel}
  BY DEF IInv, TypeOK
<1>1. ASSUME pc = "run",
             machine' \in HalfRan(Label) \/ (CanRun(Label) /\ machine' \in Ran(Label))
      PROVE  Touches(Label, machine')
  BY <1>0, <1>1, AtStep, RunTouches
<1>2. QED
  BY <1>1 DEF Next, Happened, Install, EngineStep, StepHead, VerifyErrs, VerifyHolds,
         VerifyLacks, RunSucceeds, RunFails, RollbackSucceeds, RollbackErrs, GiveUp, Killed,
         Complete, Fail, Undo, UndoFails

\* The types of the machine and of the run.
LEMMA TypeKept ==
  ASSUME IInv, Next
  PROVE  TypeOK'
<1>0. TypeOK
  BY DEF IInv
<1>1. EngineTypeOK'
  BY EngineMoves DEF EngineInv
<1>2. machine' \in Machines
  <2>1. CASE RollingBack /\ machine' \in {TakenBack(UndoneLabel)} \cup HalfTakenBack(UndoneLabel)
    BY <1>0, <2>1, AtStep, RollbackTouches DEF TypeOK
  <2>2a. CASE Outage
    <3>1. CASE machine' = [machine EXCEPT !.service = "stopped"]
      BY <1>0, <3>1 DEF TypeOK, Machines
    <3>2. CASE machine' = [machine EXCEPT !.tunnel = FALSE]
      BY <1>0, <3>2 DEF TypeOK, Machines
    <3>3. QED
      BY <2>2a, <3>1, <3>2 DEF Outage
  <2>2b. CASE Reboot
    BY <1>0, <2>2b DEF Reboot, TypeOK, Machines
  <2>2c. CASE Spoil \/ Mend
    <3>1. PICK s \in SUBSET Spoilable :
            \/ machine' = [machine EXCEPT !.spoilt = s]
            \/ machine' = [machine EXCEPT !.service = "none", !.serves = NoModel]
      <4>1. CASE Spoil
        <5>1. PICK l \in Spoilable : machine' = [machine EXCEPT !.spoilt = machine.spoilt \cup {l}]
          BY <4>1 DEF Spoil
        <5>2. machine.spoilt \cup {l} \in SUBSET Spoilable
          BY <1>0 DEF TypeOK, Machines
        <5>3. QED
          BY <5>1, <5>2
      <4>2. CASE \E l \in machine.spoilt : machine' = [machine EXCEPT !.spoilt = machine.spoilt \ {l}]
        <5>1. PICK l : machine' = [machine EXCEPT !.spoilt = machine.spoilt \ {l}]
          BY <4>2
        <5>2. machine.spoilt \ {l} \in SUBSET Spoilable
          BY <1>0 DEF TypeOK, Machines
        <5>3. QED
          BY <5>1, <5>2
      <4>3. QED
        BY <2>2c, <4>1, <4>2 DEF Mend
    <3>2. CASE machine' = [machine EXCEPT !.spoilt = s]
      BY <1>0, <3>2 DEF TypeOK, Machines
    <3>3. CASE machine' = [machine EXCEPT !.service = "none", !.serves = NoModel]
      BY <1>0, <3>3 DEF TypeOK, Machines
    <3>4. QED
      BY <3>1, <3>2, <3>3
  <2>3. CASE Touches(Label, machine')
    BY <2>3 DEF Touches
  <2>4. QED
    BY <1>0, <2>1, <2>2a, <2>2b, <2>2c, <2>3, WhatHappens DEF Happened, Outside, TypeOK
<1>3. start' \in Machines /\ want' \in Models \cup {NoModel}
  BY <1>0 DEF TypeOK, Next, Install, EngineStep, StepHead, VerifyErrs, VerifyHolds,
         VerifyLacks, RunSucceeds, RunFails, RollbackSucceeds, RollbackErrs, GiveUp, Killed,
         Outside, Outage, Reboot, Spoil, Mend, Later
<1>4. data' \subseteq Keys
  <2>1. \A l : Yields(l) \subseteq Keys
    BY DEF Yields, Keys
  <2>2. QED
    BY <1>0, <2>1 DEF TypeOK, Next, Install, EngineStep, StepHead, VerifyErrs, VerifyHolds,
         VerifyLacks, RunSucceeds, RunFails, RollbackSucceeds, RollbackErrs, GiveUp, Killed,
         Outside, Outage, Reboot, Spoil, Mend, Later
<1>5. faults' \in 0..MaxFaults
  <2>1. Fault \/ UNCHANGED faults
    BY DEF Next, Install, EngineStep, StepHead, VerifyErrs, VerifyHolds,
         VerifyLacks, RunSucceeds, RunFails, RollbackSucceeds, RollbackErrs, GiveUp, Killed,
         Outside, Outage, Reboot, Spoil, Mend, Later
  <2>2. QED
    BY <1>0, <2>1, WindowsAssumption DEF TypeOK, Fault
<1>6. QED
  BY <1>1, <1>2, <1>3, <1>4, <1>5 DEF TypeOK

\* A registered service keeps its binary and its model: no step takes them away, and
\* those that bring them have run, or were skipped, where the service is installed.
LEMMA FilesKept ==
  ASSUME IInv, Next
  PROVE  ServiceHasItsFiles'
<1>0. TypeOK /\ ServiceHasItsFiles /\ Walked /\ Lacking /\ TurnedBack
  BY DEF IInv
<1>1. CASE machine' = machine
  BY <1>0, <1>1 DEF ServiceHasItsFiles
<1>2. CASE pc = "run" /\ Touches(Label, machine')
  <2>1. cur \in Steps
    BY <1>2, AtStep
  <2>2. CASE machine'.service = machine.service /\ machine'.serves = machine.serves
    BY <1>0, <1>2, <2>2 DEF Touches, ServiceHasItsFiles
  <2>3. CASE machine.service = "none" /\ machine'.serves = want /\ cur = 7
    <3>1. /\ machine.llama \in {"binary", "whole"} /\ want \in Models
          /\ machine.model[want] # "none"
          /\ machine'.llama = machine.llama /\ machine'.model = machine.model
      BY <1>0, <1>2, <2>1, <2>3, PlanFacts DEF Walked, Touches, Label
    <3>2. QED
      BY <2>3, <3>1 DEF ServiceHasItsFiles
  <2>4. QED
    BY <1>2, <2>1, <2>2, <2>3, PlanFacts DEF Touches, Label
<1>3. CASE RollingBack /\ machine' \in {TakenBack(UndoneLabel)} \cup HalfTakenBack(UndoneLabel)
  <2>1. /\ machine'.llama = machine.llama /\ machine'.model = machine.model
        /\ machine'.service # "none" => machine'.serves = machine.serves
        /\ UndoneLabel # "install-llama-service" => machine'.service = machine.service
    BY <1>0, <1>3, AtStep, RollbackTouches DEF TypeOK
  <2>2. UndoneLabel = "install-llama-service" => machine.service # "none"
    BY <1>0, <1>3, AtStep, PlanFacts DEF TurnedBack, RollingBack, Undone, UndoneLabel
  <2>3. QED
    BY <1>0, <2>1, <2>2 DEF ServiceHasItsFiles
<1>4. CASE Outside
  <2>1. /\ machine'.llama = machine.llama /\ machine'.model = machine.model
        /\ machine'.service # "none" =>
             machine.service # "none" /\ machine'.serves = machine.serves
    BY <1>0, <1>4 DEF Outside, Outage, Reboot, Spoil, Mend, TypeOK, Machines
  <2>2. QED
    BY <1>0, <2>1 DEF ServiceHasItsFiles
<1>5. QED
  BY <1>1, <1>2, <1>3, <1>4, WhatHappens DEF Happened

\* While the engine walks forward: a step that is skipped was seen to be done, and one
\* that has run has done it, each with its keys.
LEMMA WalkedKept ==
  ASSUME IInv, Next
  PROVE  Walked'
<1>0. TypeOK /\ Walked /\ Lacking
  BY DEF IInv
<1>1. CASE pc' \notin {"check", "verify", "run", "ok"}
  BY <1>1 DEF Walked
<1>2. CASE Install
  BY <1>2 DEF Install, Launch, Walked, Range
<1>3. CASE StepHead \/ VerifyLacks
  <2>1. /\ UNCHANGED <<cur, completed, machine, data, want, start>>
        /\ pc \in {"check", "verify"}
    BY <1>3 DEF StepHead, Enter, Finish, VerifyLacks, Begin
  <2>2. QED
    BY <1>0, <2>1 DEF Walked
<1>4. CASE VerifyHolds
  <2>1. /\ UNCHANGED <<completed, machine, want, start>> /\ pc = "verify" /\ cur \in 1..9 /\ cur' = cur + 1
        /\ Seen(Plan[cur], machine) /\ data' = data \cup Yields(Plan[cur])
        /\ Plan[cur] = "download-model" => want \in Models
    BY <1>4, AtStep, PlanFacts DEF VerifyHolds, Skip, Label
  <2>2. cur = 7 => 7 \notin Range(completed)
    BY CompletedFacts DEF IInv
  <2>3. QED
    BY <1>0, <2>1, <2>2, PlanFacts DEF Walked, Seen, Yields
<1>5. CASE RunSucceeds
  <2>1. /\ UNCHANGED <<want, start>> /\ pc = "run" /\ cur \in 1..9 /\ cur' = cur + 1
        /\ CanRun(Plan[cur]) /\ machine' \in Ran(Plan[cur]) /\ data' = data \cup Yields(Plan[cur])
        /\ Plan[cur] \in Labels /\ (Plan[cur] = "download-model" => want \in Models)
    BY <1>5, AtStep, PlanFacts DEF RunSucceeds, Complete, Label
  <2>2. Touches(Plan[cur], machine')
    BY <1>0, <2>1, RunTouches DEF TypeOK
  <2>3. /\ cur = 2 => machine'.wireguard
        /\ cur = 3 => machine'.llama = "whole"
        /\ cur = 4 => want \in Models /\ machine'.model[want] # "none"
        /\ cur = 5 => machine'.conf
        /\ cur = 6 => machine'.tunnel
        /\ cur = 7 => machine'.service = "running" /\ machine'.serves = want
        /\ cur = 8 => machine'.rules > 0
    BY <1>0, <2>1, PlanFacts, RunLeaves DEF TypeOK
  <2>4. /\ cur = 3 => "llama_binary" \in data'
        /\ cur = 4 => "model_path" \in data'
        /\ cur = 5 => "join_token" \in data'
        /\ data \subseteq data'
    BY <2>1, PlanFacts DEF Yields
  <2>5. Range(completed') = Range(completed) \cup {cur}
    BY <1>0, <1>5, <2>1, AppendFacts, PlanFacts DEF RunSucceeds, Complete, TypeOK, EngineTypeOK
  <2>6. QED
    BY <1>0, <2>1, <2>2, <2>3, <2>4, <2>5, PlanFacts DEF Walked, Touches
<1>6. QED
  BY <1>1, <1>2, <1>3, <1>4, <1>5 DEF Next, EngineStep, VerifyErrs, VerifyFails, BeginRollback,
     RunFails, Fail, RollbackSucceeds, Undo, RollbackErrs, UndoFails, RollingBack, GiveUp,
     ReturnCause, Killed, Crash, Outside, Outage, Reboot, Spoil, Mend, Later

\* A step runs when it was found lacking.
LEMMA LackingKept ==
  ASSUME IInv, Next
  PROVE  Lacking'
<1>1. CASE pc' # "run"
  BY <1>1 DEF Lacking
<1>2. CASE pc' = "run"
  <2>1. VerifyLacks
    BY <1>2 DEF Next, Install, Launch, EngineStep, StepHead, Enter, Finish, VerifyErrs,
       VerifyFails, VerifyHolds, Skip, RunSucceeds, Complete, RunFails, Fail, BeginRollback,
       RollbackSucceeds, Undo, RollbackErrs, UndoFails, RollingBack, GiveUp, ReturnCause,
       Killed, Crash, Outside, Outage, Reboot, Spoil, Mend, Later
  <2>2. UNCHANGED <<cur, machine, want>> /\ cur \in Steps
    BY <2>1, AtStep DEF VerifyLacks, Begin
  <2>3. QED
    BY <2>1, <2>2, PlanFacts DEF VerifyLacks, Lacking, Label, Seen
<1>3. QED
  BY <1>1, <1>2

\* While a run goes on nothing that it found is taken away, by its end either.
LEMMA NothingTaken ==
  ASSUME IInv, Next, pc \in Active
  PROVE  StillThere' /\ start' = start
<1>0. TypeOK /\ Walked /\ Lacking /\ TurnedBack
  BY DEF IInv
<1>1. pc # "idle" /\ StillThere /\ FoundNothing /\ start' = start
  <2>1. pc # "idle" /\ start' = start
    BY DEF Next, Install, Launch, EngineStep, StepHead, VerifyErrs, VerifyHolds, VerifyLacks,
       RunSucceeds, RunFails, RollbackSucceeds, RollbackErrs, GiveUp, Killed, Active, Outside, Outage,
       Reboot, Spoil, Mend, Later
  <2>2. QED
    BY <2>1 DEF IInv
<1>2. CASE machine' = machine
  BY <1>1, <1>2 DEF StillThere
<1>3. CASE pc = "run" /\ Touches(Label, machine')
  BY <1>1, <1>3 DEF Touches, StillThere
<1>4. CASE RollingBack
             /\ machine' \in {TakenBack(UndoneLabel)} \cup HalfTakenBack(UndoneLabel)
  <2>1. /\ machine'.wireguard = machine.wireguard /\ machine'.llama = machine.llama
        /\ Undone # 6 => machine'.tunnel = machine.tunnel
        /\ Undone # 7 => machine'.service = machine.service /\ machine'.serves = machine.serves
        /\ Undone # 8 => machine'.rules = machine.rules
    BY <1>0, <1>4, AtStep, PlanFacts, RollbackTouches DEF TypeOK, UndoneLabel
  <2>2. /\ Undone # 8
        /\ Undone = 6 => ~start.tunnel
        /\ Undone = 7 => start.service = "none"
    BY <1>0, <1>1, <1>4, AtStep DEF FoundNothing, TypeOK, EngineTypeOK
  <2>3. QED
    BY <1>1, <2>1, <2>2 DEF StillThere
<1>5. QED
  BY <1>2, <1>3, <1>4, WhatHappens DEF Happened, Outside, Outage, Reboot, Spoil, Mend, Later

\* What the run found stays, and what it completed was not there.
LEMMA StillThereKept ==
  ASSUME IInv, Next, pc' # "idle"
  PROVE  StillThere' /\ FoundNothing'
<1>0. TypeOK /\ Walked /\ Lacking /\ TurnedBack
  BY DEF IInv
<1>1. CASE Install
  BY <1>1 DEF Install, Launch, StillThere, FoundNothing, Range
<1>2. CASE ~Install
  <2>1. pc \in Active /\ pc # "idle"
    BY <1>2 DEF Next, EngineStep, StepHead, Enter, Finish, VerifyErrs, VerifyFails,
       VerifyHolds, Skip, VerifyLacks, Begin, RunSucceeds, Complete, RunFails, Fail,
       RollbackSucceeds, Undo, RollbackErrs, UndoFails, RollingBack, GiveUp, ReturnCause,
       Killed, Crash, Active, Outside, Outage, Reboot, Spoil, Mend, Later
  <2>2. StillThere' /\ StillThere /\ FoundNothing /\ start' = start
    BY <2>1, NothingTaken DEF IInv
  <2>3. FoundNothing'
    <3>1. CASE completed' = completed
      BY <2>2, <3>1 DEF FoundNothing
    <3>2. CASE RunSucceeds
      <4>1. /\ pc = "run" /\ cur \in Steps /\ completed' = Append(completed, cur)
            /\ CanRun(Label)
        BY <3>2, AtStep DEF RunSucceeds, Complete
      <4>2. Range(completed') = Range(completed) \cup {cur}
        BY <1>0, <4>1, AppendFacts DEF TypeOK, EngineTypeOK
      <4>3. cur = 6 => ~machine.tunnel
        BY <4>1, PlanFacts DEF CanRun, Label
      <4>4. cur = 7 => machine.service = "none" /\ start.service = machine.service
        BY <1>0, <4>1, PlanFacts, CompletedFacts DEF CanRun, Label, Walked, IInv
      <4>5. QED
        BY <2>2, <4>2, <4>3, <4>4 DEF FoundNothing, StillThere
    <3>3. QED
      BY <1>2, <3>1, <3>2 DEF Next, EngineStep, StepHead, Enter, Finish, VerifyErrs,
         VerifyFails, BeginRollback, VerifyHolds, Skip, VerifyLacks, Begin, RunFails, Fail,
         RollbackSucceeds, Undo, RollbackErrs, UndoFails, GiveUp, ReturnCause,
         Killed, Crash, Outside, Outage, Reboot, Spoil, Mend, Later
  <2>4. QED
    BY <2>2, <2>3
<1>3. QED
  BY <1>1, <1>2

\* Turning back, and undoing step by step.
LEMMA TurnedBackKept ==
  ASSUME IInv, Next
  PROVE  TurnedBack'
<1>0. /\ TypeOK /\ Walked /\ Lacking /\ TurnedBack /\ EngineInv /\ EngineInv'
      /\ pc # "idle" => StillThere /\ FoundNothing
  BY EngineMoves DEF IInv
<1>1. CASE pc' \notin {"rollback", "failed"}
  BY <1>1 DEF TurnedBack
<1>2. CASE VerifyErrs \/ RunFails
  <2>1. /\ pc \in {"verify", "run"} /\ pc' = "rollback" /\ cur \in Steps /\ cur' = cur
        /\ back' = Len(completed) /\ completed' = completed /\ start' = start
        /\ status' = [status EXCEPT ![cur] = "failed"]
    BY <1>2, AtStep DEF VerifyErrs, VerifyFails, RunFails, Fail, BeginRollback, Report
  <2>2. cur <= 8
    BY <1>2, <2>1, PlanFacts DEF VerifyErrs, RunFails, Label
  <2>3. /\ machine'.tunnel = machine.tunnel /\ machine'.rules = machine.rules
        /\ \/ machine'.service = machine.service
           \/ machine'.service = "stopped"
        /\ cur # 7 => machine'.service = machine.service
    <3>1. CASE machine' = machine
      BY <3>1
    <3>2. CASE pc = "run" /\ machine' \in HalfRan(Label)
      <4>1. Touches(Label, machine')
        BY <1>0, <3>2, AtStep, RunTouches DEF TypeOK
      <4>2. QED
        BY <1>0, <2>1, <3>2, <4>1, AtStep, HalfRunLeaves, PlanFacts DEF TypeOK, Touches, Label
    <3>3. QED
      BY <1>2, <3>1, <3>2 DEF VerifyErrs, RunFails, Fail
  <2>4. \A j \in Range(completed) : j \in Steps /\ j < cur /\ status'[j] = "done"
    <3>1. \A j \in Range(completed) : j \in Steps /\ j < cur
      BY <1>0, CompletedFacts
    <3>2. QED
      BY <1>0, <2>1, <3>1 DEF EngineInv, EngineTypeOK, Accounted
  <2>5. machine.tunnel /\ ~start.tunnel => status'[6] = "done"
    BY <1>0, <2>1, <2>4 DEF Walked
  <2>6. machine.service = "running" /\ start.service # "running" => status'[7] = "done"
    BY <1>0, <2>1, <2>4 DEF Walked
  <2>7. \A k \in 1..back' : completed[k] = 7 => machine'.service # "none"
    <3>1. ASSUME NEW k \in 1..back', completed[k] = 7 PROVE cur > 7
      BY <1>0, <2>1, <3>1, CompletedFacts
    <3>2. QED
      BY <1>0, <2>1, <2>3, <3>1 DEF Walked
  <2>8. machine'.rules = start.rules
    BY <1>0, <2>1, <2>2, <2>3 DEF Walked
  <2>9. QED
    BY <2>1, <2>2, <2>3, <2>5, <2>6, <2>7, <2>8 DEF TurnedBack
<1>3. CASE RollbackSucceeds \/ RollbackErrs
  <2>1. /\ RollingBack /\ pc = "rollback" /\ back' = back - 1 /\ back \in 1..Len(completed)
        /\ UNCHANGED <<cur, completed, start>>
        /\ machine' \in {TakenBack(UndoneLabel)} \cup HalfTakenBack(UndoneLabel)
        /\ \/ status' = status
           \/ /\ status' = [status EXCEPT ![Undone] = "rolled-back"]
              /\ machine' = TakenBack(UndoneLabel)
    BY <1>3, AtStep DEF RollbackSucceeds, Undo, RollbackErrs, UndoFails, RollingBack
  <2>2. /\ Undone # 6 => machine'.tunnel = machine.tunnel
        /\ Undone # 7 => machine'.service = machine.service
        /\ Undone # 8 => machine'.rules = machine.rules
        /\ machine'.tunnel => machine.tunnel
        /\ machine'.service = "running" => machine.service = "running"
        /\ machine' = TakenBack(UndoneLabel) =>
             /\ Undone = 6 => ~machine'.tunnel
             /\ Undone = 7 => machine'.service = "none"
    BY <1>0, <2>1, AtStep, PlanFacts, RollbackTouches DEF TypeOK, UndoneLabel
  <2>3. Undone # 8 /\ Undone \in Steps
    BY <1>0, <2>1, AtStep DEF TypeOK, EngineTypeOK
  <2>4. \A k \in 1..back' : completed[k] # Undone
    BY <1>0, <2>1, CompletedFacts DEF Undone
  <2>5. /\ Undone # 6 => status'[6] = status[6]
        /\ Undone # 7 => status'[7] = status[7]
    BY <1>0, <2>1, <2>3, PlanFacts DEF TypeOK, EngineTypeOK
  <2>6. machine'.tunnel /\ ~start.tunnel => status'[6] = "done"
    BY <1>0, <2>1, <2>2, <2>5 DEF TurnedBack
  <2>7. machine'.service = "running" /\ start.service # "running" => status'[7] = "done"
    BY <1>0, <2>1, <2>2, <2>5 DEF TurnedBack
  <2>8. \A k \in 1..back' : completed[k] = 7 => machine'.service # "none"
    BY <1>0, <2>1, <2>2, <2>4 DEF TurnedBack
  <2>9. QED
    BY <1>0, <2>1, <2>2, <2>3, <2>6, <2>7, <2>8 DEF TurnedBack
<1>4. CASE GiveUp
  BY <1>0, <1>4 DEF GiveUp, ReturnCause, TurnedBack
<1>5. QED
  BY <1>1, <1>2, <1>3, <1>4 DEF Next, Install, Launch, EngineStep, StepHead, Enter,
     Finish, VerifyHolds, Skip, VerifyLacks, Begin, RunSucceeds, Complete, Killed, Crash,
     Outside, Outage, Reboot, Spoil, Mend, Later

-----------------------------------------------------------------------------
(* The theorems.                                                           *)

\* The machine is fresh, but that WireGuard may be there.
LEMMA InitIInv == Init => IInv
<1> SUFFICES ASSUME Init PROVE IInv
  OBVIOUS
<1>1. EngineInv /\ EngineTypeOK /\ pc = "idle"
  BY EngineInits DEF Init, EngineInit, EngineInv
<1>2. machine \in Machines /\ start = machine /\ machine.service = "none"
  <2>1. Fresh \in Machines /\ Fresh.service = "none"
    BY WindowsAssumption DEF Fresh, Machines
  <2>2. [Fresh EXCEPT !.wireguard = TRUE] \in Machines
    BY <2>1 DEF Machines
  <2>3. [Fresh EXCEPT !.wireguard = TRUE].service = "none"
    BY DEF Fresh
  <2>4. QED
    BY <2>1, <2>2, <2>3 DEF Init
<1>3. TypeOK
  BY <1>1, <1>2, WindowsAssumption DEF Init, TypeOK
<1>4. Walked /\ Lacking /\ TurnedBack /\ ServiceHasItsFiles
  BY <1>1, <1>2 DEF Walked, Lacking, TurnedBack, ServiceHasItsFiles
<1>5. QED
  BY <1>1, <1>3, <1>4 DEF IInv

\* No step, of the engine or of what happens between two runs, falsifies it.
LEMMA NextKeepsIInv == IInv /\ [Next]_vars => IInv'
<1> SUFFICES ASSUME IInv, [Next]_vars PROVE IInv'
  OBVIOUS
<1>1. CASE Next
  <2>1. EngineInv'
    BY EngineMoves
  <2>2. pc' # "idle" => StillThere' /\ FoundNothing'
    BY <1>1, StillThereKept
  <2>3. TypeOK' /\ Walked' /\ Lacking' /\ TurnedBack' /\ ServiceHasItsFiles'
    BY <1>1, TypeKept, WalkedKept, LackingKept, TurnedBackKept, FilesKept
  <2>4. QED
    BY <2>1, <2>2, <2>3 DEF IInv
<1>2. CASE UNCHANGED vars
  <2>1. EngineInv'
    BY EngineMoves
  <2>2. TypeOK'
    BY <1>2, <2>1 DEF vars, IInv, TypeOK, EngineInv
  <2>3. Walked' /\ TurnedBack' /\ ServiceHasItsFiles'
    BY <1>2 DEF vars, evars, IInv, Walked, TurnedBack, ServiceHasItsFiles
  <2>4. Lacking'
    BY <1>2 DEF vars, evars, IInv, Lacking, Label, Seen
  <2>5. pc' # "idle" => StillThere' /\ FoundNothing'
    BY <1>2 DEF vars, evars, IInv, StillThere, FoundNothing
  <2>6. QED
    BY <2>1, <2>2, <2>3, <2>4, <2>5 DEF IInv
<1>3. QED
  BY <1>1, <1>2

\* IInv holds in every state the machine and its runs reach.
THEOREM Inductive == Spec => []IInv
<1>1. QED
  BY InitIInv, NextKeepsIInv, PTL DEF Spec

\* The variables keep their types.
THEOREM TypeCorrect == Spec => []TypeOK
<1>1. IInv => TypeOK
  BY DEF IInv
<1>2. QED
  BY <1>1, Inductive, PTL

\* A step that reads a key of State.data finds it set, whether the step that sets it
\* ran or was skipped.
THEOREM KeysFound == Spec => []ConsumersFindTheirKeys
<1>1. IInv => ConsumersFindTheirKeys
  <2> SUFFICES ASSUME IInv, pc = "run"
               PROVE  /\ Label = "install-llama-service" => {"llama_binary", "model_path"} \subseteq data
                      /\ Label = "report"                => "join_token" \in data
    BY DEF ConsumersFindTheirKeys
  <2>1. (Label = "install-llama-service" => cur = 7) /\ (Label = "report" => cur = 9)
    BY AtStep, PlanFacts DEF Label
  <2>2. QED
    BY <2>1 DEF IInv, Walked
<1>2. QED
  BY <1>1, Inductive, PTL

\* A registered service has a server binary and its model file, over any sequence of
\* failed, killed and repeated runs.
THEOREM FilesThere == Spec => []ServiceHasItsFiles
<1>1. IInv => ServiceHasItsFiles
  BY DEF IInv
<1>2. QED
  BY <1>1, Inductive, PTL

\* An install that returns nil leaves the server reachable and serving the model asked
\* for, or the one it was serving.
THEOREM ServesOnSuccess == Spec => []SuccessServes
<1>1. IInv => SuccessServes
  <2>1. IInv /\ pc = "ok" => cur = 10
    BY PlanFacts DEF IInv, EngineInv, Ahead
  <2>2. QED
    BY <2>1 DEF IInv, Walked, SuccessServes
<1>2. QED
  BY <1>1, Inductive, PTL

\* An install that fails, at any step, takes no server down that was up.
THEOREM KeepsServing == Spec => []FailureKeepsServing
<1>1. IInv => FailureKeepsServing
  BY DEF IInv, StillThere, FailureKeepsServing
<1>2. QED
  BY <1>1, Inductive, PTL

\* What Verify sees of what the run found is not gone.
LEMMA SeenStays ==
  ASSUME StillThere, NEW l \in Visible, Seen(l, start)
  PROVE  Seen(l, machine)
BY DEF StillThere, Seen, Visible, HasRollback

\* The server's install implements AtomicInstall: while nothing outside it touches the
\* machine a run commits all of its work, or is undone, and loses nothing.
THEOREM Refines == Spec => ImplementsAtomicInstall
<1>1. Init => Atomic!Init
  BY DEF Init, EngineInit, Atomic!Init, Active, SeenIn
<1>2. ASSUME IInv, IInv', [Next]_vars
      PROVE  [Outside \/ Atomic!Next]_(Atomic!avars)
  <2> USE DEF Active
  <2>1. CASE Install
    <3>1. Atomic!Begin
      BY <1>2, <2>1
         DEF Install, Launch, Atomic!Begin, IInv, TypeOK, EngineTypeOK, Phases, SeenIn, Seen,
             Visible, HasRollback
    <3>2. QED
      BY <3>1 DEF Atomic!Next
  <2>2. CASE StepHead /\ Finish
    <3>1. pc' = "ok" /\ cur' = 10
      BY <1>2, <2>2, PlanFacts DEF Finish, IInv, EngineInv, Ahead
    <3>2. \A l \in Visible : Seen(l, machine)'
      BY <1>2, <3>1 DEF IInv, Walked, Seen, Visible, HasRollback
    <3>3. Atomic!Commit
      BY <2>2, <3>1, <3>2 DEF Finish, Atomic!Commit, SeenIn
    <3>4. QED
      BY <3>3 DEF Atomic!Next
  <2>3. CASE GiveUp
    <3>1. /\ pc = "rollback" /\ pc' = "failed" /\ pc # "idle"
          /\ UNCHANGED <<machine, start, want, status>>
      BY <2>3 DEF GiveUp, ReturnCause
    <3>2. \A l \in Visible : Seen(l, start) => Seen(l, machine)
      BY <1>2, <3>1, SeenStays DEF IInv
    <3>3. \A l \in HasRollback : Seen(l, machine) /\ ~Seen(l, start) =>
            \E j \in Steps : l = Plan[j] /\ status[j] = "done"
      <4>1. ASSUME Seen("wireguard-tunnel-up", machine), ~Seen("wireguard-tunnel-up", start)
            PROVE  Plan[6] = "wireguard-tunnel-up" /\ status[6] = "done"
        BY <1>2, <3>1, <4>1, PlanFacts DEF IInv, TurnedBack, Seen
      <4>2. ASSUME Seen("install-llama-service", machine), ~Seen("install-llama-service", start)
            PROVE  Plan[7] = "install-llama-service" /\ status[7] = "done"
        BY <1>2, <3>1, <4>2, PlanFacts DEF IInv, TurnedBack, Seen
      <4>3. Seen("configure-firewall", machine) => Seen("configure-firewall", start)
        BY <1>2, <3>1 DEF IInv, TurnedBack, Seen
      <4>4. QED
        BY <4>1, <4>2, <4>3, PlanFacts DEF HasRollback
    <3>4. \A l \in Visible : Seen(l, machine)' <=> Seen(l, machine)
      BY <3>1 DEF Seen
    <3>5. Atomic!Abort
      BY <3>1, <3>2, <3>3, <3>4 DEF Atomic!Abort, SeenIn, Visible
    <3>6. QED
      BY <3>5 DEF Atomic!Next
  <2>4. CASE Killed
    <3>1. StillThere' /\ start' = start /\ pc \in Active /\ pc' = "idle"
      BY <1>2, <2>4, NothingTaken DEF Next, Killed, Crash
    <3>2. \A l \in Visible : Seen(l, start) => Seen(l, machine)'
      BY <3>1 DEF StillThere, Seen, Visible, HasRollback
    <3>3. Atomic!Die
      BY <3>1, <3>2 DEF Atomic!Die, SeenIn
    <3>4. QED
      BY <3>3 DEF Atomic!Next
  <2>5. CASE UNCHANGED vars
    BY <2>5 DEF vars, evars, Atomic!avars, SeenIn, Seen
  <2>6. CASE EngineStep /\ ~(StepHead /\ Finish) /\ ~GiveUp
    <3>1. pc \in Active /\ pc' \in Active /\ start' = start
      BY <2>6
         DEF EngineStep, StepHead, Enter, BeginRollback, VerifyErrs, VerifyFails, VerifyHolds,
             Skip, VerifyLacks, Begin, RunSucceeds, Complete, RunFails, Fail,
             RollbackSucceeds, RollbackErrs, Undo, UndoFails, RollingBack
    <3>2. \A l \in Visible : Seen(l, start)' <=> Seen(l, start)
      BY <3>1 DEF Seen, Visible, HasRollback
    <3>3. QED
      BY <3>1, <3>2 DEF Atomic!avars, SeenIn
  <2>7. QED
    BY <1>2, <2>1, <2>2, <2>3, <2>4, <2>5, <2>6 DEF Next
<1>3. QED
  BY <1>1, <1>2, Inductive, PTL DEF Spec, ImplementsAtomicInstall
=============================================================================
