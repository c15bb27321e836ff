------------------------ MODULE ServerPrograms_proof ------------------------
(***************************************************************************)
(* Proofs about ServerPrograms, for any releases, any archive, any         *)
(* optional settings of the service and any number of faults: called one   *)
(* file or one command at a time, acquire-llama and install-llama-service  *)
(* keep the contract of InstallerPlan's steps.                             *)
(***************************************************************************)
EXTENDS ServerPrograms, WellFoundedInduction, TLAPS

-----------------------------------------------------------------------------
(* The inductive invariant.                                                *)

\* The calls of a Run of each step, and of the service's Rollback.
Acquiring  == {"fetch", "open", "truncate", "write", "scan"}
Installing == {"install", "set", "start"}
Removing   == {"stop", "remove"}

\* A call belongs to the step the engine is at; the service is not touched while it
\* runs but to remove it.
CallOfStep ==
  /\ at \in Acquiring  => pc = "run" /\ cur = Acquire
  /\ at \in Installing => pc = "run" /\ cur = Service /\ svc.is # "running"
  /\ at \in Removing   => RollingBack /\ Undone = Service

\* What a Run or Rollback under way found of the other steps' work is still so.
OthersHeld ==
  /\ at \in Acquiring => held[Service] = Holds[Service] /\ held[Rule] = Holds[Rule]
  /\ at \in Installing \cup Removing =>
       held[Acquire] = Holds[Acquire] /\ held[Rule] = Holds[Rule]

\* The entries before the one that Unzip is at are whole, and of the release.
Unpacked ==
  /\ at \in {"truncate", "write", "scan"} => Opens(want)
  /\ at \in {"truncate", "write"} =>
       /\ entry \in 1..(Len(Name) + 1)
       /\ \A e \in 1..(entry - 1) : dir[e] = want
  /\ at = "write" => entry \in Entries
  /\ at = "scan" => \A e \in Entries : dir[e] = want

\* The settings before the one that Install is at are set; and a service that this
\* run completed and that runs has them all.
SetUp ==
  /\ at = "set" =>
       svc.is = "stopped" /\ entry \in 1..(Len(Settings) + 1) /\ svc.set = entry - 1
  /\ at = "start" => svc.is = "stopped" /\ svc.set = Len(Settings)
  /\ pc \in Active /\ Service \in Range(completed) /\ svc.is = "running" =>
       svc.set = Len(Settings)

IInv ==
  /\ TypeOK /\ EngineInv /\ ~cancelled
  /\ CallOfStep /\ OthersHeld /\ Unpacked /\ SetUp

-----------------------------------------------------------------------------
(* What InstallerPlan_proof shows of the engine holds of it here.  Its     *)
(* lemmas say nothing of the plan or the machine, so what stands for them  *)
(* is immaterial.                                                          *)
Engine == INSTANCE InstallerPlan_proof WITH
  Checked <- {}, Reversible <- {}, Honest <- {}, world <- World

\* The instance's assumption holds of it.
LEMMA EngineAssumption ==
  {} \subseteq Engine!Steps /\ MaxFaults \in Nat
BY ProgramsAssumption

\* EngineInv there is EngineInv here.
LEMMA SameInv == EngineInv <=> Engine!EngineInv
BY DEF EngineInv, EngineTypeOK, Accounted, Ahead, Behind, Steps, Phases, StepStatus, Range,
       Engine!Range, Engine!EngineInv, Engine!EngineTypeOK, Engine!Accounted, Engine!Ahead,
       Engine!Behind, Engine!Steps, Engine!Phases, Engine!StepStatus

\* Before the first run nothing is reported or completed.
LEMMA EngineInits == EngineInit => EngineInv
BY Engine!EngineInits, EngineAssumption, NAssumption, SameInv
   DEF EngineInit, Steps, Engine!EngineInit, Engine!Steps

\* The steps completed are told apart by their places in completed, and are all
\* behind the loop.
LEMMA CompletedFacts ==
  ASSUME EngineInv
  PROVE  /\ Len(completed) \in Nat /\ DOMAIN completed = 1..Len(completed)
         /\ \A k \in 1..Len(completed) : completed[k] \in Steps /\ completed[k] < cur
         /\ \A k, l \in 1..Len(completed) : k # l => completed[k] # completed[l]
         /\ \A j \in Range(completed) : j \in Steps /\ j < cur
BY Engine!CompletedFacts, EngineAssumption, NAssumption, SameInv DEF Steps, Engine!Steps,
   Range, Engine!Range

\* Nothing the engine does, or that is done to it, falsifies EngineInv.
LEMMA EngineKept ==
  ASSUME EngineInv, EngineActs \/ UNCHANGED evars
  PROVE  EngineInv'
<1>1. EngineActs <=> Engine!EngineActs
  <2> USE DEF Active, Steps, Report, BeginRollback, RollingBack, Undone, evars,
              Engine!Active, Engine!Steps, Engine!Report, Engine!BeginRollback,
              Engine!RollingBack, Engine!Undone
  <2>1. /\ Launch <=> Engine!Launch
        /\ Cancel <=> Engine!Cancel
        /\ Crash <=> Engine!Crash
        /\ Drift <=> Engine!Drift
        /\ Enter <=> Engine!Enter
        /\ Interrupted <=> Engine!Interrupted
    BY DEF Launch, Cancel, Crash, Drift, Enter, Interrupted, Engine!Launch, Engine!Cancel,
           Engine!Crash, Engine!Drift, Engine!Enter, Engine!Interrupted
  <2>2. /\ Finish <=> Engine!Finish
        /\ VerifyFails <=> Engine!VerifyFails
        /\ Skip <=> Engine!Skip
        /\ Begin <=> Engine!Begin
        /\ Fail <=> Engine!Fail
        /\ Complete <=> Engine!Complete
    BY DEF Finish, VerifyFails, Skip, Begin, Fail, Complete, Engine!Finish,
           Engine!VerifyFails, Engine!Skip, Engine!Begin, Engine!Fail, Engine!Complete
  <2>3. /\ Undo <=> Engine!Undo
        /\ UndoFails <=> Engine!UndoFails
        /\ ReturnCause <=> Engine!ReturnCause
    BY DEF Undo, UndoFails, ReturnCause, Engine!Undo, Engine!UndoFails, Engine!ReturnCause
  <2>4. QED
    BY <2>1, <2>2, <2>3 DEF EngineActs, Engine!EngineActs
<1>2. UNCHANGED evars => UNCHANGED Engine!evars
  BY DEF evars, Engine!evars
<1>3. Engine!EngineInv'
  BY <1>1, <1>2, SameInv, EngineAssumption, NAssumption, Engine!EngineKept
<1>4. QED
  BY <1>3, SameInv DEF EngineInv, EngineTypeOK, Accounted, Ahead, Behind, Steps, Phases,
       StepStatus, Range, Engine!Range, Engine!EngineInv, Engine!EngineTypeOK, Engine!Accounted, Engine!Ahead,
       Engine!Behind, Engine!Steps, Engine!Phases, Engine!StepStatus

\* What Append does to completed.
LEMMA AppendFacts ==
  ASSUME NEW S, NEW s \in Seq(S), NEW e \in S
  PROVE  /\ Append(s, e) \in Seq(S)
         /\ Len(Append(s, e)) = Len(s) + 1
         /\ DOMAIN Append(s, e) = 1..(Len(s) + 1)
         /\ \A k \in 1..Len(s) : Append(s, e)[k] = s[k]
         /\ Append(s, e)[Len(s) + 1] = e
         /\ Range(Append(s, e)) = Range(s) \cup {e}
BY Engine!AppendFacts DEF Range, Engine!Range

-----------------------------------------------------------------------------
(* The operators the model is built from.                                  *)

\* A sequence of one element.
LEMMA Singleton ==
  ASSUME NEW S, NEW x \in S
  PROVE  <<x>> \in Seq(S)
<1>1. QED
  OBVIOUS

\* The plan has three steps, the archive's entries are numbered, and so are the
\* settings.
LEMMA Numbers ==
  /\ N = 3 /\ Steps = 1..3 /\ Acquire \in Steps /\ Service \in Steps /\ Rule \in Steps
  /\ Len(Name) \in Nat /\ Entries = 1..Len(Name)
  /\ Len(Settings) \in Nat /\ DOMAIN Settings = 1..Len(Settings)
<1>1. N = 3 /\ Steps = 1..3
  BY ProgramsAssumption DEF Steps
<1>2. Acquire \in 1..3 /\ Service \in 1..3 /\ Rule \in 1..3
  BY DEF Acquire, Service, Rule
<1>3. Len(Name) \in Nat /\ Entries = 1..Len(Name)
  BY AcquireAssumption DEF Entries
<1>4. Len(Settings) \in Nat /\ DOMAIN Settings = 1..Len(Settings)
  <2> DEFINE Keys == {"DisplayName", "AppDirectory", "AppStdout", "AppStderr",
                      "AppEnvironmentExtra", "Start"}
             If(key) == IF key \in Fields THEN <<key>> ELSE <<>>
             last == <<"Start">>
  <2>1. ASSUME NEW key \in Keys PROVE If(key) \in Seq(Keys) /\ <<key>> \in Seq(Keys)
    <3> HIDE DEF Keys
    <3>1. <<key>> \in Seq(Keys) /\ <<>> \in Seq(Keys)
      BY Singleton
    <3>2. QED
      BY <3>1
  <2>2. /\ If("DisplayName") \in Seq(Keys) /\ If("AppDirectory") \in Seq(Keys)
        /\ If("AppStdout") \in Seq(Keys) /\ If("AppStderr") \in Seq(Keys)
        /\ If("AppEnvironmentExtra") \in Seq(Keys) /\ last \in Seq(Keys)
    BY <2>1
  <2>3. Settings = If("DisplayName") \o If("AppDirectory") \o If("AppStdout") \o If("AppStderr")
                     \o If("AppEnvironmentExtra") \o last
    BY DEF Settings
  <2> HIDE DEF Keys, If, last
  <2>4. If("DisplayName") \o If("AppDirectory") \o If("AppStdout") \in Seq(Keys)
    BY <2>2
  <2>5. If("DisplayName") \o If("AppDirectory") \o If("AppStdout") \o If("AppStderr")
          \o If("AppEnvironmentExtra") \in Seq(Keys)
    BY <2>2, <2>4
  <2>6. Settings \in Seq(Keys)
    BY <2>2, <2>3, <2>5
  <2>7. QED
    BY <2>6
<1>5. QED
  BY <1>1, <1>2, <1>3, <1>4

\* A set of naturals that is not empty has a least element.
LEMMA LeastOf ==
  ASSUME NEW T, T \subseteq Nat, T # {}
  PROVE  \E x \in T : \A y \in T : x <= y
<1>1. PICK x \in T : \A y \in T : ~(<<y, x>> \in OpToRel(<, Nat))
  BY NatLessThanWellFounded, WFMin
<1>2. ASSUME NEW y \in T PROVE x <= y
  <2>1. x \in Nat /\ y \in Nat
    OBVIOUS
  <2>2. <<y, x>> \in Nat \X Nat /\ <<y, x>>[1] = y /\ <<y, x>>[2] = x
    BY <2>1
  <2>3. ~(y < x)
    BY <2>2, <1>1 DEF OpToRel
  <2>4. QED
    BY <2>1, <2>3
<1>3. QED
  BY <1>2

\* What FindServerBinary looks at: a binary may be whole or torn.
Binaries == {e \in Entries : dir[e] # "none" /\ Name[e] \in DOMAIN serverBinaryRank}

\* It finds one if there is one.
LEMMA Finds ==
  /\ FindServerBinary \in Binaries \cup {Nowhere}
  /\ FindServerBinary = Nowhere <=> Binaries = {}
<1> DEFINE Rank(e) == serverBinaryRank[Name[e]]
           Before(e, f) == Rank(e) < Rank(f) \/ (Rank(e) = Rank(f) /\ e <= f)
           R == {Rank(e) : e \in Binaries}
<1>1. Binaries \subseteq Nat \ {0}
  BY Numbers DEF Binaries
<1>2. \A e \in Binaries : Rank(e) \in Nat
  BY DEF Binaries, serverBinaryRank
<1>3. ASSUME Binaries # {}
      PROVE  \E e \in Binaries : \A f \in Binaries : Before(e, f)
  <2>1. PICK r \in R : \A q \in R : r <= q
    <3>1. R \subseteq Nat /\ R # {}
      BY <1>2, <1>3
    <3> HIDE DEF R
    <3>2. QED
      BY <3>1, LeastOf
  <2> DEFINE B == {e \in Binaries : Rank(e) = r}
  <2>2. PICK e \in B : \A f \in B : e <= f
    <3>1. B \subseteq Nat /\ B # {}
      BY <1>1, <2>1
    <3> HIDE DEF B
    <3>2. QED
      BY <3>1, LeastOf
  <2>3. ASSUME NEW f \in Binaries PROVE Before(e, f)
    <3>1. Rank(e) = r /\ r <= Rank(f) /\ r \in Nat /\ Rank(f) \in Nat
      BY <1>2, <2>1, <2>2
    <3>2. Rank(f) = r => e <= f
      BY <2>2
    <3> HIDE DEF Rank
    <3>3. QED
      BY <3>1, <3>2
  <2>4. QED
    BY <2>2, <2>3
<1>4. FindServerBinary = IF Binaries = {} THEN Nowhere
                         ELSE CHOOSE e \in Binaries : \A f \in Binaries : Before(e, f)
  BY DEF FindServerBinary, Binaries
<1> HIDE DEF Before
<1>5. QED
  BY <1>1, <1>3, <1>4 DEF Nowhere


\* What the machine holds of each step's work, in InstallerPlan's words, and what
\* Verify makes of it.
Work == {"absent", "partial", "decoy", "present"}
WorkSound ==
  /\ Holds \in [Steps -> Work]
  /\ Holds[Acquire] \in {"present", "decoy"} <=> FindServerBinary # Nowhere
  /\ (\A e \in Entries : dir[e] = want) /\ Binaries # {} => Holds[Acquire] = "present"
  /\ svc.is # "running" => Holds[Service] \in {"absent", "partial"}
  /\ ~Registered => Holds[Service] = "absent"
  /\ svc.is = "running" =>
       Holds[Service] = IF svc.set = Len(Settings) THEN "present" ELSE "decoy"
  /\ Holds[Rule] = IF fw THEN "present" ELSE "absent"

\* All of it is so wherever the variables have their types.
LEMMA WorkFacts == TypeOK => WorkSound
<1> SUFFICES ASSUME TypeOK PROVE WorkSound
  OBVIOUS
<1>1. /\ Holds = [j \in Steps |-> Holds[j]]
      /\ Holds[Acquire] = AcquireWork /\ Holds[Service] = ServiceWork
      /\ Holds[Rule] = IF fw THEN "present" ELSE "absent"
      /\ \A j \in Steps : j \in {Acquire, Service, Rule}
  BY Numbers DEF Holds, Acquire, Service, Rule
<1>2. /\ AcquireWork \in Work
      /\ AcquireWork \in {"present", "decoy"} <=> FindServerBinary # Nowhere
      /\ (\A e \in Entries : dir[e] = want) /\ Binaries # {} => AcquireWork = "present"
  BY Finds DEF AcquireWork, Work
<1>3. /\ ServiceWork \in Work
      /\ svc.is # "running" => ServiceWork \in {"absent", "partial"}
      /\ ~Registered => ServiceWork = "absent"
      /\ svc.is = "running" =>
           ServiceWork = IF svc.set = Len(Settings) THEN "present" ELSE "decoy"
  BY DEF ServiceWork, Registered, Work
<1>4. Holds \in [Steps -> Work]
  <2>1. \A j \in Steps : Holds[j] \in Work
    BY <1>1, <1>2, <1>3 DEF Work
  <2> HIDE DEF Work
  <2>2. QED
    BY <1>1, <2>1
<1>5. QED
  BY <1>1, <1>2, <1>3, <1>4 DEF WorkSound

\* It depends on what is on disk and on the configured release only.
LEMMA HoldsStay ==
  ASSUME UNCHANGED <<disk, want>>
  PROVE  Holds' = Holds
<1>1. zips' = zips /\ dir' = dir /\ svc' = svc /\ fw' = fw /\ want' = want
  BY DEF disk
<1>2. AcquireWork' = AcquireWork
  BY <1>1 DEF AcquireWork, FindServerBinary
<1>3. ServiceWork' = ServiceWork
  BY <1>1 DEF ServiceWork, Registered
<1>4. QED
  BY <1>1, <1>2, <1>3 DEF Holds

-----------------------------------------------------------------------------
(* The steps keep the invariant.                                           *)

\* No call is under way where the engine is at no step of its own.
LEMMA Quiet ==
  ASSUME IInv
  PROVE  /\ pc \notin {"run", "rollback"} => at = "none"
         /\ pc = "rollback" /\ at # "none" => RollingBack /\ Undone = Service /\ at \in Removing
         /\ pc = "run" /\ cur = Rule => at = "none"
BY DEF IInv, TypeOK, CallOfStep, Calls, Acquiring, Installing, Removing, RollingBack,
       Acquire, Service, Rule

\* Whatever a step does, the engine takes one of its own.
LEMMA EngineMoves ==
  ASSUME IInv, [Next]_vars
  PROVE  EngineInv' /\ ~cancelled'
<1> DEFINE Acts == EngineActs \/ UNCHANGED evars
<1>1. CASE Install \/ StepHead \/ VerifyErrs \/ VerifyHolds \/ VerifyLacks \/ Killed
  <2>1. Acts
    BY <1>1 DEF Install, StepHead, VerifyErrs, VerifyHolds, VerifyLacks, Killed, EngineActs
  <2>2. QED
    BY <1>1, <2>1, EngineKept
       DEF IInv, Install, StepHead, VerifyErrs, VerifyHolds, VerifyLacks, Killed, Launch,
           Enter, Finish, VerifyFails, Skip, Begin, Crash, BeginRollback
<1>2. CASE Fetch \/ Open \/ TruncateEntry \/ WriteEntry \/ Scan
  <2>1. Fail \/ Complete \/ UNCHANGED evars
    BY <1>2 DEF Fetch, Open, TruncateEntry, WriteEntry, Scan, Errs, Done, Goto, GotoEntry
  <2>2. QED
    BY <2>1, EngineKept DEF IInv, EngineActs, Fail, Complete, BeginRollback, evars
<1>3. CASE InstallService \/ SetKey \/ StartService \/ StopService \/ RollbackService
  <2>1. Fail \/ Complete \/ UNCHANGED evars
    BY <1>3 DEF InstallService, SetKey, StartService, StopService, RollbackService, Errs,
                Done, Goto, GotoEntry
  <2>2. QED
    BY <2>1, EngineKept DEF IInv, EngineActs, Fail, Complete, BeginRollback, evars
<1>4. CASE AddRule \/ RollbackNothing \/ RemoveService \/ GiveUp
  <2>1. Fail \/ Complete \/ Undo \/ UndoFails \/ ReturnCause
    BY <1>4 DEF AddRule, RollbackNothing, RemoveService, GiveUp
  <2>2. QED
    BY <2>1, EngineKept
       DEF IInv, EngineActs, Fail, Complete, BeginRollback, Undo, UndoFails, ReturnCause
<1>5. CASE BetweenRuns
  <2>1. Drift
    BY <1>5 DEF BetweenRuns, ServiceDrifts, Update, DeleteArchive, Later, Drift
  <2>2. QED
    BY <2>1, EngineKept DEF IInv, EngineActs, Drift
<1>6. CASE UNCHANGED vars
  BY <1>6, EngineKept DEF IInv, vars, evars
<1>7. QED
  BY <1>1, <1>2, <1>3, <1>4, <1>5, <1>6 DEF Next, EngineStep

\* Where a call is and where it goes on: either none is under way after the step...
Rests == at' = "none"
\* ... or one begins, or the one under way goes on in the same Run or Rollback.
Begins ==
  \/ /\ Begin /\ cur = Acquire /\ at' = "fetch"
     /\ UNCHANGED <<disk, want, entry>> /\ FindServerBinary = Nowhere
  \/ /\ Begin /\ cur = Service /\ at' = "install" /\ svc.is # "running"
     /\ UNCHANGED <<disk, want, entry>>
  \/ /\ RollingBack /\ Undone = Service /\ at' = "stop"
     /\ UNCHANGED <<evars, disk, want, entry>>
GoesOn ==
  /\ UNCHANGED <<evars, want, held, start>>
  /\ \/ at \in Acquiring /\ at' \in Acquiring /\ UNCHANGED <<svc, fw>>
     \/ at \in Installing /\ at' \in Installing /\ svc'.is # "running"
        /\ UNCHANGED <<zips, dir, fw>>
     \/ at = "stop" /\ at' = "remove" /\ UNCHANGED <<zips, dir, fw>>

\* The engine's own steps, and what ends a Run or a Rollback, leave no call under way.
LEMMA Resting ==
  ASSUME IInv,
         \/ Install \/ StepHead \/ VerifyErrs \/ VerifyHolds \/ Killed \/ BetweenRuns
         \/ AddRule \/ RollbackNothing \/ RemoveService \/ GiveUp
  PROVE  at' = "none"
<1>1. CASE Install \/ StepHead \/ VerifyErrs \/ VerifyHolds \/ Killed \/ BetweenRuns
  BY <1>1, Quiet
     DEF Install, StepHead, VerifyErrs, VerifyHolds, Killed, BetweenRuns, ServiceDrifts,
         Update, DeleteArchive, Later, Launch, Enter, Finish, VerifyFails, Skip, Active
<1>2. CASE AddRule \/ RollbackNothing \/ RemoveService \/ GiveUp
  BY <1>2, Quiet DEF AddRule, RollbackNothing, RemoveService, GiveUp, ReturnCause, RollingBack
<1>3. QED
  BY <1>1, <1>2

\* There is no other course.
LEMMA Course ==
  ASSUME IInv, [Next]_vars
  PROVE  \/ UNCHANGED vars \/ Rests \/ GoesOn
         \/ at = "none" /\ Begins /\ held' = Holds
<1>1. CASE \/ Install \/ StepHead \/ VerifyErrs \/ VerifyHolds \/ Killed \/ BetweenRuns
           \/ AddRule \/ RollbackNothing \/ RemoveService \/ GiveUp
  BY <1>1, Resting DEF Rests
<1>2. CASE VerifyLacks
  <2>1. pc = "verify" /\ at = "none"
    BY <1>2, Quiet DEF VerifyLacks, Begin
  <2>2. Rests \/ Begins
    BY <1>2, <2>1 DEF VerifyLacks, Rests, Begins, Status, disk
  <2>3. QED
    BY <1>2, <2>1, <2>2 DEF VerifyLacks
<1>3. CASE Fetch \/ Open \/ TruncateEntry \/ WriteEntry \/ Scan
  BY <1>3 DEF Fetch, Open, TruncateEntry, WriteEntry, Scan, Call, Errs, Done, Goto, GotoEntry,
              Rests, GoesOn, Acquiring, disk
<1>4. CASE InstallService \/ SetKey \/ StartService \/ StopService
  BY <1>4 DEF InstallService, SetKey, StartService, StopService, Call, Errs, Done, Goto,
              GotoEntry, Rests, GoesOn, Installing, NssmInstall, NssmSet, IInv, CallOfStep,
              TypeOK, ServiceTypeOK
<1>5. CASE RollbackService
  BY <1>5 DEF RollbackService, Begins
<1>6. QED
  BY <1>1, <1>2, <1>3, <1>4, <1>5 DEF Next, EngineStep


\* A call stays the engine's step's: the engine waits for it.
LEMMA CallOfStepKept ==
  ASSUME IInv, [Next]_vars
  PROVE  CallOfStep'
<1> USE DEF Acquiring, Installing, Removing
<1>0. CallOfStep
  BY DEF IInv
<1>1. CASE Rests
  BY <1>1 DEF Rests, CallOfStep
<1>2. CASE UNCHANGED vars
  BY <1>0, <1>2 DEF vars, evars, disk, CallOfStep, RollingBack, Undone
<1>3. CASE Begins
  BY <1>3 DEF Begins, Begin, CallOfStep, disk, evars, RollingBack, Undone
<1>4. CASE GoesOn
  BY <1>0, <1>4 DEF GoesOn, CallOfStep, evars, RollingBack, Undone
<1>5. QED
  BY <1>1, <1>2, <1>3, <1>4, Course

\* A call touches its own step's work only.
LEMMA OthersHeldKept ==
  ASSUME IInv, [Next]_vars
  PROVE  OthersHeld'
<1> USE DEF Acquiring, Installing, Removing
<1>0. OthersHeld
  BY DEF IInv
<1>1. CASE Rests
  BY <1>1 DEF Rests, OthersHeld
<1>2. CASE UNCHANGED vars
  <2>1. Holds' = Holds /\ at' = at /\ held' = held
    BY <1>2, HoldsStay DEF vars
  <2>2. QED
    BY <1>0, <2>1 DEF OthersHeld
<1>3. CASE Begins /\ held' = Holds
  <2>1. UNCHANGED <<disk, want>>
    BY <1>3 DEF Begins
  <2>2. Holds' = Holds
    BY <2>1, HoldsStay
  <2>3. QED
    BY <1>3, <2>2 DEF OthersHeld
<1>4. CASE GoesOn
  <2>1. held' = held /\ want' = want
    BY <1>4 DEF GoesOn
  <2>2. /\ Holds[Acquire] = AcquireWork /\ Holds[Service] = ServiceWork
        /\ Holds'[Acquire] = AcquireWork' /\ Holds'[Service] = ServiceWork'
        /\ Holds[Rule] = IF fw THEN "present" ELSE "absent"
        /\ Holds'[Rule] = IF fw' THEN "present" ELSE "absent"
    BY Numbers DEF Holds, Acquire, Service, Rule
  <2>3. CASE at \in Acquiring /\ at' \in Acquiring /\ UNCHANGED <<svc, fw>>
    <3>1. ServiceWork' = ServiceWork
      BY <2>3 DEF ServiceWork, Registered
    <3>2. QED
      BY <1>0, <2>1, <2>2, <2>3, <3>1 DEF OthersHeld
  <2>4. CASE /\ at \in Installing \cup Removing /\ at' \in Installing \cup Removing
             /\ UNCHANGED <<dir, fw>>
    <3>1. AcquireWork' = AcquireWork
      BY <2>1, <2>4 DEF AcquireWork, FindServerBinary
    <3>2. QED
      BY <1>0, <2>1, <2>2, <2>4, <3>1 DEF OthersHeld
  <2>5. QED
    BY <1>4, <2>3, <2>4 DEF GoesOn
<1>5. QED
  BY <1>1, <1>2, <1>3, <1>4, Course

\* Unzip goes through the entries one by one and skips none.
LEMMA UnpackedKept ==
  ASSUME IInv, [Next]_vars
  PROVE  Unpacked'
<1>0. /\ Unpacked /\ entry \in Nat /\ at \in Calls
      /\ dir \in [Entries -> Releases \cup {"none", "torn"}]
      /\ Len(Name) \in Nat /\ Entries = 1..Len(Name)
  BY Numbers DEF IInv, TypeOK, AcquireTypeOK
<1>1. CASE at' \notin {"truncate", "write", "scan"}
  BY <1>1 DEF Unpacked
<1>2. CASE Open
  BY <1>0, <1>2 DEF Open, Errs, GotoEntry, Unpacked, Opens, disk
<1>3. CASE TruncateEntry
  <2>1. CASE entry \in Entries /\ Truncate(entry) /\ Goto("write") /\ UNCHANGED zips
    <3>1. /\ at = "truncate" /\ at' = "write" /\ entry' = entry /\ want' = want
          /\ dir' = [dir EXCEPT ![entry] = "torn"] /\ zips' = zips
      BY <1>3, <2>1 DEF TruncateEntry, Call, Truncate, Goto
    <3>2. \A e \in 1..(entry - 1) : dir'[e] = want
      BY <1>0, <2>1, <3>1 DEF Unpacked
    <3>3. QED
      BY <1>0, <2>1, <3>1, <3>2 DEF Unpacked, Opens
  <2>2. CASE Errs
    BY <2>2 DEF Errs, Unpacked
  <2>3. CASE entry \notin Entries /\ Goto("scan") /\ UNCHANGED <<zips, dir>>
    <3>1. at = "truncate" /\ at' = "scan" /\ want' = want
      BY <1>3, <2>3 DEF TruncateEntry, Call, Goto
    <3>2. \A e \in Entries : e \in 1..(entry - 1)
      BY <1>0, <2>3, <3>1 DEF Unpacked
    <3>3. QED
      BY <1>0, <2>3, <3>1, <3>2 DEF Unpacked, Opens
  <2>4. QED
    BY <1>3, <2>1, <2>2, <2>3 DEF TruncateEntry
<1>4. CASE WriteEntry
  <2>1. CASE Write(entry, want) /\ GotoEntry("truncate", entry + 1)
    <3>1. /\ at = "write" /\ at' = "truncate" /\ entry' = entry + 1 /\ want' = want
          /\ dir' = [dir EXCEPT ![entry] = want] /\ zips' = zips
      BY <1>4, <2>1 DEF WriteEntry, Call, Write, GotoEntry
    <3>2. entry \in Entries
      BY <1>0, <3>1 DEF Unpacked
    <3>3. \A e \in 1..entry : dir'[e] = want
      <4>1. \A e \in 1..entry : e \in Entries /\ (e = entry \/ e \in 1..(entry - 1))
        BY <1>0, <3>2
      <4>2. QED
        BY <1>0, <3>1, <3>2, <4>1 DEF Unpacked
    <3>4. entry' \in 1..(Len(Name) + 1) /\ entry' - 1 = entry
      BY <1>0, <3>1, <3>2
    <3>5. QED
      BY <1>0, <3>1, <3>3, <3>4 DEF Unpacked, Opens
  <2>2. CASE Errs
    BY <2>2 DEF Errs, Unpacked
  <2>3. QED
    BY <1>4, <2>1, <2>2 DEF WriteEntry
<1>5. CASE UNCHANGED vars
  BY <1>0, <1>5 DEF vars, disk, Unpacked, Opens
<1>6. CASE VerifyLacks
  <2>1. at = "none"
    BY <1>6, Quiet DEF VerifyLacks, Begin
  <2>2. QED
    BY <1>1, <1>6, <2>1 DEF VerifyLacks
<1>7. CASE \/ Fetch \/ Scan \/ RollbackService
           \/ InstallService \/ SetKey \/ StartService \/ StopService
  BY <1>1, <1>7 DEF Fetch, Scan, RollbackService, InstallService, SetKey, StartService,
                    StopService, Goto, GotoEntry, Errs, Done
<1>8. CASE \/ Install \/ StepHead \/ VerifyErrs \/ VerifyHolds \/ Killed \/ BetweenRuns
           \/ AddRule \/ RollbackNothing \/ RemoveService \/ GiveUp
  BY <1>1, <1>8, Resting
<1>9. QED
  BY <1>2, <1>3, <1>4, <1>5, <1>6, <1>7, <1>8 DEF Next, EngineStep

\* A service that this run completed and that runs has all of its settings: nothing
\* but Start has it run, after they are set.
LEMMA RunsWithAll ==
  ASSUME IInv, [Next]_vars, pc' \in Active, Service \in Range(completed'), svc'.is = "running"
  PROVE  svc'.set = Len(Settings)
<1> USE DEF Active
<1>0. /\ SetUp /\ svc \in [is : Statuses, set : 0..Len(Settings)]
      /\ completed \in Seq(Steps)
      /\ at = "install" => svc.is # "running"
      /\ at \in Calls
  BY DEF IInv, TypeOK, EngineTypeOK, ServiceTypeOK, CallOfStep, Installing
<1>1. CASE Install \/ Killed \/ BetweenRuns
  <2>1. CASE Install
    <3>1. completed' = <<>>
      BY <2>1 DEF Install, Launch
    <3>2. QED
      BY <3>1 DEF Range
  <2>2. CASE Killed \/ BetweenRuns
    BY <2>2 DEF Killed, Crash, BetweenRuns, ServiceDrifts, Update, DeleteArchive, Later
  <2>3. QED
    BY <1>1, <2>1, <2>2
<1>2. ASSUME Complete, cur # Service, svc' = svc PROVE svc'.set = Len(Settings)
  <2>1. /\ completed' = Append(completed, cur) /\ cur \in Steps /\ pc = "run"
    BY <1>2 DEF Complete, IInv, EngineInv, Ahead
  <2>2. Range(completed') = Range(completed) \cup {cur}
    BY <1>0, <2>1, AppendFacts
  <2>3. QED
    BY <1>0, <1>2, <2>1, <2>2 DEF SetUp
<1>3. ASSUME completed' = completed, pc \in Active, svc' = svc PROVE svc'.set = Len(Settings)
  BY <1>0, <1>3 DEF SetUp
<1>4. CASE Scan
  <2>1. cur # Service /\ svc' = svc
    BY <1>4 DEF Scan, Call, disk, IInv, CallOfStep, Acquiring, Acquire, Service
  <2>2. Complete \/ (completed' = completed /\ pc \in Active)
    BY <1>4 DEF Scan, Done, Errs, Fail, BeginRollback
  <2>3. QED
    BY <1>2, <1>3, <2>1, <2>2
<1>5. CASE AddRule
  <2>1. cur # Service /\ svc' = svc
    BY <1>5 DEF AddRule, Rule, Service
  <2>2. Complete \/ (completed' = completed /\ pc \in Active)
    BY <1>5 DEF AddRule, Fail, BeginRollback
  <2>3. QED
    BY <1>2, <1>3, <2>1, <2>2
<1>6. CASE StepHead \/ VerifyErrs \/ VerifyHolds \/ VerifyLacks \/ RollbackNothing
            \/ RollbackService \/ GiveUp \/ UNCHANGED vars
  <2>1. completed' = completed /\ svc' = svc /\ pc \in Active
    BY <1>6 DEF StepHead, VerifyErrs, VerifyHolds, VerifyLacks, RollbackNothing,
                RollbackService, GiveUp, Enter, Finish, VerifyFails, BeginRollback, Skip, Begin,
                Undo, RollingBack, ReturnCause, vars, evars, disk
  <2>2. QED
    BY <1>3, <2>1
<1>7. CASE Fetch \/ Open \/ TruncateEntry \/ WriteEntry
  <2>1. completed' = completed /\ svc' = svc /\ pc \in Active
    BY <1>7 DEF Fetch, Open, TruncateEntry, WriteEntry, Call, Errs, Goto, GotoEntry, Fail,
                BeginRollback, evars, disk
  <2>2. QED
    BY <1>3, <2>1
<1>8. CASE InstallService \/ SetKey
  <2>1. completed' = completed /\ pc \in Active
    BY <1>8 DEF InstallService, SetKey, Call, Errs, Goto, GotoEntry, Fail, BeginRollback, evars
  <2>2. svc' = svc \/ svc'.is # "running"
    BY <1>0, <1>8 DEF InstallService, SetKey, Call, NssmInstall, NssmSet, SetUp
  <2>3. QED
    BY <1>3, <2>1, <2>2
<1>9. CASE StartService
  <2>1. svc.is = "stopped" /\ svc.set = Len(Settings)
    BY <1>0, <1>9 DEF StartService, Call, SetUp
  <2>2. svc' \in {svc, [svc EXCEPT !.is = "pending"], [svc EXCEPT !.is = "paused"],
                  [svc EXCEPT !.is = "running"]}
    BY <1>9 DEF StartService, NssmStart, NssmStartFails
  <2>3. QED
    BY <1>0, <2>1, <2>2
<1>10. CASE StopService \/ RemoveService
  <2>1. completed' = completed /\ pc \in Active
    BY <1>10 DEF StopService, RemoveService, Call, Goto, Undo, UndoFails, evars
  <2>2. svc' = svc \/ svc'.is # "running"
    BY <1>0, <1>10 DEF StopService, RemoveService, NssmStop, NssmRemove, Absent
  <2>3. QED
    BY <1>3, <2>1, <2>2
<1>11. QED
  BY <1>1, <1>4, <1>5, <1>6, <1>7, <1>8, <1>9, <1>10 DEF Next, EngineStep

\* Install goes through the settings one by one and skips none.
LEMMA SetUpKept ==
  ASSUME IInv, [Next]_vars
  PROVE  SetUp'
<1>0. /\ SetUp /\ svc \in [is : Statuses, set : 0..Len(Settings)] /\ entry \in Nat
      /\ Len(Settings) \in Nat /\ DOMAIN Settings = 1..Len(Settings) /\ Settings' = Settings
  BY Numbers DEF IInv, TypeOK, ServiceTypeOK, Settings
<1> DEFINE Rest == /\ at' = "set" => /\ svc'.is = "stopped" /\ entry' \in 1..(Len(Settings) + 1)
                                     /\ svc'.set = entry' - 1
                   /\ at' = "start" => svc'.is = "stopped" /\ svc'.set = Len(Settings)
<1> SUFFICES Rest
  BY <1>0, RunsWithAll DEF SetUp
<1>1. CASE at' \notin {"set", "start"}
  BY <1>1
<1>2. CASE InstallService
  <2>1. CASE NssmInstall /\ GotoEntry("set", 1)
    BY <1>0, <2>1 DEF NssmInstall, GotoEntry
  <2>2. CASE Errs
    BY <2>2 DEF Errs
  <2>3. QED
    BY <1>2, <2>1, <2>2 DEF InstallService
<1>3. CASE SetKey
  <2>0. at = "set" /\ svc.is = "stopped" /\ entry \in 1..(Len(Settings) + 1) /\ svc.set = entry - 1
    BY <1>0, <1>3 DEF SetKey, Call, SetUp
  <2>1. CASE entry \in DOMAIN Settings /\ NssmSet(entry) /\ GotoEntry("set", entry + 1)
    <3>1. at' = "set" /\ entry' = entry + 1 /\ svc' = [svc EXCEPT !.set = entry]
      BY <2>1 DEF NssmSet, GotoEntry
    <3>2. svc'.is = "stopped" /\ svc'.set = entry
      BY <1>0, <2>0, <3>1
    <3>3. QED
      BY <1>0, <2>1, <3>1, <3>2
  <2>2. CASE entry \notin DOMAIN Settings /\ Goto("start") /\ svc' = svc
    <3>1. at' = "start" /\ entry = Len(Settings) + 1
      BY <1>0, <2>0, <2>2 DEF Goto
    <3>2. QED
      BY <1>0, <2>0, <2>2, <3>1
  <2>3. CASE Errs
    BY <2>3 DEF Errs
  <2>4. QED
    BY <1>3, <2>1, <2>2, <2>3 DEF SetKey
<1>4. CASE UNCHANGED vars
  BY <1>0, <1>4 DEF vars, disk, SetUp
<1>5. CASE VerifyLacks
  <2>1. at = "none"
    BY <1>5, Quiet DEF VerifyLacks, Begin
  <2>2. QED
    BY <1>1, <1>5, <2>1 DEF VerifyLacks
<1>6. CASE \/ Fetch \/ Open \/ TruncateEntry \/ WriteEntry \/ Scan
           \/ RollbackService \/ StartService \/ StopService
  BY <1>1, <1>6 DEF Fetch, Open, TruncateEntry, WriteEntry, Scan, RollbackService,
                    StartService, StopService, Goto, GotoEntry, Errs, Done
<1>7. CASE \/ Install \/ StepHead \/ VerifyErrs \/ VerifyHolds \/ Killed \/ BetweenRuns
           \/ AddRule \/ RollbackNothing \/ RemoveService \/ GiveUp
  BY <1>1, <1>7, Resting
<1>8. QED
  BY <1>2, <1>3, <1>4, <1>5, <1>6, <1>7 DEF Next, EngineStep

\* The types of what is on disk...
LEMMA DiskTyped ==
  ASSUME IInv, [Next]_vars
  PROVE  AcquireTypeOK' /\ ServiceTypeOK' /\ fw' \in BOOLEAN
<1> USE DEF AcquireTypeOK, ServiceTypeOK
<1>0. /\ zips \in [Releases -> {"none", "part", "whole", "bad"}]
      /\ dir \in [Entries -> Releases \cup {"none", "torn"}]
      /\ svc \in [is : Statuses, set : 0..Len(Settings)]
      /\ fw \in BOOLEAN /\ want \in Releases /\ Len(Settings) \in Nat
      /\ DOMAIN Settings = 1..Len(Settings)
  BY Numbers DEF IInv, TypeOK
<1>1. CASE \/ Install \/ StepHead \/ VerifyErrs \/ VerifyHolds \/ VerifyLacks \/ Killed
           \/ Open \/ Scan \/ RollbackNothing \/ RollbackService \/ GiveUp \/ Update
           \/ UNCHANGED vars
  <2>1. UNCHANGED disk
    BY <1>1 DEF Install, StepHead, VerifyErrs, VerifyHolds, VerifyLacks, Killed, Open, Scan,
                RollbackNothing, RollbackService, GiveUp, Update, vars
  <2>2. QED
    BY <1>0, <2>1 DEF disk
<1>2. CASE Fetch \/ DeleteArchive
  <2>1. UNCHANGED <<dir, svc, fw>>
    BY <1>2 DEF Fetch, DeleteArchive
  <2>2. zips' \in [Releases -> {"none", "part", "whole", "bad"}]
    BY <1>0, <1>2 DEF Fetch, DeleteArchive, FetchedWhole, FetchedBad, FetchFailed, Archive
  <2>3. QED
    BY <1>0, <2>1, <2>2
<1>3. CASE TruncateEntry \/ WriteEntry
  <2>1. UNCHANGED <<zips, svc, fw>>
    BY <1>3 DEF TruncateEntry, WriteEntry
  <2>2. dir' \in [Entries -> Releases \cup {"none", "torn"}]
    BY <1>0, <1>3 DEF TruncateEntry, WriteEntry, Truncate, Write
  <2>3. QED
    BY <1>0, <2>1, <2>2
<1>4. CASE InstallService \/ SetKey \/ StartService \/ StopService \/ RemoveService \/ ServiceDrifts
  <2>1. UNCHANGED <<zips, dir, fw>>
    BY <1>4 DEF InstallService, SetKey, StartService, StopService, RemoveService, ServiceDrifts
  <2>2. svc' \in [is : Statuses, set : 0..Len(Settings)]
    <3>1. 0 \in 0..Len(Settings) /\ \A k \in DOMAIN Settings : k \in 0..Len(Settings)
      BY <1>0
    <3>2. CASE InstallService \/ RemoveService
      BY <1>0, <3>1, <3>2 DEF InstallService, RemoveService, NssmInstall, NssmRemove, Absent,
                              Statuses
    <3>3. CASE SetKey
      BY <1>0, <3>1, <3>3 DEF SetKey, NssmSet
    <3>4. CASE StartService \/ StopService \/ ServiceDrifts
      <4>1. \E i \in Statuses : svc' = [svc EXCEPT !.is = i] \/ svc' = svc
        BY <3>4 DEF StartService, StopService, ServiceDrifts, NssmStart, NssmStartFails,
                    NssmStop, Statuses
      <4>2. QED
        BY <1>0, <4>1
    <3>5. QED
      BY <1>4, <3>2, <3>3, <3>4
  <2>3. QED
    BY <1>0, <2>1, <2>2
<1>5. CASE AddRule
  BY <1>0, <1>5 DEF AddRule
<1>6. QED
  BY <1>1, <1>2, <1>3, <1>4, <1>5 DEF Next, EngineStep, BetweenRuns

\* ... of the archive entry or setting that a call is at...
LEMMA EntryTyped ==
  ASSUME IInv, [Next]_vars
  PROVE  entry' \in 0..(Len(Name) + Len(Settings) + 1)
<1>0. /\ entry \in 0..(Len(Name) + Len(Settings) + 1)
      /\ Len(Name) \in Nat /\ Entries = 1..Len(Name)
      /\ Len(Settings) \in Nat /\ DOMAIN Settings = 1..Len(Settings)
      /\ Unpacked
  BY Numbers DEF IInv, TypeOK
<1>1. entry' = entry \/ entry' = 1 \/ (WriteEntry /\ entry' = entry + 1)
        \/ (entry \in DOMAIN Settings /\ entry' = entry + 1)
  <2>1. CASE \/ Fetch \/ Open \/ TruncateEntry \/ Scan
             \/ InstallService \/ SetKey \/ StartService \/ StopService
    BY <2>1 DEF Fetch, Open, TruncateEntry, Scan, InstallService, SetKey, StartService,
                StopService, Goto, GotoEntry, Errs, Done
  <2>2. CASE WriteEntry
    BY <2>2 DEF WriteEntry, GotoEntry, Errs
  <2>3. CASE \/ Install \/ StepHead \/ VerifyErrs \/ VerifyHolds \/ VerifyLacks \/ Killed
             \/ BetweenRuns
    BY <2>3 DEF Install, StepHead, VerifyErrs, VerifyHolds, VerifyLacks, Killed, BetweenRuns,
                ServiceDrifts, Update, DeleteArchive, Later
  <2>4. CASE \/ AddRule \/ RollbackNothing \/ RollbackService \/ RemoveService \/ GiveUp
             \/ UNCHANGED vars
    BY <2>4 DEF AddRule, RollbackNothing, RollbackService, RemoveService, GiveUp, vars
  <2>5. QED
    BY <2>1, <2>2, <2>3, <2>4 DEF Next, EngineStep
<1>2. WriteEntry => entry \in Entries
  BY <1>0 DEF WriteEntry, Call, Unpacked
<1>3. QED
  BY <1>0, <1>1, <1>2

\* ... and of the rest.
LEMMA TypeKept ==
  ASSUME IInv, [Next]_vars
  PROVE  TypeOK'
<1>0. TypeOK /\ WorkSound
  BY WorkFacts DEF IInv
<1>1. EngineTypeOK'
  BY EngineMoves DEF EngineInv
<1>2. at' \in Calls /\ (at' # "none" => pc' \in {"run", "rollback"})
  <2>1. at' \in Calls
    <3>1. CASE Rests \/ Begins \/ GoesOn
      BY <3>1 DEF Rests, Begins, GoesOn, Calls, Acquiring, Installing
    <3>2. CASE UNCHANGED vars
      BY <1>0, <3>2 DEF vars, TypeOK
    <3>3. QED
      BY <3>1, <3>2, Course
  <2>2. QED
    BY <2>1, CallOfStepKept DEF CallOfStep, Calls, Acquiring, Installing, Removing, RollingBack
<1>3. /\ want' \in Releases /\ bin' \in Entries \cup {Nowhere}
      /\ held' \in [Steps -> Work] /\ start' \in [Steps -> Work]
      /\ faults' \in 0..MaxFaults
  <2>0. /\ want \in Releases /\ bin \in Entries \cup {Nowhere}
        /\ held \in [Steps -> Work] /\ start \in [Steps -> Work] /\ Holds \in [Steps -> Work]
        /\ faults \in 0..MaxFaults
        /\ FindServerBinary \in Entries \cup {Nowhere} /\ Last \in Releases
        /\ Fault => faults' \in 0..MaxFaults
    BY <1>0, Finds, ProgramsAssumption DEF TypeOK, WorkSound, Work, Binaries, Fault
  <2>1. CASE \/ Fetch \/ Open \/ TruncateEntry \/ WriteEntry \/ Scan
    BY <2>0, <2>1 DEF Fetch, Open, TruncateEntry, WriteEntry, Scan, Goto, GotoEntry, Errs, Done
  <2>2. CASE InstallService \/ SetKey \/ StartService \/ StopService
    BY <2>0, <2>2 DEF InstallService, SetKey, StartService, StopService, Goto, GotoEntry,
                      Errs, Done
  <2>3. CASE Install \/ StepHead \/ VerifyErrs \/ VerifyHolds \/ VerifyLacks \/ Killed
    BY <2>0, <2>3 DEF Install, StepHead, VerifyErrs, VerifyHolds, VerifyLacks, Killed
  <2>4. CASE BetweenRuns
    BY <2>0, <2>4 DEF BetweenRuns, ServiceDrifts, Update, DeleteArchive, Later
  <2>5. CASE \/ AddRule \/ RollbackNothing \/ RollbackService \/ RemoveService \/ GiveUp
             \/ UNCHANGED vars
    BY <2>0, <2>5 DEF AddRule, RollbackNothing, RollbackService, RemoveService, GiveUp, vars
  <2>6. QED
    BY <2>1, <2>2, <2>3, <2>4, <2>5 DEF Next, EngineStep
<1>4. QED
  BY <1>1, <1>2, <1>3, DiskTyped, EntryTyped DEF TypeOK, Work

\* On a fresh machine there is none of the steps' work.
LEMMA NothingAtFirst ==
  ASSUME Init
  PROVE  \A j \in Steps : Holds[j] = "absent"
<1>1. Binaries = {} /\ \A e \in Entries : dir[e] = "none"
  BY DEF Init, AcquireInit, Binaries
<1>2. AcquireWork = "absent"
  BY <1>1, Finds DEF AcquireWork
<1>3. svc.is = "absent" /\ fw = FALSE
  BY DEF Init, ServiceInit, Absent
<1>4. ServiceWork = "absent"
  BY <1>3 DEF ServiceWork, Registered
<1>5. QED
  BY <1>2, <1>3, <1>4, Numbers DEF Holds, Acquire, Service, Rule

\* The invariant holds of a fresh machine...
LEMMA InitIInv == Init => IInv
<1> SUFFICES ASSUME Init PROVE IInv
  OBVIOUS
<1>1. EngineInv /\ ~cancelled /\ completed = <<>>
  BY EngineInits DEF Init, EngineInit
<1>2. /\ AcquireTypeOK /\ ServiceTypeOK /\ want \in Releases /\ fw \in BOOLEAN
      /\ bin \in Entries \cup {Nowhere} /\ faults \in 0..MaxFaults
      /\ entry \in 0..(Len(Name) + Len(Settings) + 1)
  <2>1. AcquireTypeOK
    BY DEF Init, AcquireInit, AcquireTypeOK
  <2>2. ServiceTypeOK
    BY Numbers DEF Init, ServiceInit, Absent, ServiceTypeOK, Statuses
  <2>3. faults \in 0..MaxFaults /\ entry \in 0..(Len(Name) + Len(Settings) + 1)
    BY Numbers, ProgramsAssumption DEF Init
  <2>4. QED
    BY <2>1, <2>2, <2>3, ProgramsAssumption DEF Init
<1>3. Holds \in [Steps -> Work]
  BY NothingAtFirst DEF Holds, Work
<1>4. TypeOK
  BY <1>1, <1>2, <1>3 DEF Init, TypeOK, EngineInv, Calls, Work
<1>5. CallOfStep /\ OthersHeld /\ Unpacked /\ SetUp
  BY <1>1 DEF Init, CallOfStep, OthersHeld, Unpacked, SetUp, Acquiring, Installing, Removing,
              Range
<1>6. QED
  BY <1>1, <1>4, <1>5 DEF IInv

\* ... and every step keeps it.
LEMMA NextKeepsIInv == IInv /\ [Next]_vars => IInv'
<1> SUFFICES ASSUME IInv, [Next]_vars PROVE IInv'
  OBVIOUS
<1>1. QED
  BY TypeKept, EngineMoves, CallOfStepKept, OthersHeldKept, UnpackedKept, SetUpKept DEF IInv

-----------------------------------------------------------------------------
(* The contract.                                                           *)

\* The engine of InstallerPlan is the engine here.
LEMMA SameEngine ==
  /\ (Launch <=> IP!Launch) /\ (Enter <=> IP!Enter)
  /\ (Finish <=> IP!Finish) /\ (VerifyFails <=> IP!VerifyFails)
  /\ (Skip <=> IP!Skip) /\ (Begin <=> IP!Begin)
  /\ (Complete <=> IP!Complete) /\ (Fail <=> IP!Fail)
  /\ (Undo <=> IP!Undo) /\ (UndoFails <=> IP!UndoFails)
  /\ (ReturnCause <=> IP!ReturnCause) /\ (Crash <=> IP!Crash)
  /\ (RollingBack <=> IP!RollingBack) /\ (EngineInit <=> IP!EngineInit)
  /\ Undone = IP!Undone /\ Steps = IP!Steps /\ evars = IP!evars
<1> USE DEF Active, Steps, Report, BeginRollback, RollingBack, Undone, evars,
            IP!Active, IP!Steps, IP!Report, IP!BeginRollback, IP!RollingBack, IP!Undone, IP!evars
<1>1. (Launch <=> IP!Launch) /\ (Enter <=> IP!Enter) /\ (Finish <=> IP!Finish)
  BY DEF Launch, Enter, Finish, IP!Launch, IP!Enter, IP!Finish
<1>2. (VerifyFails <=> IP!VerifyFails) /\ (Skip <=> IP!Skip) /\ (Begin <=> IP!Begin)
  BY DEF VerifyFails, Skip, Begin, IP!VerifyFails, IP!Skip, IP!Begin
<1>3. (Complete <=> IP!Complete) /\ (Fail <=> IP!Fail) /\ (Crash <=> IP!Crash)
  BY DEF Complete, Fail, Crash, IP!Complete, IP!Fail, IP!Crash
<1>4. (Undo <=> IP!Undo) /\ (UndoFails <=> IP!UndoFails) /\ (ReturnCause <=> IP!ReturnCause)
  BY DEF Undo, UndoFails, ReturnCause, IP!Undo, IP!UndoFails, IP!ReturnCause
<1>5. EngineInit <=> IP!EngineInit
  BY DEF EngineInit, IP!EngineInit
<1>6. QED
  BY <1>1, <1>2, <1>3, <1>4, <1>5

\* What a step makes of World: nothing, or the work of the step it is at.
LEMMA WorldAfter ==
  ASSUME IInv, IInv', [Next]_vars
  PROVE  /\ Holds' \in [Steps -> Work] /\ Holds \in [Steps -> Work] /\ World \in [Steps -> Work]
         /\ at = "none" /\ at' = "none" /\ UNCHANGED <<disk, want>> => World' = World
         /\ GoesOn \/ (Begins /\ at = "none" /\ held' = Holds) => World' = World
         /\ at \in Acquiring /\ at' = "none" /\ UNCHANGED <<svc, fw>> =>
              World' = [World EXCEPT ![Acquire] = Holds'[Acquire]]
         /\ at \in Installing \cup Removing /\ at' = "none" /\ UNCHANGED <<dir, fw, want>> =>
              World' = [World EXCEPT ![Service] = Holds'[Service]]
<1>0. WorkSound /\ WorkSound'
  BY WorkFacts, PTL DEF IInv
<1>1. /\ Holds' \in [Steps -> Work] /\ Holds \in [Steps -> Work] /\ World \in [Steps -> Work]
      /\ held \in [Steps -> Work]
  <2>1. Holds' \in [Steps -> Work] /\ Holds \in [Steps -> Work]
    BY <1>0 DEF WorkSound
  <2>2. held \in [Steps -> Work]
    BY DEF IInv, TypeOK, Work
  <2>3. QED
    BY <2>1, <2>2 DEF World
<1>2. /\ Holds[Acquire] = AcquireWork /\ Holds[Service] = ServiceWork
      /\ Holds'[Acquire] = AcquireWork' /\ Holds'[Service] = ServiceWork'
      /\ Holds[Rule] = IF fw THEN "present" ELSE "absent"
      /\ Holds'[Rule] = IF fw' THEN "present" ELSE "absent"
      /\ Acquire \in Steps /\ Service \in Steps /\ Rule \in Steps
      /\ \A j \in Steps : j \in {Acquire, Service, Rule}
      /\ Acquire # Service /\ Acquire # Rule /\ Service # Rule
  BY Numbers DEF Holds, Acquire, Service, Rule
<1>3. ASSUME at = "none", at' = "none", UNCHANGED <<disk, want>> PROVE World' = World
  BY <1>3, HoldsStay DEF World
<1>4. ASSUME GoesOn \/ (Begins /\ at = "none" /\ held' = Holds) PROVE World' = World
  BY <1>4 DEF World, GoesOn, Begins, Acquiring, Installing
<1>5. ASSUME at \in Acquiring, at' = "none", UNCHANGED <<svc, fw>>
      PROVE  World' = [World EXCEPT ![Acquire] = Holds'[Acquire]]
  <2>1. World = held /\ World' = Holds'
    BY <1>5 DEF World, Acquiring
  <2>2. held[Service] = Holds[Service] /\ held[Rule] = Holds[Rule]
    BY <1>5 DEF IInv, OthersHeld
  <2>3. ServiceWork' = ServiceWork /\ fw' = fw
    BY <1>5 DEF ServiceWork, Registered
  <2>4. Holds'[Service] = held[Service] /\ Holds'[Rule] = held[Rule]
    BY <1>2, <2>2, <2>3
  <2>5. QED
    BY <1>1, <1>2, <2>1, <2>4
<1>6. ASSUME at \in Installing \cup Removing, at' = "none", UNCHANGED <<dir, fw, want>>
      PROVE  World' = [World EXCEPT ![Service] = Holds'[Service]]
  <2>1. World = held /\ World' = Holds'
    BY <1>6 DEF World, Installing, Removing
  <2>2. held[Acquire] = Holds[Acquire] /\ held[Rule] = Holds[Rule]
    BY <1>6 DEF IInv, OthersHeld
  <2>3. AcquireWork' = AcquireWork /\ fw' = fw
    BY <1>6 DEF AcquireWork, FindServerBinary
  <2>4. Holds'[Acquire] = held[Acquire] /\ Holds'[Rule] = held[Rule]
    BY <1>2, <2>2, <2>3
  <2>5. QED
    BY <1>1, <1>2, <2>1, <2>4
<1>7. QED
  BY <1>1, <1>3, <1>4, <1>5, <1>6

\* What a step may be, as KeepsTheStepContract has it.
Kept == \/ BetweenRuns \/ FailsOnLeftovers \/ FaultInside \/ IP!Next
        \/ UNCHANGED IP!vars

\* What a Run or Rollback that ends without success may leave of its step's work.
LEMMA MayLeave ==
  ASSUME IInv, IInv'
  PROVE  /\ Holds'[Acquire] \in IP!Leftovers(Acquire)
         /\ (svc'.is = "running" => svc'.set = Len(Settings)) =>
              Holds'[Service] \in IP!Leftovers(Service)
         /\ Holds'[Rule] \in IP!Leftovers(Rule)
<1>0. WorkSound'
  BY WorkFacts, PTL DEF IInv
<1>1. Holds'[Acquire] \in Work /\ Acquire \notin {Service, Rule}
  BY <1>0, Numbers DEF WorkSound, Acquire, Service, Rule
<1>2. (svc'.is = "running" => svc'.set = Len(Settings)) =>
        Holds'[Service] \in {"absent", "partial", "present"}
  BY <1>0 DEF WorkSound
<1>3. Holds'[Rule] \in {"absent", "present"}
  BY <1>0 DEF WorkSound
<1>4. QED
  BY <1>1, <1>2, <1>3 DEF IP!Leftovers, IP!Work, Work

\* A Run that fails leaves something of its step's work that it may, either by a fault
\* or on leftovers.
LEMMA FailsAsItMay ==
  ASSUME IInv, Fail, start' = start, World' = [World EXCEPT ![cur] = Holds'[cur]],
         Holds'[cur] \in IP!Leftovers(cur),
         \/ Fault
         \/ /\ faults' = faults
            /\ \/ cur = Acquire /\ (zips[want] = "bad" \/ ~HasServer)
               \/ cur = Service /\ (Registered \/ ~Loads)
  PROVE  Kept
<1>1. \E w \in IP!Leftovers(cur) : IP!Becomes(cur, w)
  BY DEF IP!Becomes
<1>2. CASE Fault
  <2>1. IP!RunFails
    BY <1>1, <1>2, SameEngine DEF IP!RunFails, IP!Failure, IP!Fault, Fault
  <2>2. QED
    BY <2>1 DEF Kept, IP!Next, IP!EngineStep
<1>3. CASE ~Fault
  BY <1>1, <1>3 DEF Kept, FailsOnLeftovers
<1>4. QED
  BY <1>2, <1>3

\* The engine's own steps.
LEMMA EngineSteps ==
  ASSUME IInv, IInv', [Next]_vars,
         \/ Install \/ StepHead \/ VerifyErrs \/ VerifyHolds \/ VerifyLacks
         \/ RollbackNothing \/ GiveUp
  PROVE  Kept
<1>0. WorkSound /\ cur \in 1..(N + 1) /\ IP!Steps = Steps
  BY WorkFacts, SameEngine DEF IInv, TypeOK, EngineTypeOK
<1>1. at = "none"
  BY Quiet DEF Install, StepHead, VerifyErrs, VerifyHolds, VerifyLacks, RollbackNothing, GiveUp,
               Launch, Enter, Finish, VerifyFails, Skip, Begin, ReturnCause, Active, RollingBack
<1>2. World = Holds /\ World' = World
  <2>1. CASE VerifyLacks
    <3>1. CASE at' = "none"
      <4>1. UNCHANGED <<disk, want>>
        BY <2>1 DEF VerifyLacks
      <4>2. World' = World
        BY <1>1, <3>1, <4>1, WorldAfter
      <4>3. QED
        BY <1>1, <4>2 DEF World
    <3>2. CASE at' # "none"
      BY <1>1, <2>1, <3>2 DEF VerifyLacks, World
    <3>3. QED
      BY <1>1, <3>1, <3>2 DEF World
  <2>2. CASE ~VerifyLacks
    <3>1. at' = at /\ UNCHANGED <<disk, want>>
      BY <2>2 DEF Install, StepHead, VerifyErrs, VerifyHolds, RollbackNothing, GiveUp
    <3>2. QED
      BY <1>1, <3>1, WorldAfter DEF World
  <2>3. QED
    BY <2>1, <2>2
<1>3. CASE Install
  <2>1. IP!Relaunch
    BY <1>2, <1>3, SameEngine DEF Install, IP!Relaunch
  <2>2. QED
    BY <2>1 DEF Kept, IP!Next
<1>4. CASE StepHead
  <2>1. IP!StepHead
    BY <1>2, <1>4, SameEngine DEF StepHead, IP!StepHead
  <2>2. QED
    BY <2>1 DEF Kept, IP!Next, IP!EngineStep
<1>5. CASE VerifyErrs
  <2>1. IP!VerifyErrs
    BY <1>2, <1>5, SameEngine, Numbers
       DEF VerifyErrs, IP!VerifyErrs, Fault, IP!Failure, IP!Fault
  <2>2. QED
    BY <2>1 DEF Kept, IP!Next, IP!EngineStep
<1>6. CASE VerifyHolds
  <2>1. cur \in Steps /\ Holds[cur] \in {"decoy", "present"}
    BY <1>0, <1>6, Numbers DEF VerifyHolds, Status, WorkSound
  <2>2. IP!VerifyHolds
    BY <1>2, <1>6, <2>1, SameEngine DEF VerifyHolds, IP!VerifyHolds, IP!Satisfied
  <2>3. QED
    BY <2>2 DEF Kept, IP!Next, IP!EngineStep
<1>7. CASE VerifyLacks
  <2>1. Holds[cur] \notin {"decoy", "present"}
    BY <1>0, <1>7 DEF VerifyLacks, Status, WorkSound
  <2>2. IP!VerifyLacks
    BY <1>2, <1>7, <2>1, SameEngine DEF VerifyLacks, IP!VerifyLacks, IP!Satisfied
  <2>3. QED
    BY <2>2 DEF Kept, IP!Next, IP!EngineStep
<1>8. CASE RollbackNothing
  <2>1. IP!RollbackNothing
    BY <1>2, <1>8, SameEngine DEF RollbackNothing, IP!RollbackNothing, Acquire, Service, Rule
  <2>2. QED
    BY <2>1 DEF Kept, IP!Next, IP!EngineStep
<1>9. CASE GiveUp
  <2>1. IP!GiveUp
    BY <1>2, <1>9, SameEngine DEF GiveUp, IP!GiveUp
  <2>2. QED
    BY <2>1 DEF Kept, IP!Next, IP!EngineStep
<1>10. QED
  BY <1>3, <1>4, <1>5, <1>6, <1>7, <1>8, <1>9

\* A service that is being removed has all of its settings, if it still runs.
LEMMA UndoneRan ==
  ASSUME IInv, RollingBack, Undone = Service
  PROVE  svc.is = "running" => svc.set = Len(Settings)
<1>1. back \in 1..Len(completed) /\ Len(completed) \in Nat /\ completed \in Seq(Steps)
  BY CompletedFacts DEF IInv, TypeOK, EngineTypeOK, RollingBack
<1>2. Service \in Range(completed) /\ pc \in Active
  BY <1>1 DEF Range, Undone, RollingBack, Active
<1>3. QED
  BY <1>2 DEF IInv, SetUp

\* AddRule touches its own work only.
LEMMA RuleOnly ==
  ASSUME IInv, IInv', AddRule, at = "none", at' = "none"
  PROVE  World' = [World EXCEPT ![Rule] = Holds'[Rule]]
<1>0. WorkSound /\ WorkSound'
  BY WorkFacts, PTL DEF IInv
<1>1. World = Holds /\ World' = Holds'
  BY DEF World
<1>2. UNCHANGED <<dir, svc, want>>
  BY DEF AddRule
<1>3. AcquireWork' = AcquireWork
  BY <1>2 DEF AcquireWork, FindServerBinary
<1>4. ServiceWork' = ServiceWork
  BY <1>2 DEF ServiceWork, Registered
<1>5. Holds'[Acquire] = Holds[Acquire] /\ Holds'[Service] = Holds[Service]
  BY <1>3, <1>4, Numbers DEF Holds, Acquire, Service
<1>6. \A j \in Steps : j \in {Acquire, Service, Rule}
  BY Numbers DEF Acquire, Service, Rule
<1>7. QED
  BY <1>0, <1>1, <1>5, <1>6 DEF WorkSound

\* acquire-llama's calls: what unpacks all of the entries leaves the configured
\* release, and what stops before that may leave anything.
LEMMA AcquireSteps ==
  ASSUME IInv, IInv', [Next]_vars, Fetch \/ Open \/ TruncateEntry \/ WriteEntry \/ Scan
  PROVE  Kept
<1>0. at \in Acquiring /\ pc = "run" /\ cur = Acquire /\ UNCHANGED <<svc, fw>>
  BY DEF Fetch, Open, TruncateEntry, WriteEntry, Scan, Call, IInv, CallOfStep, Acquiring, disk
<1>1. ASSUME Errs, Fault \/ (faults' = faults /\ (zips[want] = "bad" \/ ~HasServer))
      PROVE  Kept
  <2>1. Fail /\ at' = "none" /\ start' = start
    BY <1>1 DEF Errs
  <2>2. World' = [World EXCEPT ![cur] = Holds'[cur]] /\ Holds'[cur] \in IP!Leftovers(cur)
    BY <1>0, <2>1, WorldAfter, MayLeave
  <2>3. QED
    BY <1>0, <1>1, <2>1, <2>2, FailsAsItMay
<1>2. ASSUME UNCHANGED <<evars, want, held, start>>, at' \in Acquiring, UNCHANGED faults \/ Fault
      PROVE  Kept
  <2>1. World' = World
    BY <1>0, <1>2, WorldAfter DEF GoesOn
  <2>2. CASE UNCHANGED faults
    BY <1>2, <2>1, <2>2 DEF Kept, IP!vars, IP!evars, evars
  <2>3. CASE ~UNCHANGED faults
    BY <1>2, <2>1, <2>3 DEF Kept, FaultInside, Acquiring
  <2>4. QED
    BY <2>2, <2>3
<1>3. CASE Fetch
  BY <1>1, <1>2, <1>3 DEF Fetch, Goto, Acquiring
<1>4. CASE Open
  BY <1>1, <1>2, <1>4 DEF Open, GotoEntry, Acquiring
<1>5. CASE TruncateEntry
  BY <1>1, <1>2, <1>5 DEF TruncateEntry, Goto, Acquiring
<1>6. CASE WriteEntry
  BY <1>1, <1>2, <1>6 DEF WriteEntry, GotoEntry, Acquiring, CopyFails
<1>7. CASE Scan
  <2>0. /\ UNCHANGED <<dir, want, faults>> /\ \A e \in Entries : dir[e] = want
        /\ want # "none"
    BY <1>7, AcquireAssumption DEF Scan, Call, Done, Errs, disk, IInv, Unpacked, TypeOK
  <2>1. HasServer <=> FindServerBinary # Nowhere
    BY <2>0, Finds DEF HasServer, Binaries
  <2>2. CASE FindServerBinary # Nowhere
    <3>1. Complete /\ at' = "none" /\ start' = start
      BY <1>7, <2>2 DEF Scan, Done
    <3>2. Holds'[Acquire] = "present"
      <4>1. Holds[Acquire] = "present"
        BY <2>0, <2>2, Finds, WorkFacts DEF WorkSound, IInv
      <4>2. UNCHANGED <<disk, want>>
        BY <1>7, <2>0 DEF Scan
      <4>3. QED
        BY <4>1, <4>2, HoldsStay
    <3>3. IP!Becomes(cur, "present")
      BY <1>0, <3>1, <3>2, WorldAfter DEF IP!Becomes
    <3>4. IP!RunSucceeds
      BY <2>0, <3>1, <3>3, SameEngine DEF IP!RunSucceeds
    <3>5. QED
      BY <3>4 DEF Kept, IP!Next, IP!EngineStep
  <2>3. CASE FindServerBinary = Nowhere
    BY <1>1, <1>7, <2>0, <2>1, <2>3 DEF Scan
  <2>4. QED
    BY <2>2, <2>3
<1>8. QED
  BY <1>3, <1>4, <1>5, <1>6, <1>7

\* install-llama-service's calls: what sets all of the settings and has the service run
\* leaves it so, and what stops before that does not leave it running.
LEMMA InstallSteps ==
  ASSUME IInv, IInv', [Next]_vars, InstallService \/ SetKey \/ StartService
  PROVE  Kept
<1>0. /\ at \in Installing /\ pc = "run" /\ cur = Service
      /\ svc \in [is : Statuses, set : 0..Len(Settings)] /\ svc.is # "running"
      /\ UNCHANGED <<dir, fw>>
  BY DEF InstallService, SetKey, StartService, Call, IInv, TypeOK, ServiceTypeOK, CallOfStep,
         Installing
<1>1. ASSUME Errs, svc'.is # "running",
             Fault \/ (faults' = faults /\ (Registered \/ ~Loads))
      PROVE  Kept
  <2>1. Fail /\ at' = "none" /\ start' = start /\ want' = want
    BY <1>1 DEF Errs
  <2>2. World' = [World EXCEPT ![cur] = Holds'[cur]] /\ Holds'[cur] \in IP!Leftovers(cur)
    BY <1>0, <1>1, <2>1, WorldAfter, MayLeave
  <2>3. QED
    BY <1>0, <1>1, <2>1, <2>2, FailsAsItMay
<1>2. ASSUME UNCHANGED <<evars, want, held, start, zips, faults>>, at' \in Installing,
             svc'.is # "running"
      PROVE  Kept
  <2>1. World' = World
    BY <1>0, <1>2, WorldAfter DEF GoesOn
  <2>2. QED
    BY <1>2, <2>1 DEF Kept, IP!vars, IP!evars, evars
<1>3. CASE InstallService
  BY <1>0, <1>1, <1>2, <1>3 DEF InstallService, GotoEntry, Installing, NssmInstall
<1>4. CASE SetKey
  BY <1>0, <1>1, <1>2, <1>4 DEF SetKey, Goto, GotoEntry, Installing, NssmSet
<1>5. CASE StartService
  <2>1. svc.is = "stopped" /\ svc.set = Len(Settings)
    BY <1>5 DEF StartService, Call, IInv, SetUp
  <2>2. CASE NssmStart(Loads) /\ Done /\ UNCHANGED faults
    <3>1. Complete /\ at' = "none" /\ start' = start /\ want' = want
      BY <2>2 DEF Done
    <3>2. svc'.is = "running" /\ svc'.set = Len(Settings)
      BY <1>0, <2>1, <2>2 DEF NssmStart
    <3>3. WorkSound'
      BY WorkFacts, PTL DEF IInv
    <3>4. Holds'[Service] = "present"
      BY <3>2, <3>3 DEF WorkSound
    <3>5. IP!Becomes(cur, "present")
      BY <1>0, <3>1, <3>4, WorldAfter DEF IP!Becomes
    <3>6. IP!RunSucceeds
      BY <2>2, <3>1, <3>5, SameEngine DEF IP!RunSucceeds
    <3>7. QED
      BY <3>6 DEF Kept, IP!Next, IP!EngineStep
  <2>3. CASE NssmStartFails(Loads) /\ Errs /\ (Fault \/ (faults' = faults /\ ~Loads))
    <3>1. svc'.is # "running"
      BY <1>0, <2>1, <2>3 DEF NssmStartFails
    <3>2. QED
      BY <1>1, <2>3, <3>1
  <2>4. QED
    BY <1>5, <2>2, <2>3 DEF StartService
<1>6. QED
  BY <1>3, <1>4, <1>5

\* Remove, in a rollback: no service is left, or one that is as whole as it was.
LEMMA RemoveSteps ==
  ASSUME IInv, IInv', [Next]_vars, RollbackService \/ StopService \/ RemoveService
  PROVE  Kept
<1>0. RollingBack /\ Undone = Service /\ ~cancelled /\ UNCHANGED <<dir, fw, want>>
  BY DEF RollbackService, StopService, RemoveService, Call, Goto, IInv, CallOfStep, Removing,
         disk
<1>1. CASE RollbackService
  <2>1. World' = World
    BY <1>1, WorldAfter DEF RollbackService, Begins
  <2>2. QED
    BY <1>1, <2>1 DEF RollbackService, Kept, IP!vars, IP!evars, evars
<1>2. CASE StopService
  <2>1. /\ UNCHANGED <<evars, want, held, start, zips>> /\ at = "stop" /\ at' = "remove"
        /\ UNCHANGED faults \/ Fault
    BY <1>2 DEF StopService, Call, Goto
  <2>2. World' = World
    BY <1>0, <2>1, WorldAfter DEF GoesOn
  <2>3. CASE UNCHANGED faults
    BY <2>1, <2>2, <2>3 DEF Kept, IP!vars, IP!evars, evars
  <2>4. CASE ~UNCHANGED faults
    BY <2>1, <2>2, <2>4 DEF Kept, FaultInside
  <2>5. QED
    BY <2>3, <2>4
<1>3. CASE RemoveService
  <2>0. at = "remove" /\ at' = "none" /\ start' = start
    BY <1>3 DEF RemoveService, Call
  <2>1. World' = [World EXCEPT ![Service] = Holds'[Service]]
    BY <1>0, <2>0, WorldAfter DEF Removing
  <2>2. CASE NssmRemove /\ Undo /\ UNCHANGED faults
    <3>1. WorkSound' /\ ~Registered'
      <4>1. WorkSound'
        BY WorkFacts, PTL DEF IInv
      <4>2. svc'.is = "absent"
        BY <2>2 DEF NssmRemove, Absent
      <4>3. QED
        BY <4>1, <4>2 DEF Registered
    <3>2. Holds'[Service] = "absent"
      BY <3>1 DEF WorkSound
    <3>3. IP!Becomes(IP!Undone, "absent")
      BY <1>0, <2>1, <3>2, SameEngine DEF IP!Becomes
    <3>4. IP!RollbackSucceeds
      BY <1>0, <2>0, <2>2, <3>3, SameEngine DEF IP!RollbackSucceeds
    <3>5. QED
      BY <3>4 DEF Kept, IP!Next, IP!EngineStep
  <2>3. CASE Fault /\ UndoFails /\ UNCHANGED svc
    <3>1. svc'.is = "running" => svc'.set = Len(Settings)
      BY <1>0, <2>3, UndoneRan
    <3>2. Holds'[Service] \in IP!Leftovers(Service)
      BY <3>1, MayLeave
    <3>3. \E w \in IP!Leftovers(IP!Undone) : IP!Becomes(IP!Undone, w)
      BY <1>0, <2>1, <3>2, SameEngine DEF IP!Becomes
    <3>4. IP!RollbackErrs
      BY <1>0, <2>0, <2>3, <3>3, SameEngine
         DEF IP!RollbackErrs, IP!Failure, IP!Fault, Fault
    <3>5. QED
      BY <3>4 DEF Kept, IP!Next, IP!EngineStep
  <2>4. QED
    BY <1>3, <2>2, <2>3 DEF RemoveService
<1>4. QED
  BY <1>1, <1>2, <1>3

\* The firewall rule, and the death of the program.
LEMMA RuleAndDeath ==
  ASSUME IInv, IInv', [Next]_vars, AddRule \/ Killed
  PROVE  Kept
<1>1. CASE AddRule
  <2>1. at = "none" /\ at' = "none" /\ start' = start /\ cur = Rule /\ cur \in Steps
    BY <1>1, Quiet, Numbers DEF AddRule
  <2>2. World' = [World EXCEPT ![cur] = Holds'[cur]]
    BY <1>1, <2>1, RuleOnly DEF AddRule
  <2>3. CASE fw' = TRUE /\ Complete /\ UNCHANGED faults
    <3>1. Holds'[Rule] = "present"
      <4>1. WorkSound'
        BY WorkFacts, PTL DEF IInv
      <4>2. QED
        BY <2>3, <4>1 DEF WorkSound
    <3>2. IP!RunSucceeds
      BY <2>1, <2>2, <2>3, <3>1, SameEngine DEF IP!RunSucceeds, IP!Becomes
    <3>3. QED
      BY <3>2 DEF Kept, IP!Next, IP!EngineStep
  <2>4. CASE Fault /\ Fail
    BY <2>1, <2>2, <2>4, MayLeave, FailsAsItMay
  <2>5. QED
    BY <1>1, <2>3, <2>4 DEF AddRule
<1>2. CASE Killed
  <2>1. Crash /\ Fault /\ at' = "none" /\ UNCHANGED <<disk, want, start>> /\ pc \in Active
    BY <1>2 DEF Killed, Crash
  <2>2. \/ UNCHANGED World
        \/ pc = "run" /\ \E w \in IP!Leftovers(cur) : IP!Becomes(cur, w)
        \/ /\ RollingBack /\ Undone = Service
           /\ \E w \in IP!Leftovers(Service) : IP!Becomes(Service, w)
    <3>1. CASE at = "none"
      BY <2>1, <3>1, WorldAfter
    <3>2. CASE at \in Acquiring
      <4>1. pc = "run" /\ cur = Acquire
        BY <3>2 DEF IInv, CallOfStep
      <4>2. World' = [World EXCEPT ![cur] = Holds'[cur]]
        BY <2>1, <3>2, <4>1, WorldAfter DEF disk
      <4>3. QED
        BY <4>1, <4>2, MayLeave DEF IP!Becomes
    <3>3. CASE at \in Installing
      <4>1. pc = "run" /\ cur = Service /\ svc'.is # "running"
        BY <2>1, <3>3 DEF IInv, CallOfStep, disk
      <4>2. World' = [World EXCEPT ![cur] = Holds'[cur]]
        BY <2>1, <3>3, <4>1, WorldAfter DEF disk
      <4>3. QED
        BY <4>1, <4>2, MayLeave DEF IP!Becomes
    <3>4. CASE at \in Removing
      <4>1. RollingBack /\ Undone = Service
        BY <3>4 DEF IInv, CallOfStep
      <4>2. svc'.is = "running" => svc'.set = Len(Settings)
        BY <2>1, <4>1, UndoneRan DEF disk
      <4>3. World' = [World EXCEPT ![Service] = Holds'[Service]]
        BY <2>1, <3>4, WorldAfter DEF disk
      <4>4. QED
        BY <4>1, <4>2, <4>3, MayLeave DEF IP!Becomes
    <3>5. at \in {"none"} \cup Acquiring \cup Installing \cup Removing
      BY DEF IInv, TypeOK, Calls, Acquiring, Installing, Removing
    <3>6. QED
      BY <3>1, <3>2, <3>3, <3>4, <3>5
  <2>3. IP!Killed
    BY <2>1, <2>2, SameEngine DEF IP!Killed, IP!Fault, Fault
  <2>4. QED
    BY <2>3 DEF Kept, IP!Next
<1>3. QED
  BY <1>1, <1>2

-----------------------------------------------------------------------------
(* The theorems.                                                           *)

\* IInv holds throughout.
THEOREM Inductive == Spec => []IInv
<1>1. QED
  BY InitIInv, NextKeepsIInv, PTL DEF Spec

\* Everything is of its type, State[KeyServerBinary] among it: an entry of the archive,
\* or none.
THEOREM TypeCorrect == Spec => []TypeOK
<1>1. IInv => TypeOK
  BY DEF IInv
<1>2. QED
  BY <1>1, Inductive, PTL

\* KeepsTheStepContract: one file or command at a time, killed or failed anywhere, the
\* two programs' steps are steps of InstallerPlan, for any releases, archive and
\* settings; so what its theorems say of a plan holds of these.
THEOREM KeepsContract == Spec => KeepsTheStepContract
<1>1. Init => IP!Init
  <2> SUFFICES ASSUME Init PROVE IP!Init
    OBVIOUS
  <2>1. \A j \in Steps : Holds[j] = "absent"
    BY NothingAtFirst
  <2>2. World = Holds /\ Holds \in [Steps -> {"absent", "present"}]
    <3>1. at = "none"
      BY DEF Init
    <3>2. World = Holds
      BY <3>1 DEF World
    <3>3. Holds \in [Steps -> Work]
      BY InitIInv, WorkFacts DEF IInv, WorkSound
    <3>4. QED
      BY <2>1, <3>2, <3>3
  <2>3. QED
    BY <2>2, SameEngine DEF Init, IP!Init
<1>2. ASSUME IInv, IInv', [Next]_vars
      PROVE  [BetweenRuns \/ FailsOnLeftovers \/ FaultInside \/ IP!Next]_(IP!vars)
  <2>1. CASE UNCHANGED vars
    <3>1. Holds' = Holds
      BY <2>1, HoldsStay DEF vars
    <3>2. World' = World
      BY <2>1, <3>1 DEF World, vars
    <3>3. QED
      BY <2>1, <3>2 DEF vars, IP!vars, IP!evars, evars
  <2>2. CASE BetweenRuns
    BY <2>2
  <2>3. CASE Install \/ EngineStep \/ Killed
    <3>1. Kept
      BY <1>2, <2>3, EngineSteps, AcquireSteps, InstallSteps, RemoveSteps, RuleAndDeath
         DEF EngineStep
    <3>2. QED
      BY <3>1 DEF Kept
  <2>4. QED
    BY <1>2, <2>1, <2>2, <2>3 DEF Next
<1>3. QED
  BY <1>1, <1>2, Inductive, PTL DEF Spec, KeepsTheStepContract

=============================================================================
