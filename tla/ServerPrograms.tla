--------------------------- MODULE ServerPrograms ---------------------------
(***************************************************************************)
(* The two steps of the server's plan that deal with programs, "acquire-   *)
(* llama" and "install-llama-service", in the engine's hands and one file  *)
(* or one nssm command at a time; "configure-firewall" after them stands   *)
(* for a step that may yet fail and have the service rolled back.  The     *)
(* process may be killed between any two of them, and the operator may     *)
(* change the release in versions.yaml between two runs.                   *)
(***************************************************************************)
EXTENDS InstallerEngine, LlamaAcquire, NSSMService

CONSTANTS
  First, Last,   \* the release versions.yaml names at first, and after an update
  MaxFaults      \* bound on failures and crashes in a behaviour

ASSUME ProgramsAssumption ==
  N = 3 /\ {First, Last} \subseteq Releases /\ MaxFaults \in Nat

VARIABLES
  want,    \* the configured release
  fw,      \* whether the firewall rule is there
  bin,     \* State[KeyServerBinary]
  at,      \* the call under way in a Run or Rollback, "none" outside them
  entry,   \* the archive entry, or the setting, that call is at
  held,    \* World when the Run or Rollback under way began (history)
  start,   \* World as this run of the program found it (history)
  faults   \* how many faults have happened (bound)

disk == <<zips, dir, svc, fw>>
vars == <<evars, disk, want, bin, at, entry, held, start, faults>>

Acquire == 1
Service == 2
Rule    == 3

Calls == {"none", "fetch", "open", "truncate", "write", "scan",
          "install", "set", "start", "stop", "remove"}

-----------------------------------------------------------------------------
(* What the machine holds of each step's work, in the words of             *)
(* InstallerPlan.                                                          *)

AcquireWork ==
  IF FindServerBinary = Nowhere
    THEN IF \A e \in Entries : dir[e] = "none" THEN "absent" ELSE "partial"
    ELSE IF \A e \in Entries : dir[e] = want THEN "present" ELSE "decoy"

ServiceWork ==
  CASE svc.is = "absent"              -> "absent"
    [] svc.is # "running" /\ Registered -> "partial"
    [] svc.is = "running"             ->
         IF svc.set = Len(Settings) THEN "present" ELSE "decoy"

Holds == [j \in Steps |->
           CASE j = Acquire -> AcquireWork
             [] j = Service -> ServiceWork
             [] j = Rule    -> IF fw THEN "present" ELSE "absent"]

World == IF at = "none" THEN Holds ELSE held

TypeOK ==
  /\ EngineTypeOK /\ AcquireTypeOK /\ ServiceTypeOK
  /\ want \in Releases /\ fw \in BOOLEAN /\ bin \in Entries \cup {Nowhere}
  /\ at \in Calls /\ (at # "none" => pc \in {"run", "rollback"})
  /\ entry \in 0..(Len(Name) + Len(Settings) + 1)
  /\ held \in [Steps -> {"absent", "partial", "decoy", "present"}]
  /\ start \in [Steps -> {"absent", "partial", "decoy", "present"}]
  /\ faults \in 0..MaxFaults

Init ==
  /\ EngineInit /\ AcquireInit /\ ServiceInit
  /\ want = First /\ fw = FALSE /\ bin = Nowhere
  /\ at = "none" /\ entry = 0
  /\ held = Holds /\ start = Holds /\ faults = 0

Fault == faults < MaxFaults /\ faults' = faults + 1

Call(c) == pc \in {"run", "rollback"} /\ at = c
Goto(c) == at' = c /\ UNCHANGED <<evars, want, bin, held, start, entry>>
GotoEntry(c, k) == at' = c /\ entry' = k /\ UNCHANGED <<evars, want, bin, held, start>>

-----------------------------------------------------------------------------
(* The engine around the steps.                                            *)

Install ==
  /\ Launch
  /\ bin' = Nowhere /\ start' = Holds
  /\ UNCHANGED <<disk, want, at, entry, held, faults>>

StepHead == (Enter \/ Finish) /\ UNCHANGED <<disk, want, bin, at, entry, held, start, faults>>

\* Verify of the service fails when nssm does not answer.
VerifyErrs ==
  /\ VerifyFails /\ cur = Service /\ Fault
  /\ UNCHANGED <<disk, want, bin, at, entry, held, start>>

VerifyHolds ==
  /\ Skip
  /\ \/ cur = Acquire /\ FindServerBinary # Nowhere /\ bin' = FindServerBinary
     \/ cur = Service /\ Status = "running" /\ UNCHANGED bin
     \/ cur = Rule /\ fw /\ UNCHANGED bin
  /\ UNCHANGED <<disk, want, at, entry, held, start, faults>>

VerifyLacks ==
  /\ Begin
  /\ \/ cur = Acquire /\ FindServerBinary = Nowhere /\ at' = "fetch"
     \/ cur = Service /\ Status # "running" /\ at' = "install"
     \/ cur = Rule /\ ~fw /\ UNCHANGED at
  /\ held' = Holds
  /\ UNCHANGED <<disk, want, bin, entry, start, faults>>

\* A Run ends: the last call returned nil, or some call did not.
Done == Complete /\ at' = "none" /\ UNCHANGED <<want, entry, held, start>>
Errs == Fail     /\ at' = "none" /\ UNCHANGED <<want, bin, entry, held, start>>

-----------------------------------------------------------------------------
(* Acquirer.Acquire.                                                       *)

Fetch ==
  /\ Call("fetch")
  /\ \/ FetchedWhole(want) /\ Goto("open") /\ UNCHANGED faults
     \/ FetchedBad(want) /\ Goto("open") /\ Fault
     \/ FetchFailed(want) /\ Errs /\ Fault
  /\ UNCHANGED <<dir, svc, fw>>

Open ==
  /\ Call("open")
  /\ \/ Opens(want) /\ GotoEntry("truncate", 1) /\ UNCHANGED faults
     \/ zips[want] = "bad" /\ Errs /\ UNCHANGED faults
  /\ UNCHANGED disk

\* Mutant: a file that is there already is passed over, to resume.
TruncateEntryIfAbsent ==
  /\ Call("truncate")
  /\ \/ /\ entry \in Entries /\ dir[entry] = "none"
        /\ Truncate(entry) /\ Goto("write") /\ UNCHANGED faults
     \/ /\ entry \in Entries /\ dir[entry] # "none"
        /\ GotoEntry("truncate", entry + 1) /\ UNCHANGED <<dir, faults>>
     \/ entry \in Entries /\ Fault /\ Errs /\ UNCHANGED dir
     \/ entry \notin Entries /\ Goto("scan") /\ UNCHANGED <<dir, faults>>
  /\ UNCHANGED <<zips, svc, fw>>

TruncateEntry ==
  /\ Call("truncate")
  /\ \/ entry \in Entries /\ Truncate(entry) /\ Goto("write") /\ UNCHANGED faults
     \/ entry \in Entries /\ Fault /\ Errs /\ UNCHANGED dir
     \/ entry \notin Entries /\ Goto("scan") /\ UNCHANGED <<dir, faults>>
  /\ UNCHANGED <<zips, svc, fw>>

WriteEntry ==
  /\ Call("write")
  /\ \/ /\ Copies(entry, want) /\ Write(entry, want)
        /\ GotoEntry("truncate", entry + 1) /\ UNCHANGED faults
     \/ CopyFails(want) /\ Errs /\ UNCHANGED <<dir, faults>>
     \/ Fault /\ Errs /\ UNCHANGED dir
  /\ UNCHANGED <<zips, svc, fw>>

Scan ==
  /\ Call("scan")
  /\ IF FindServerBinary # Nowhere THEN bin' = FindServerBinary /\ Done ELSE Errs
  /\ UNCHANGED <<disk, faults>>

-----------------------------------------------------------------------------
(* NSSMManager.Install, Start and Remove.                                  *)

InstallService ==
  /\ Call("install")
  /\ \/ NssmInstall /\ GotoEntry("set", 1) /\ UNCHANGED faults
     \/ Registered /\ Errs /\ UNCHANGED <<svc, faults>>
     \/ Fault /\ Errs /\ UNCHANGED svc
  /\ UNCHANGED <<zips, dir, fw>>

SetKey ==
  /\ Call("set")
  /\ \/ /\ entry \in DOMAIN Settings /\ NssmSet(entry)
        /\ GotoEntry("set", entry + 1) /\ UNCHANGED faults
     \/ entry \in DOMAIN Settings /\ Fault /\ Errs /\ UNCHANGED svc
     \/ entry \notin DOMAIN Settings /\ Goto("start") /\ UNCHANGED <<svc, faults>>
  /\ UNCHANGED <<zips, dir, fw>>

StartService ==
  /\ Call("start")
  /\ \/ NssmStart(Loads) /\ Done /\ UNCHANGED <<bin, faults>>
     \/ ~Loads /\ NssmStartFails(Loads) /\ Errs /\ UNCHANGED faults
     \/ Loads /\ NssmStartFails(Loads) /\ Errs /\ Fault
  /\ UNCHANGED <<zips, dir, fw>>

\* Remove ignores what becomes of the stop.
StopService ==
  /\ Call("stop")
  /\ \/ NssmStop /\ UNCHANGED faults
     \/ Fault /\ UNCHANGED svc
  /\ Goto("remove")
  /\ UNCHANGED <<zips, dir, fw>>

RemoveService ==
  /\ Call("remove")
  /\ at' = "none"
  /\ \/ NssmRemove /\ Undo /\ UNCHANGED faults
     \/ Fault /\ UndoFails /\ UNCHANGED svc
  /\ UNCHANGED <<zips, dir, fw, want, bin, entry, held, start>>

-----------------------------------------------------------------------------
(* The firewall rule, and the engine's rollback.                           *)

AddRule ==
  /\ pc = "run" /\ cur = Rule
  /\ \/ fw' = TRUE /\ Complete /\ UNCHANGED faults
     \/ Fault /\ Fail /\ UNCHANGED fw
  /\ UNCHANGED <<zips, dir, svc, want, bin, at, entry, held, start>>

\* acquire-llama has no Rollback; the service's is Remove; the rule's one command
\* comes last in the plan and is never undone here.
RollbackNothing ==
  /\ Undo /\ at = "none" /\ Undone = Acquire
  /\ UNCHANGED <<disk, want, bin, at, entry, held, start, faults>>

RollbackService ==
  /\ RollingBack /\ at = "none" /\ Undone = Service
  /\ at' = "stop" /\ held' = Holds
  /\ UNCHANGED <<evars, disk, want, bin, entry, start, faults>>

GiveUp == ReturnCause /\ UNCHANGED <<disk, want, bin, at, entry, held, start, faults>>

Killed ==
  /\ Crash /\ Fault /\ at' = "none"
  /\ UNCHANGED <<disk, want, bin, entry, held, start>>

-----------------------------------------------------------------------------
(* Between two runs.                                                       *)

Later ==
  /\ pc \notin Active
  /\ pc' = "idle"
  /\ UNCHANGED <<cur, completed, back, cancelled, status, bin, at, entry, held, start>>

\* A slow program comes up, one that is stopped is started by a reboot -- if it
\* can be loaded -- and one that runs may stop.
ServiceDrifts ==
  /\ Later
  /\ \/ svc.is = "pending" /\ svc' = [svc EXCEPT !.is = "running"] /\ UNCHANGED faults
     \/ /\ Registered /\ svc.is # "running"
        /\ svc' = [svc EXCEPT !.is = IF Loads THEN "running" ELSE "paused"]
        /\ UNCHANGED faults
     \/ svc.is = "running" /\ Fault /\ svc' = [svc EXCEPT !.is = "stopped"]
  /\ UNCHANGED <<zips, dir, fw, want>>

\* The operator names another release: "upgrading llama.cpp is a config change".
Update ==
  /\ Later
  /\ want = First /\ want' = Last
  /\ UNCHANGED <<disk, faults>>

\* "Delete the downloaded archive and re-run install": the operator may.
DeleteArchive ==
  /\ Later
  /\ zips[want] = "bad"
  /\ zips' = [zips EXCEPT ![want] = "none"]
  /\ UNCHANGED <<dir, svc, fw, want, faults>>

EngineStep ==
  \/ StepHead \/ VerifyErrs \/ VerifyHolds \/ VerifyLacks
  \/ Fetch \/ Open \/ TruncateEntry \/ WriteEntry \/ Scan
  \/ InstallService \/ SetKey \/ StartService \/ StopService \/ RemoveService
  \/ AddRule \/ RollbackNothing \/ RollbackService \/ GiveUp

BetweenRuns == ServiceDrifts \/ Update \/ DeleteArchive

Next == Install \/ EngineStep \/ Killed \/ BetweenRuns

Spec == Init /\ [][Next]_vars

\* The engine never waits; an operator whose install did not succeed runs it
\* again.  Nobody is obliged to delete a bad archive.
FairSpec == Spec /\ WF_vars(EngineStep) /\ WF_vars(Install)

-----------------------------------------------------------------------------
IP == INSTANCE InstallerPlan WITH
  Checked    <- Steps,
  Reversible <- {Service, Rule},
  Honest     <- {Service, Rule},
  world      <- World

\* A Run that fails with nothing new amiss: on what an earlier run left -- a bad
\* archive, a service that is registered, an unpacked program that is torn -- or on
\* an archive that has no server in it.
FailsOnLeftovers ==
  /\ Fail
  /\ \/ cur = Acquire /\ (zips[want] = "bad" \/ ~HasServer)
     \/ cur = Service /\ (Registered \/ ~Loads)
  /\ \E w \in IP!Leftovers(cur) : IP!Becomes(cur, w)
  /\ UNCHANGED <<start, faults>>

\* A fault inside a Run or Rollback that goes on: a body received wrong, a stop
\* that failed.
FaultInside == at' # "none" /\ UNCHANGED <<evars, World, start>>

\* Called one file or command at a time, the two steps keep the contract that
\* InstallerPlan's theorems ask of a step: a Run that returns nil leaves all of
\* the configured release unpacked, over whatever was in the directory, and a
\* service running with all of its settings; one that fails or is killed never
\* leaves a service that only looks so; and Remove leaves none.  Excepted are the
\* runs that fail with nothing new amiss and what happens to the machine between runs.
KeepsTheStepContract ==
  /\ IP!Init
  /\ [][BetweenRuns \/ FailsOnLeftovers \/ FaultInside \/ IP!Next]_(IP!vars)

\* What waits for the operator: an archive that was received wrong, which Fetch takes
\* for complete and Unzip fails on in each run, as long as no server binary is there for
\* Verify to skip it by...
BadArchive == zips[want] = "bad" /\ FindServerBinary = Nowhere

\* ... and a service that is registered and does not run: nssm refused a setting or
\* the start, or the directory was torn after the binary was in it, which Verify takes
\* for done and no re-run unpacks again.
DeadService == Registered /\ svc.is # "running"

\* Re-running install finishes a cut download, and an extraction that stopped before
\* the binary, by itself; nothing but a bad archive or a dead service keeps it from
\* succeeding in the end.
ResumesUnlessStuck == []<>(pc = "ok" \/ BadArchive \/ DeadService)
=============================================================================
