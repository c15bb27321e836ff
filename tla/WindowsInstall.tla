--------------------------- MODULE WindowsInstall ---------------------------
(***************************************************************************)
(* The server's install plan (internal/installer/windows) run by the       *)
(* engine on a Windows machine: what each step's Verify looks at, what its *)
(* Run leaves when it succeeds, fails or is killed, and what its Rollback  *)
(* takes back.  The machine outlives the runs; State.data does not.        *)
(***************************************************************************)
EXTENDS InstallerEngine, FiniteSets

CONSTANTS
  Models,      \* the ids of models.yaml
  NoModel,     \* not one of them
  MaxFaults,   \* bound on failures, crashes and outages in a behaviour
  MaxRules     \* bound on the firewall rules of the same name

\* Mutant: the service is installed before the model is there.
PlanServiceFirst ==
  << "preflight", "install-wireguard", "acquire-llama", "install-llama-service",
     "download-model", "wireguard-server-config", "wireguard-tunnel-up",
     "configure-firewall", "report" >>

\* Plan's labels, in order.
Plan == << "preflight", "install-wireguard", "acquire-llama", "download-model",
           "wireguard-server-config", "wireguard-tunnel-up",
           "install-llama-service", "configure-firewall", "report" >>

Labels == Range(Plan)

ASSUME WindowsAssumption ==
  N = Len(Plan) /\ NoModel \notin Models /\ MaxFaults \in Nat /\ MaxRules \in Nat \ {0}

VARIABLES
  machine,  \* what is on the machine: see Machines
  data,     \* the keys of State.data this run has set
  want,     \* the --model of this run, resolved; NoModel when Resolve fails
  start,    \* machine as this run found it (history)
  faults    \* how many faults have happened (bound)

vars == <<evars, machine, data, want, start, faults>>

\* The steps whose Run fails each time while what it reads is not mended by hand:
\* a cached installer or release archive that is not what was published, an entry of
\* models.yaml or versions.yaml that leads nowhere, a peers file or a server key that
\* does not parse, a subnet that is full, an nssm that is missing.
Spoilable == {"install-wireguard", "acquire-llama", "download-model",
              "wireguard-server-config", "install-llama-service"}

Machines ==
  [ wireguard : BOOLEAN,                                \* wireguard.exe exists
    llama     : {"none", "some", "binary", "whole"},    \* what is in llamaDir
    model     : [Models -> {"none", "part", "bad", "whole"}],
    conf      : BOOLEAN,                                \* wg0.conf is written
    tunnel    : BOOLEAN,                                \* tunnel service RUNNING
    service   : {"none", "stopped", "running"},
    serves    : Models \cup {NoModel},                  \* the service's -m argument
    rules     : 0..MaxRules,                            \* rules of firewallRuleName
    spoilt    : SUBSET Spoilable ]                      \* steps that cannot succeed

Keys == {"llama_binary", "model_path", "wg_server_config", "join_token"}

TypeOK ==
  /\ EngineTypeOK
  /\ machine \in Machines /\ start \in Machines
  /\ data \subseteq Keys
  /\ want \in Models \cup {NoModel}
  /\ faults \in 0..MaxFaults

Fresh ==
  [ wireguard |-> FALSE, llama |-> "none", model |-> [m \in Models |-> "none"],
    conf |-> FALSE, tunnel |-> FALSE, service |-> "none", serves |-> NoModel, rules |-> 0,
    spoilt |-> {} ]

Init ==
  /\ EngineInit
  /\ machine \in {Fresh, [Fresh EXCEPT !.wireguard = TRUE]}
  /\ data = {}
  /\ want = NoModel
  /\ start = machine
  /\ faults = 0

Fault == faults < MaxFaults /\ faults' = faults + 1

-----------------------------------------------------------------------------
(* The steps.                                                              *)

\* Mutant: a service that is registered is taken to be running.
SeenRegistered(l, m) ==
  \/ l = "install-wireguard"     /\ m.wireguard
  \/ l = "acquire-llama"         /\ m.llama \in {"binary", "whole"}
  \/ l = "download-model"        /\ m.model[want] # "none"
  \/ l = "wireguard-tunnel-up"   /\ m.tunnel
  \/ l = "install-llama-service" /\ m.service # "none"
  \/ l = "configure-firewall"    /\ m.rules > 0

\* What the step's VerifyFunc reports when its probe works; FALSE when nil.
Seen(l, m) ==
  \/ l = "install-wireguard"     /\ m.wireguard
  \/ l = "acquire-llama"         /\ m.llama \in {"binary", "whole"}
  \/ l = "download-model"        /\ m.model[want] # "none"
  \/ l = "wireguard-tunnel-up"   /\ m.tunnel
  \/ l = "install-llama-service" /\ m.service = "running"
  \/ l = "configure-firewall"    /\ m.rules > 0

\* The probes that answer "absent" when they cannot tell: a file that cannot be looked
\* at, a directory that cannot be walked, a command that fails.
Guessing == {"install-wireguard", "acquire-llama", "download-model",
             "wireguard-tunnel-up", "configure-firewall"}

\* The keys a step sets, in its Verify when that holds or at the end of its Run.
Yields(l) ==
  CASE l = "acquire-llama"           -> {"llama_binary"}
    [] l = "download-model"          -> {"model_path"}
    [] l = "wireguard-server-config" -> {"wg_server_config", "join_token"}
    [] OTHER                         -> {}

\* A Run fails, and will again, while what it reads is spoilt; and WireGuard does not
\* install a running tunnel again, nor nssm a service that is registered, running or
\* not.
CanRun(l) ==
  /\ l \notin machine.spoilt
  /\ l = "wireguard-tunnel-up"   => ~machine.tunnel
  /\ l = "install-llama-service" => machine.service = "none"

\* What an extraction that failed leaves in llamaDir: it writes over what was there.
HalfUnpacked == IF machine.llama \in {"binary", "whole"} THEN {"binary"}
                ELSE {machine.llama, "some", "binary"}

\* What a transfer leaves when it ends well.  It goes on with a file that is part there,
\* and without a checksum nothing shows that the two do not make a whole.
Downloaded == IF machine.model[want] \in {"part", "bad"} THEN {"whole", "bad"} ELSE {"whole"}

\* What the machine is after the step's Run returned nil...
Ran(l) ==
  CASE l = "install-wireguard"       -> {[machine EXCEPT !.wireguard = TRUE]}
    [] l = "acquire-llama"           -> {[machine EXCEPT !.llama = "whole"]}
    [] l = "download-model"          ->
         {[machine EXCEPT !.model[want] = u] : u \in Downloaded}
    [] l = "wireguard-server-config" -> {[machine EXCEPT !.conf = TRUE]}
    [] l = "wireguard-tunnel-up"     -> {[machine EXCEPT !.tunnel = TRUE]}
    [] l = "install-llama-service"   ->
         {[machine EXCEPT !.service = "running", !.serves = want]}
    [] l = "configure-firewall"      ->
         {[machine EXCEPT !.rules = IF @ < MaxRules THEN @ + 1 ELSE @]}
    [] OTHER                         -> {machine}

\* ... and after it failed half-way: a cached download that will not do, an archive half
\* unpacked, a model file cut short or failing its checksum, a config written though the
\* subnet is full, a service registered but not started.
HalfRan(l) ==
  {machine} \cup
  CASE l = "install-wireguard"       ->
         {[machine EXCEPT !.wireguard = TRUE], [machine EXCEPT !.spoilt = @ \cup {l}]}
    [] l = "acquire-llama"           ->
         {[machine EXCEPT !.llama = u] : u \in HalfUnpacked} \cup
         {[machine EXCEPT !.llama = u, !.spoilt = @ \cup {l}] : u \in HalfUnpacked}
    [] l = "download-model"          -> {[machine EXCEPT !.model[want] = u] : u \in {"part", "bad"}}
    [] l = "wireguard-server-config" -> {[machine EXCEPT !.conf = TRUE]}
    [] l = "install-llama-service"   ->
         IF machine.service = "none"
         THEN {[machine EXCEPT !.service = "stopped", !.serves = want]} ELSE {}
    [] OTHER                         -> {}

HasRollback == {"wireguard-tunnel-up", "install-llama-service", "configure-firewall"}

\* What the step's Rollback leaves.  netsh deletes every rule of the name.
TakenBack(l) ==
  CASE l = "wireguard-tunnel-up"   -> [machine EXCEPT !.tunnel = FALSE]
    [] l = "install-llama-service" -> [machine EXCEPT !.service = "none", !.serves = NoModel]
    [] l = "configure-firewall"    -> [machine EXCEPT !.rules = 0]
    [] OTHER                       -> machine

\* Remove stops the service, whatever becomes of the registration.
HalfTakenBack(l) ==
  {machine} \cup
  IF l = "install-llama-service" THEN {[machine EXCEPT !.service = "stopped"]} ELSE {}

-----------------------------------------------------------------------------
(* The engine over these steps.                                            *)

Label == Plan[cur]
UndoneLabel == Plan[Undone]

\* The command resolves the role and the model id and starts a run.
Install ==
  /\ Launch
  /\ data' = {} /\ start' = machine
  /\ \/ want' \in Models /\ UNCHANGED faults
     \/ want' = NoModel /\ Fault
  /\ UNCHANGED machine

StepHead == (Enter \/ Finish) /\ UNCHANGED <<machine, data, want, start, faults>>

VerifyErrs ==
  /\ VerifyFails
  /\ \/ Label = "download-model" /\ want = NoModel /\ UNCHANGED faults
     \/ Label = "install-llama-service" /\ Fault
  /\ UNCHANGED <<machine, data, want, start>>

\* Mutant: a Verify that holds does not set its keys.
VerifyHoldsKeepsData ==
  /\ Skip
  /\ Label = "download-model" => want \in Models
  /\ Seen(Label, machine)
  /\ UNCHANGED <<machine, data, want, start, faults>>

VerifyHolds ==
  /\ Skip
  /\ Label = "download-model" => want \in Models
  /\ Seen(Label, machine)
  /\ data' = data \cup Yields(Label)
  /\ UNCHANGED <<machine, want, start, faults>>

VerifyLacks ==
  /\ Begin
  /\ Label = "download-model" => want \in Models
  /\ \/ ~Seen(Label, machine) /\ UNCHANGED faults
     \/ Seen(Label, machine) /\ Label \in Guessing /\ Fault
  /\ UNCHANGED <<machine, data, want, start>>

RunSucceeds ==
  /\ Complete
  /\ CanRun(Label)
  /\ machine' \in Ran(Label)
  /\ data' = data \cup Yields(Label)
  /\ UNCHANGED <<want, start, faults>>

\* A Run that could have succeeded fails by a fault; one that could not, on every
\* re-run.  reportStep prints and returns nil.
RunFails ==
  /\ Fail
  /\ Label # "report"
  /\ machine' \in HalfRan(Label)
  /\ IF CanRun(Label) THEN Fault ELSE UNCHANGED faults
  /\ UNCHANGED <<data, want, start>>

RollbackSucceeds ==
  /\ Undo
  /\ machine' = TakenBack(UndoneLabel)
  /\ UNCHANGED <<data, want, start, faults>>

RollbackErrs ==
  /\ UndoFails
  /\ UndoneLabel \in HasRollback
  /\ Fault
  /\ machine' \in HalfTakenBack(UndoneLabel)
  /\ UNCHANGED <<data, want, start>>

GiveUp == ReturnCause /\ UNCHANGED <<machine, data, want, start, faults>>

\* The terminal is closed or the power fails; a command under way may be done.
Killed ==
  /\ Crash
  /\ Fault
  /\ \/ UNCHANGED machine
     \/ pc = "run" /\ machine' \in HalfRan(Label)
     \/ pc = "run" /\ CanRun(Label) /\ machine' \in Ran(Label)
     \/ RollingBack /\ machine' \in {TakenBack(UndoneLabel)} \cup HalfTakenBack(UndoneLabel)
  /\ UNCHANGED <<data, want, start>>

\* Between two runs the machine drifts, and the last run's outcome with it:
Later ==
  /\ pc \notin Active
  /\ pc' = "idle"
  /\ UNCHANGED <<cur, completed, back, cancelled, status, data, want, start>>

\* the service or the tunnel may stop...
Outage ==
  /\ Later
  /\ Fault
  /\ \/ machine.service = "running" /\ machine' = [machine EXCEPT !.service = "stopped"]
     \/ machine.tunnel /\ machine' = [machine EXCEPT !.tunnel = FALSE]

\* ... and a reboot starts an auto-start service that is registered.
Reboot ==
  /\ Later
  /\ machine.service = "stopped"
  /\ machine' = [machine EXCEPT !.service = "running"]
  /\ UNCHANGED faults

\* What a step reads is spoilt from outside -- a key file or the peers file is torn, the
\* subnet is given away, a config file is edited...
Spoil ==
  /\ Later
  /\ Fault
  /\ \E l \in Spoilable \ machine.spoilt : machine' = [machine EXCEPT !.spoilt = @ \cup {l}]

\* ... and the operator may mend it, or take a service away that does not run.
Mend ==
  /\ Later
  /\ \/ \E l \in machine.spoilt : machine' = [machine EXCEPT !.spoilt = @ \ {l}]
     \/ /\ machine.service = "stopped"
        /\ machine' = [machine EXCEPT !.service = "none", !.serves = NoModel]
  /\ UNCHANGED faults

Outside == Outage \/ Reboot \/ Spoil \/ Mend

EngineStep ==
  \/ StepHead \/ VerifyErrs \/ VerifyHolds \/ VerifyLacks
  \/ RunSucceeds \/ RunFails \/ RollbackSucceeds \/ RollbackErrs \/ GiveUp

Next == Install \/ EngineStep \/ Killed \/ Outside

Spec == Init /\ [][Next]_vars

\* The engine never waits; an operator whose install did not succeed runs it
\* again.  Nobody is obliged to reboot or to mend anything.
FairSpec == Spec /\ WF_vars(EngineStep) /\ WF_vars(Install)

-----------------------------------------------------------------------------
\* A step that consumes a value of State finds it set, whether the step that
\* produces it ran or was skipped: State.String would silently give "".
ConsumersFindTheirKeys ==
  pc = "run" =>
    /\ Label = "install-llama-service" => {"llama_binary", "model_path"} \subseteq data
    /\ Label = "report"                => "join_token" \in data

\* A registered service always has a server binary and its model file on disk,
\* over any sequence of failed, killed and repeated runs.
ServiceHasItsFiles ==
  machine.service # "none" =>
    /\ machine.llama \in {"binary", "whole"}
    /\ machine.serves \in Models /\ machine.model[machine.serves] # "none"

\* When install returns nil the server is reachable and serving the model asked
\* for -- or the one it served when the run began, for a service that runs is
\* kept whatever it serves.
SuccessServes ==
  pc = "ok" =>
    /\ machine.wireguard /\ machine.conf /\ machine.tunnel
    /\ machine.service = "running" /\ machine.rules > 0
    /\ machine.serves = want \/ (start.service = "running" /\ machine.serves = start.serves)
    /\ "join_token" \in data

\* A run that fails, at any step, never takes a server that was up down.
FailureKeepsServing ==
  pc = "failed" =>
    /\ start.tunnel => machine.tunnel
    /\ start.service = "running" => machine.service = "running" /\ machine.serves = start.serves
    /\ start.rules > 0 => machine.rules > 0

Visible == {"install-wireguard", "acquire-llama"} \cup HasRollback
SeenIn(m) == {l \in Visible : Seen(l, m)}

Atomic == INSTANCE AtomicInstall WITH
  Kept     <- Visible,
  Undoable <- HasRollback,
  phase    <- IF pc \in Active THEN "running" ELSE pc,
  holds    <- SeenIn(IF pc \in Active THEN start ELSE machine),
  spoiled  <- IF pc = "failed"
              THEN {Plan[j] : j \in {i \in Steps : status[i] \in {"failed", "done"}}} \cap Visible
              ELSE {}

\* While nothing outside it touches the machine, the server's install is the
\* atomic operation of AtomicInstall: the tunnel, the service and the firewall
\* rule are all there or as they were.
ImplementsAtomicInstall ==
  Atomic!Init /\ [][Outside \/ Atomic!Next]_(Atomic!avars)

\* What no re-run mends: a step's input is spoilt and its work is not yet there.
NeedsMending ==
  \E l \in machine.spoilt : (l = "download-model" => want \in Models) => ~Seen(l, machine)

\* engine.go: "re-running a partially completed install resumes from where it
\* left off" -- so an operator who goes on re-running it succeeds, if nothing
\* that the steps read needs mending.
Resumes == []<>(pc = "ok" \/ NeedsMending)

\* Re-running the server's install succeeds in the end, whatever failed or was killed
\* before, unless something waits for the operator: an input that fails its step on
\* every run, or a service left registered but stopped.
ResumesUnlessStuck == []<>(pc = "ok" \/ NeedsMending \/ machine.service = "stopped")

\* download.go, when a transfer fails: "re-run install to resume".
SuccessHasWholeModel == pc = "ok" => machine.model[want] = "whole"
=============================================================================
