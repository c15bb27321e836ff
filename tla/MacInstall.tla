----------------------------- MODULE MacInstall -----------------------------
(***************************************************************************)
(* The client's install plan (internal/installer/mac) run by the engine on *)
(* a Mac.  The packages are found or installed; enrolling makes a new key, *)
(* its wg0.conf and the reply that registers it, on every run; the tunnel  *)
(* is started only when it is not active.  Enrollment is the other end of  *)
(* this: what becomes of the reply.                                        *)
(***************************************************************************)
EXTENDS InstallerEngine, FiniteSets

CONSTANTS
  Models,       \* the ids of models.yaml
  NoModel,      \* not one of them
  Keys,         \* client keys; one that nothing holds any more is used again
  NoKey,        \* not one of them
  OpenCodeVia,  \* versions.yaml's install_via
  MaxFaults     \* bound on failures, mistakes and kills in a behaviour

\* Plan's labels, in order.
Plan == << "preflight", "install-homebrew", "install-git", "install-opencode",
           "install-wireguard", "wireguard-enroll", "wireguard-tunnel-up",
           "opencode-config", "report" >>

ASSUME MacAssumption ==
  /\ N = Len(Plan) /\ MaxFaults \in Nat
  /\ NoModel \notin Models /\ NoKey \notin Keys /\ Cardinality(Keys) > 2
  /\ OpenCodeVia \in {"npm", "brew"}

VARIABLES
  machine,  \* what is on the machine: see Machines
  reply,    \* the key in State's KeyEnrollReply, NoKey when unset
  want,     \* the --model of this run
  mistake,  \* what is wrong with how this run was started, "none" mostly
  start,    \* machine as this run found it (history)
  faults    \* how many faults have happened (bound)

vars == <<evars, machine, reply, want, mistake, start, faults>>

Tools    == {"install-git", "install-opencode", "install-wireguard"}
Mistakes == {"none", "root", "blank token", "bad token", "bad model"}

Machines ==
  [ tools  : SUBSET Tools,             \* those whose binary is on PATH
    brew   : {"none", "off", "on"},    \* Homebrew: absent, off PATH, on PATH
    npm    : BOOLEAN,                  \* npm is on PATH
    conf   : Keys \cup {NoKey},        \* wg0.conf's key; NoKey: none, or cut short
    tunnel : Keys \cup {NoKey},        \* the key the tunnel was started with
    config : Models \cup {NoModel} ]   \* opencode.json's model, likewise

TypeOK ==
  /\ EngineTypeOK
  /\ machine \in Machines /\ start \in Machines
  /\ reply \in Keys \cup {NoKey}
  /\ want \in Models \cup {NoModel}
  /\ mistake \in Mistakes
  /\ faults \in 0..MaxFaults

Init ==
  /\ EngineInit
  /\ machine \in [ tools : SUBSET Tools, brew : {"none", "on"}, npm : BOOLEAN,
                   conf : {NoKey}, tunnel : {NoKey}, config : {NoModel} ]
  /\ reply = NoKey
  /\ want = NoModel /\ mistake = "none"
  /\ start = machine
  /\ faults = 0

Fault == faults < MaxFaults /\ faults' = faults + 1

-----------------------------------------------------------------------------
(* The steps.                                                              *)

\* Mutant: the tunnel step has no Verify.
SeenNoTunnel(l, m) ==
  \/ l = "install-homebrew"    /\ m.brew = "on"
  \/ l \in Tools               /\ l \in m.tools

\* Mutant: a client with a wg0.conf is taken to be enrolled.
SeenEnrolled(l, m) ==
  \/ l = "install-homebrew"    /\ m.brew = "on"
  \/ l \in Tools               /\ l \in m.tools
  \/ l = "wireguard-enroll"    /\ m.conf # NoKey
  \/ l = "wireguard-tunnel-up" /\ m.tunnel # NoKey

\* What the step's VerifyFunc reports; FALSE when nil.
Seen(l, m) ==
  \/ l = "install-homebrew"    /\ m.brew = "on"
  \/ l \in Tools               /\ l \in m.tools
  \/ l = "wireguard-tunnel-up" /\ m.tunnel # NoKey

\* What the step's Run cannot do without, whatever the network and disk do.
CanRun(l) ==
  /\ l = "preflight"            => mistake \notin {"root", "blank token"}
  /\ l \in Tools                =>
       IF l = "install-opencode" /\ OpenCodeVia = "npm"
       THEN machine.npm ELSE machine.brew = "on"
  /\ l = "wireguard-enroll"     => mistake # "bad token"
  /\ l = "wireguard-tunnel-up"  => machine.tunnel = NoKey /\ machine.conf # NoKey
  /\ l = "opencode-config"      => mistake # "bad model"

FreshKeys == Keys \ {machine.conf, machine.tunnel}

\* What the machine may be after the step's Run returned nil.  Homebrew's script
\* may leave brew in a directory that is not on PATH.
Ran(l) ==
  CASE l = "install-homebrew"    -> {[machine EXCEPT !.brew = b] : b \in {"off", "on"}}
    [] l \in Tools               -> {[machine EXCEPT !.tools = @ \cup {l}]}
    [] l = "wireguard-enroll"    -> {[machine EXCEPT !.conf = k] : k \in FreshKeys}
    [] l = "wireguard-tunnel-up" -> {[machine EXCEPT !.tunnel = machine.conf]}
    [] l = "opencode-config"     -> {[machine EXCEPT !.config = want]}
    [] OTHER                     -> {machine}

\* What it may be after that failed on the way: wg-quick takes back what it did,
\* a file may be whole, cut short or untouched, a package there or not.
HalfRan(l) ==
  {machine} \cup
  CASE l = "wireguard-tunnel-up" -> {}
    [] l = "wireguard-enroll"    -> Ran(l) \cup {[machine EXCEPT !.conf = NoKey]}
    [] l = "opencode-config"     -> Ran(l) \cup {[machine EXCEPT !.config = NoModel]}
    [] OTHER                     -> Ran(l)

HasRollback == {"wireguard-tunnel-up"}

TakenBack(l) ==
  IF l \in HasRollback THEN [machine EXCEPT !.tunnel = NoKey] ELSE machine

-----------------------------------------------------------------------------
(* The engine over these steps.                                            *)

Label       == Plan[cur]
UndoneLabel == Plan[Undone]

\* The operator starts a run, perhaps as root, with a token that is blank or
\* does not decode, or with a model id that is not in the registry.
Install ==
  /\ Launch
  /\ reply' = NoKey /\ start' = machine
  /\ want' \in Models /\ mistake' \in Mistakes
  /\ IF mistake' = "none" THEN UNCHANGED faults ELSE Fault
  /\ UNCHANGED machine

StepHead ==
  (Enter \/ Finish) /\ UNCHANGED <<machine, reply, want, mistake, start, faults>>

VerifyHolds ==
  /\ Skip
  /\ Seen(Label, machine)
  /\ UNCHANGED <<machine, reply, want, mistake, start, faults>>

\* Active takes any failure of `sudo wg show` for a tunnel that is down.
VerifyLacks ==
  /\ Begin
  /\ \/ ~Seen(Label, machine) /\ UNCHANGED faults
     \/ Seen(Label, machine) /\ Label = "wireguard-tunnel-up" /\ Fault
  /\ UNCHANGED <<machine, reply, want, mistake, start>>

RunSucceeds ==
  /\ Complete
  /\ CanRun(Label)
  /\ machine' \in Ran(Label)
  /\ reply' = IF Label = "wireguard-enroll" THEN machine'.conf ELSE reply
  /\ UNCHANGED <<want, mistake, start, faults>>

\* The curl inside Homebrew's "$(...)" fails: bash runs the empty script and the
\* step's Run returns nil with brew as it was.
HomebrewUnfetched ==
  /\ Complete
  /\ Label = "install-homebrew"
  /\ Fault
  /\ UNCHANGED <<machine, reply, want, mistake, start>>

\* reportStep prints and returns nil.
RunFails ==
  /\ Fail
  /\ Label # "report"
  /\ \/ CanRun(Label) /\ Fault /\ machine' \in HalfRan(Label)
     \/ ~CanRun(Label) /\ UNCHANGED <<machine, faults>>
  /\ UNCHANGED <<reply, want, mistake, start>>

RollbackSucceeds ==
  /\ Undo
  /\ machine' = TakenBack(UndoneLabel)
  /\ UNCHANGED <<reply, want, mistake, start, faults>>

\* `sudo wg-quick down` fails.
RollbackErrs ==
  /\ UndoFails
  /\ UndoneLabel \in HasRollback
  /\ Fault
  /\ UNCHANGED <<machine, reply, want, mistake, start>>

GiveUp == ReturnCause /\ UNCHANGED <<machine, reply, want, mistake, start, faults>>

\* The terminal is closed or the machine sleeps for good; a command under way
\* may be done, half done or not begun.
Killed ==
  /\ Crash
  /\ Fault
  /\ \/ UNCHANGED machine
     \/ pc = "run" /\ CanRun(Label) /\ machine' \in Ran(Label) \cup HalfRan(Label)
     \/ RollingBack /\ machine' = TakenBack(UndoneLabel)
  /\ UNCHANGED <<reply, want, mistake, start>>

\* Between two runs...
Later(m) ==
  /\ pc \notin Active
  /\ pc' = "idle"
  /\ machine' = m
  /\ UNCHANGED <<cur, completed, back, cancelled, status, reply, want, mistake, start, faults>>

\* ... a reboot takes the tunnel down, or the operator puts brew on PATH.
Reboot  == machine.tunnel # NoKey /\ Later([machine EXCEPT !.tunnel = NoKey])
FixPath == machine.brew = "off" /\ Later([machine EXCEPT !.brew = "on"])

EngineStep ==
  \/ StepHead \/ VerifyHolds \/ VerifyLacks \/ RunSucceeds \/ HomebrewUnfetched
  \/ RunFails \/ RollbackSucceeds \/ RollbackErrs \/ GiveUp

Next == Install \/ EngineStep \/ Killed \/ Reboot \/ FixPath

Spec == Init /\ [][Next]_vars

\* The engine never waits; an operator whose install did not succeed runs it
\* again.  Nobody is obliged to reboot, or to put brew on PATH.
FairSpec == Spec /\ WF_vars(EngineStep) /\ WF_vars(Install)

-----------------------------------------------------------------------------
\* When install returns nil the client has all it needs, for the model asked for
\* in this run, and the reply it printed registers the key in wg0.conf.
SuccessConfigures ==
  pc = "ok" =>
    /\ machine.tools = Tools /\ machine.tunnel # NoKey
    /\ machine.config = want
    /\ reply = machine.conf /\ reply # NoKey

\* The reply a run prints registers the key its tunnel runs, unless the run
\* found a tunnel already active, which it leaves with the key it had.
ReplyIsRunningKey ==
  pc = "ok" =>
    \/ machine.tunnel = reply
    \/ machine.tunnel = start.tunnel /\ start.tunnel # NoKey

\* A failed run, whose reply was not printed, leaves no tunnel up with its own
\* key, nor touches one it found, unless taking its own down failed as well.
NoStrayTunnel ==
  pc = "failed" =>
    \/ machine.tunnel = start.tunnel
    \/ \E k \in DOMAIN completed :
         Plan[completed[k]] = "wireguard-tunnel-up" /\ status[completed[k]] = "done"

\* So a run that returns leaves the client set up for the token and the model it
\* was given, or its tunnel as it was.
ConfiguredOrUntouched == SuccessConfigures /\ ReplyIsRunningKey /\ NoStrayTunnel

Visible == Tools \cup HasRollback
SeenIn(m) == {l \in Visible : Seen(l, m)}

Atomic == INSTANCE AtomicInstall WITH
  Kept     <- Visible,
  Undoable <- HasRollback,
  phase    <- IF pc \in Active THEN "running" ELSE pc,
  holds    <- SeenIn(IF pc \in Active THEN start ELSE machine),
  spoiled  <- IF pc = "failed"
              THEN {Plan[j] : j \in {i \in Steps : status[i] \in {"failed", "done"}}} \cap Visible
              ELSE {}

\* But for a reboot the client's install is the atomic operation of
\* AtomicInstall: the tools and the tunnel are all there, or as they were.
ImplementsAtomicInstall ==
  Atomic!Init /\ [][Reboot \/ FixPath \/ Atomic!Next]_(Atomic!avars)

\* engine.go: "re-running a partially completed install resumes from where it
\* left off" -- when the plan's package managers can be run at all: it installs
\* neither npm nor brew's place on PATH.
ResumesGivenPackagers == []<>(pc = "ok" \/ ~machine.npm \/ machine.brew = "off")
=============================================================================
