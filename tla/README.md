# TLA+ models of loca-agent

`bootstrap-ai` installs two machines: a Windows server that runs llama.cpp, and
macOS clients that reach it through a WireGuard tunnel. What is hard to get right
in it is not any one function but what is left when something stops half-way: a
step fails and the completed ones are rolled back; a run is killed and the
operator starts it again; a file is truncated and not yet written; a download is
cut and resumed; two commands write the same file; the settings change under
what is running; a token or a reply, carried by hand, is used late, twice or
never. The models are about that.

## The system

| Component | State | Operations | Who uses it |
| --- | --- | --- | --- |
| Engine (`internal/installer`) | completed steps, State's keys; nothing on disk | `Run`, `rollback`, `report`; `Step.Verify/Run/Rollback` | the `install` command, once per process |
| Server plan (`installer/windows`) | programs, `wg0.conf`, services, firewall rules on the machine | nine steps | the engine |
| Client plan (`installer/mac`) | programs, `wg0.conf`, tunnel | nine steps | the engine |
| Enrolment files (`internal/wgtunnel`) | `peers.json`, `server.key`, `wg0.conf`, the tunnel service | `Load`, `Save`, `Add`, `LoadOrCreateKey`, `WriteConfig`, `Up`, `Down`, `Active` | `add-peer`, the server plan |
| Enrolment protocol (`internal/wireguard`) | none: pure functions over keys, addresses, tokens | `NextClientAddress`, `MintToken`, `Enroll`, `PeerFromReply`, `Config`, `Render` | both plans, `add-peer` |
| Download (`internal/model`) | the model's files | `Download`, `Fetch`, `VerifySHA256` | the server plan |
| llama.cpp (`internal/llama`) | archive and unpacked directory | `Acquire`, `Unzip`, `FindServerBinary` | the server plan |
| Service (`internal/service`) | the Windows service's registration and state | `Install`, `Start`, `Stop`, `Remove`, `Status` | the server plan |
| Configuration (`internal/config`) | none after `Load` | `Load`, `Validate` | every command |
| The rest | | `doctor`, `status`, `models` read only; `benchmark`, `configure`, `logs`, `uninstall`, `update` are stubs; `ui`, `logging`, `errs`, `platform`, `probe`, `sys`, `opencode` | |

Calls go down this table; the only state shared between processes is on disk and
in the operating system, and nothing locks it. The machines talk only through
text the operator carries: a join token one way, an enrolment reply the other.

What makes each component correct:

- *Engine*: a nil return means the work is done; an error return takes back what
  this run did, newest first, and only that; re-running resumes.
- *Server plan*: success is a serving machine; failure never stops one; no
  partial state is taken for a whole one, and none blocks the next run.
- *Client plan*: success is a configured client and the reply of its key; failure
  leaves no tunnel of its own and stops none it found.
- *Enrolment files*: an acknowledged client stays registered, once, and is
  served; the server's identity is stable.
- *Enrolment protocol*: an acknowledged client can talk to the server, whatever
  others enrol.
- *Download*: a resumed file is the file; verified means whole.
- *llama.cpp and the service*: a step that says it is done leaves all of the
  configured release, and a service with all of its settings; what a failure
  leaves is mended by the next run or seen not to be done.
- *Configuration*: what the commands make of the settings of the two machines is
  an endpoint that answers, and running them again does not lose it.

## The modules

| Module | Models | Extends / instantiates |
| --- | --- | --- |
| `InstallerEngine` | `Engine.Run`, `rollback`, `report`: control only; `EngineInv`, what every run keeps | |
| `AtomicInstall` | what an install promises, with no steps in it | |
| `InstallerPlan` | the engine over any plan that keeps the `Step` contract | `InstallerEngine`; refines `AtomicInstall` |
| `WindowsInstall` | the engine over the nine steps of the server | `InstallerEngine`; refines `AtomicInstall` |
| `MacInstall` | the engine over the nine steps of the client | `InstallerEngine`; refines `AtomicInstall` |
| `PeerRegistration` | `add-peer` and `install` over the server's files | |
| `Enrollment` | server, clients and the papers between them | |
| `ModelDownload` | `Download` over `HTTPSource.Fetch` | |
| `LlamaAcquire` | what `Acquire`, `Unzip` and `FindServerBinary` do to the disk, as operators | |
| `NSSMService` | what `NSSMManager` does to the registration, likewise | |
| `ServerPrograms` | the two steps that call them, one archive entry or `nssm` command at a time | `InstallerEngine`, the two above; refines `InstallerPlan` |
| `Addresses` | `netip`'s prefixes and `NextClientAddress`, in a space of `Width` bits | |
| `Config` | `Load`: defaults, overrides, `resolveDefaults`, `Validate` | `Addresses` |
| `Endpoint` | both machines under changing settings, and whether a request arrives | `Config` |
| `InstallerPlan_proof`, `WindowsInstall_proof`, `MacInstall_proof`, `PeerRegistration_proof`, `Enrollment_proof`, `ModelDownload_proof`, `ServerPrograms_proof`, `Endpoint_proof` | the theorems about the module of the name, their invariants and lemmas | that module, `TLAPS`; the second, third and seventh take the engine's lemmas from the first by `INSTANCE` |
| `MC...` | small instances for TLC | the module of the name |

**InstallerEngine.** `pc` is the place in `Run`'s loop: `check` (its head, where
`ctx.Err` is looked at), `verify`, `run`, `rollback`, and `idle`, `ok`, `failed`
between runs. `cur` is the loop variable, `completed` the slice, `back` the index
in `rollback`'s loop, `status` the last thing `Progress` was told of each step.
There is an action for each way out of each call (`Skip`, `Begin`,
`VerifyFails`, `Complete`, `Fail`, `Undo`, `UndoFails`...), so the extending modules
say only what the steps do to the machine, and when. `Crash` is the death of the
process: the control is lost and the machine is not.

**InstallerPlan** gives a step's work four values -- absent, partial, a *decoy*
that Verify takes for the work, present -- and lets any Run fail or be killed
leaving any of them, except that an `Honest` step never leaves a decoy. A step may
have no Verify (`Checked`) or no Rollback (`Reversible`), as `FuncStep` allows.
Under a cancelled context commands fail of themselves, those of the rollback too,
because `rollback` is given the same context and `exec.CommandContext` starts
nothing under a cancelled one.

**WindowsInstall** makes the steps concrete. `machine` is a record with one field
for each thing a step makes; `Seen`, `Ran`, `HalfRan`, `TakenBack` and `HalfTakenBack` are what
each step's Verify, Run, failed Run, Rollback and failed Rollback see and leave.
`data` is `State.data`, which a *skipped* step must fill too. Between runs the
service or the tunnel may stop, and a reboot starts an auto-start service. Not every
failure goes away by itself: `machine.spoilt` has the steps that fail on every run because
of what they read -- a cached installer or archive that is not what was published, a `peers.json` or
`server.key` that does not parse, a subnet that is full, an entry of the settings that leads nowhere.
`Spoil` does that from outside and a failed Run from inside; only the operator's `Mend` undoes it.
The probes that answer "absent" on any error of theirs are the steps in `Guessing`.

**MacInstall** does the same for the client. Its `machine` has the packages that are
on PATH, the key in `wg0.conf`, the key the tunnel was started with and the model
in `opencode.json`; `reply` is `State.data`'s `KeyEnrollReply`. Every enrolment
takes a key that nothing holds, so keys need no bound. `mistake` is what the
operator got wrong (run as root, a blank or undecodable token, an unknown model):
each is noticed by a different step, the last one after the tunnel is up. npm is
needed and not installed by the plan, and Homebrew's script may leave `brew` off
PATH; the operator may put it there between runs (`FixPath`). The curl inside the
script's `$(...)` may fail, and then the step returns nil with nothing installed (`HomebrewUnfetched`).

**PeerRegistration** takes the two commands apart into file operations.
`os.WriteFile` truncates and then writes, so every file has a `Torn` value
in between; a kill may leave it, and a second writer that finds the file written
since its own truncation may leave it `Mixed`, unless the texts are of one length,
as keys are. `proc[p]` is where command `p` is, the peers and key it has in memory
and, as history, whether others ran `beside` it: what a command promises depends
on that. An add-peer that overlaps another may lose its peer, so only one that had no
other add-peer beside it counts as `acked`; one that any command overlapped may
write an old config, so only one that ran `Alone` is asked to leave everything in agreement. The installer's other steps are one action,
`RestOfInstall`, that succeeds (and prints a token) or fails (and rolls the tunnel back).

**Enrollment** is the protocol of both machines: the server's commands are single
steps here, with the ways they stop half-way. A client's install is taken from
its enroll step on. `Connected` is what WireGuard does with the two configs: the
client's key is the peer's, and of several peers with the same `/32` the last named gets the packets.
The server's own key is taken as one and the same throughout; how `LoadOrCreateKey` may
replace it is in `PeerRegistration` (`StableIdentity`, and the run `registration_flaky`).
An operator is *careful* who asks for a token only when every reply was
registered or thrown away, and uses a token once; the other kind does anything.

**ModelDownload** moves the body a unit at a time. A unit is the pair of the
version of the file it came from and its place in it, so that a duplicated,
skipped or mixed unit can be told from the right one. Whether models.yaml has
checksums and whether responses carry a length are chosen at the start.

**ServerPrograms** opens up two steps that `WindowsInstall` takes in one piece. `at` is the
call under way and `entry` the archive entry or the setting it is at; the engine's
control is `InstallerEngine`'s. `dir` has for every entry of the archive the release
it is whole from, or `"torn"`; all releases are unpacked into one directory, while
each archive has the release tag in its name. The operator may name another
release between runs (`Update`). `World` says in the four words of `InstallerPlan` what
the machine holds of each step's work, so that `KeepsTheStepContract` can be
stated as the refinement: what the theorems about `InstallerPlan` assume of a step,
these two do. `AcquireWork` is dishonest: a binary that is found may be of another release or
lie beside torn libraries, which is why it is not in `Honest`.

**Endpoint** has the settings of both machines as variables (`over`, what the operator
wrote into the override directory of each), everything the commands make of
them, and commands that are single steps. `Edit` changes the settings; `InstallServer`,
`InstallClient` and `AddPeer` apply them, each to some of the state only: the installer keeps
a tunnel that is active and a service that runs, `add-peer` restarts the tunnel but not
the service, the client takes the server's address for its tunnel from the token and
for OpenCode from its own settings. Each command may also fail part of the way
(`InstallServerFails`, `InstallClientFails`, `AddPeerFails`): a config is torn, a step after it fails
and its predecessors are rolled back or not, or `add-peer`, which drops `Down`'s error and returns
`Up`'s, ends with no tunnel. The firewall rule (`open`) and the port that tunnels listen at and dial
are settings like the others; for the endpoint it dials the operator takes the default. `Reaches` is
what it is all for: a request goes from OpenCode to a port that is let in, through two
tunnels that know each other, to a service that listens there.

A definition whose comment begins with *Mutant* is a plausible bug in the
definition after it; no specification uses it. Replacing the definition by it
violates the property it is meant for, which shows that the run can fail.

## The runs

| Run | Shows | Bounds |
| --- | --- | --- |
| `plan` | all properties of `InstallerPlan`, safety, refinement and liveness | 4 steps (unchecked; checked, irreversible and dishonest; two checked and reversible), 2 faults per behaviour, any number of runs |
| `windows` | all properties of `WindowsInstall` but the ones below; re-running stops only at an input the operator must mend or a service left stopped | the 9 steps, 2 models, 3 faults, 2 rules of the same name |
| `mac` | all properties of `MacInstall` | the 9 steps, 2 models, 3 keys, 3 faults (operator mistakes included), OpenCode by npm |
| `registration` | all properties of `PeerRegistration` but the one below | 2 commands at a time, 2 clients, 1 fault, any number of commands; symmetry in both |
| `enrollment` | all properties of `Enrollment` | 2 clients, 3 client addresses, 3 key pairs, 2 faults |
| `download` | all properties of `ModelDownload` | 2 files, versions of 3 and 2 units, 3 faults |
| `programs` | the two steps keep `InstallerPlan`'s contract, and re-running mends all but a bad archive and a registered service that does not run | 2 releases, an archive of 3 entries with the binary in the middle, 5 settings, 4 faults |
| `endpoint` | which addresses tokens offer, that re-running keeps an endpoint, and that it makes one | 16 addresses, 16 override directories, 2 edits, 1 outage or failed command |

A *fault* is a failure, a kill or an outage; bounding them is what makes "re-running
succeeds" a sensible claim and the state space finite. Two or three are enough
to fail a run, break its rollback, and kill the next one. The four steps of `plan` are the kinds
the two real plans have, with two reversible ones so that order matters; the proofs cover the rest.
Three keys are one each for `wg0.conf`, the tunnel and the enrolment under way.
In `registration` two commands
of either kind and one fault cover every pair of a writer and its rival and a kill of one
of them; symmetry is sound, as no property is temporal but one action property that
names no client or command. Three key pairs let
one client re-enrol while another is registered. Versions of different lengths let a partial file be both shorter
and longer than the new one, which are two answers (206 and 416). In `programs` there are
entries before and after the binary, so a torn directory may or may not have one
that is found. In `endpoint` the default subnet is four addresses in the middle of the space,
another is written with host bits set and ends where the space does, and each
override directory has one thing to it: another address, a listen address that does
not follow, an address that is blank (`Validate` refuses it) or does not parse (only rendering
does), a bad subnet, another port of the service or of the tunnel, either of them 0, a file that is garbled, a bad model list
or default, or another `config_dir`; two edits
make a change and its reversal, or two settings that disagree.

Four runs end in a violation: the code does something else than its text says.

| Run | What happens | What is said |
| --- | --- | --- |
| `windows_resumes` | `nssm install` succeeds, `set` or `start` fails: the service stays registered and stopped, nobody undoes it, and `nssm install` fails on every re-run | engine.go:21 "re-running a partially completed install resumes" |
| `windows_whole_model` | a partial model file passes Verify on the re-run | download.go:40 "re-run install to resume" |
| `registration_flaky` | any error of reading `server.key` replaces it | keystore.go:13 "keeps a machine's identity ... stable" |
| `enrollment_reinstall` | a client's re-install makes new keys and keeps the old tunnel | installer.go:6 "re-running install is safe" |

More the models contain without a run of their own: `install --model other`
succeeds and changes nothing while the service runs; a half-unpacked llama.cpp
archive passes Verify like the partial model; a client's re-install that fails
after its enroll step has replaced a working `wg0.conf` by one whose reply nobody
saw; of two `add-peer`s at once one may be lost though both say registered (it is not
`acked`); two first commands at once make two server keys (`misread`); a `release_tag` that
changes after an install is never unpacked, because the old binary satisfies
Verify, and after a failed extraction the directory mixes releases (`AcquireWork`'s decoy);
a `config_dir` that is changed and changed back lets a reply take an address that a peer
already has (`InForce` excepts it); with the subnet full the server's install fails
before it raises its tunnel (`InstallServerFull`); settings edited after an install reach
the tunnel by `add-peer` only, the service and the firewall rule never (`ServiceKept`, `RuleKept`); an
`add-peer` run again whose `Up` fails takes a working endpoint's tunnel away (`RerunKeepsEndpoint` excepts it, and says
that the config and the reply to bring it back are there); a client whose own
settings disagree with the server's gets a URL that does not answer (`Shared`); after a 200
the reported count goes on from the old offset; `Progress.Total` is -1, not 0, when unknown; and under a cancelled context no
rollback command starts (the command line itself never cancels its context).

### Fairness

`plan`, `windows`, `mac` and `programs`: `WF(EngineStep)`, because the engine is a sequential loop that
never waits but for the commands it runs; and weak fairness of the next run, because
the claim is about an operator who goes on re-running. Nobody is obliged to
reboot, to mend PATH, what is spoilt or a stopped service, or to delete a bad archive, so none of it is waited out:
`ResumesUnlessStuck` of `windows` and of `programs` names what waits for the operator, and
`ResumesGivenPackagers` excepts a client where npm or brew cannot be run. `download`: the same
for a download under way and for an operator who re-runs it; `SF(DeleteFile)`, since
the operator may re-run a few times before doing what the message says; and the
property assumes that the origin in the end serves the pinned version. `endpoint`: an operator whose endpoint does not answer goes on running the
server's install and registers the reply he holds; he runs the client's install only when
its tunnel is down or its settings have changed. Nobody is obliged to edit, boot or
clear anything, so `ConvergesUnlessKept` names what only that would mend.

## What is proved

Every theorem holds for all values of the constants that the module's ASSUME admits; the
assumptions are listed with each. In each module `IInv` is the inductive invariant: `InitIInv`
is its start, `NextKeepsIInv` its step, `Inductive` the theorem `Spec => []IInv`. The safety
properties of the runs follow from it, `TypeCorrect` among them.

**The engine, `InstallerPlan_proof`**, for every number of steps, every `Checked`, `Reversible` and
`Honest` and every number of faults (`NAssumption`, `PlanAssumption`): `AllAccounted`,
`RollsBackNewestFirst`, `CompleteOnSuccess`, `RestoredOnFailure`, `TrueReport`; the action
property `UndoesOnlyOwnWork`; and `Refines`, that the engine over any such plan implements
`AtomicInstall`. That a failed run restored the machine is not inductive by itself: it follows only
if one knows, while the run walks forward, which steps were untouched, skipped or done, and while
it walks back, which of `completed` are still whole. `Forward` and `Backward` tie `status` to
`cur` and `back`, and `StepFact(j)` says what step `j`'s status implies about `world[j]` and
`start[j]`. `NoDecoy` is what makes success complete. The refinement needs besides that a run
takes nothing away, in progress or over (`NothingLost`, `DoneWhenFailed`).

**The two plans.** What they share is in the first part of `InstallerPlan_proof`: `EngineInv`, on
the control alone, is kept by every action of the engine (`EngineKept`), whatever the steps do. The
other modules about the engine take it by `INSTANCE`, and show that their engine is the instance's.

- `WindowsInstall_proof`, for any models, faults and rules (`WindowsAssumption`): `KeysFound`
  (no step reads a key of `State` that none set), `FilesThere`, `ServesOnSuccess`,
  `KeepsServing`, and `Refines`. `Walked` says what each step the loop has passed left on the
  machine and in `State.data`, whether it ran or was skipped; `StillThere` and `FoundNothing`, that
  the run took nothing away and completed the undoable steps only where there was nothing; and
  `TurnedBack`, what is still to undo. The rule of the firewall is the delicate one: its rollback
  deletes by name, also a rule that Verify did not see, and it is harmless only because no step
  after it fails (`cur <= 8`). The inputs may be spoilt in any way: nothing rests on a step being able to succeed.
- `MacInstall_proof`, for any models, keys and faults (`MacAssumption`): `ReturnsClean` and
  `Refines`. They rest on `TurnedBack`: once a run has turned back, the tunnel is as the run found
  it, or tunnel-up is still reported done.

**`ServerPrograms_proof`**, for any releases, any archive, any set of optional settings and any number of
faults (`ProgramsAssumption`, `AcquireAssumption`): `KeepsContract`, that `acquire-llama` and
`install-llama-service`, one file or `nssm` command at a time, killed or failed anywhere, take steps
of `InstallerPlan`. So the plan's theorems, which assume of a step only that contract, speak of
these steps. The contract compares what a Run leaves with what it found many commands earlier, and `IInv` carries that
across the commands: `CallOfStep` (which command belongs to which step of the engine), `OthersHeld`
(what it found of the *other* steps' work is still so), `Unpacked` (the entries before the one Unzip is at are whole,
and of the configured release, whatever lay there) and `SetUp` (the settings so far are set; a
service that this run completed and that runs has them all). `Finds` is that `FindServerBinary`
returns a best-ranked binary whenever one lies there. Three kinds of step are excepted by the property and so by the theorem:
what happens between runs, a fault that the code goes on after (a body received wrong), and a Run that fails with nothing new
amiss: on a bad archive, a service already registered, torn files, or an archive without a
server in it. A plan of `InstallerPlan` has no such failure, so its `CompleteOnSuccess` and
`RestoredOnFailure` say nothing of the runs that have one; `WindowsInstall_proof` does, step by step.

**`PeerRegistration_proof`**, for any finite number of commands at the same time, any clients and any
number of faults (`RegistrationAssumption`): `AckedStays`, `TakesEffect`, `StableIdentity` and the action
property `ConfigFollowsStore`. What is written depends on what was read many steps before, so
the invariant carries the files' contents through each command's memory: `AckedStay` (whatever is about
to be saved has every acknowledged peer), `Saved`, `InStep` (what a command that
is alone holds is what the files hold) and `OneKey` (unless one was misread, there is one maker of the key).
`Aware` is what makes these inductive: of two commands that overlap, each knows of the other.
That a client is in `peers.json` *once* is injectivity of the list, kept by `Add`.

**`Enrollment_proof`**, for any clients, subnet, keys and faults (`EnrollmentAssumption`):
`AddressesUnique`, `AckedServed`, `AckedConnected` and the action property `CutOffByOwnAddressOnly`.
The reason is that a careful operator has at most one address on its way at a time
(`OneAtATime`), that it is not in the store until its reply is registered (`NotYetTaken`),
that a key goes with one address wherever it is written down (`KeyFixesPeer`), and that the config lags
the store and the tunnel the config (`Lagging`). `FreeHasLeast` is that the scan for a free
address ends at one whenever there is one.

**`ModelDownload_proof`**, for any number of files, any versions and sizes and any number of faults
(`DownloadAssumption`): `UnitsInPlace`, `VerifiedWhole` and the action property `ResumeKeepsBytes`.
`VerifiedWhole` without checksums is about a file that was cut and resumed many times:
`Sound` says that each unit is in its place and from a version no older than the unit before it,
`Receiving` that a body goes on where the file ends. While nothing newer is published a file that is long enough can then only be the whole one (`FullIsWhole`).
`SizesBounded` and `LeastExists` stand in for induction: a least counterexample (`WFMin` on the naturals) where
an induction rule would have an operator as its parameter. `Receiving` also bounds the count that
the progress display gets, which may exceed the file's size when a 200 answers a resume.

**`Endpoint_proof`**, for addresses of any width, any defaults and any finite set of overrides whose
fields parse or do not (`WidthAssumption`, `ConfigAssumption`, `EndpointAssumption`), any number of
edits and outages. `NextIsLeastFree`: over every prefix and every set of addresses that are taken,
`NextClientAddress` returns the least host address that is not, and fails only when there is none.
So `Enrollment`, whose addresses have no bits, is right to take the least free element of the subnet. The
scan is a recursive function, and what it returns for every input would be an induction; instead,
`ScanExists` gives a solution of its equation outright, and `ScanFinds` shows that any
solution finds what is first, for a greatest address at which it did not would be
followed by one at which it did. `Containing` relates the masked bits of an address to the
prefix's first and last one; `Powers` (`2^n` is positive, since it counts subsets) is all that is
needed of exponentiation.

`TokensAreSound` is `NextIsLeastFree` at the settings in force: the set the scan is given is the
server's address and the store's. `RerunsAreSafe` needs more, since a command finds what others, under
other settings, left. A tunnel lags its directory's store by at most the reply that is pending, which an
`add-peer` that failed has saved (`Lagging`); that reply's address is no other peer's of the server it
was made for (`OfferFree` for the token, `ReplyFree` from then on), which is why restarting the tunnel
with it takes no address from the client that is connected (`StillReaches`); and that holds because there is one paper at a
time (`OnePaper`). The one command that may cut the endpoint off is an `add-peer` that takes the tunnel down
and cannot bring it up; of it the theorem says that the config it wrote is one through which the endpoint
answers, and that the reply is still there to run it with again -- for which every config must be its own
directory's (`ConfsAreTheirs`). The theorem's condition that the settings are
`InForce` includes that the reply is for the directory it is registered in: `ReplyFree` says
nothing of another's store.

**Only model-checked**: liveness (`Resumes...`, `EventuallyDownloaded`, `ConvergesUnlessKept`), which the prover does
not do, and the four runs that end in a violation.

## What is not modelled

- *Read-only commands and their probes* (`doctor`, `status`, `models`), *UI, logging, errors,
  platform detection*: they change no state that another part reads, and what they
  print is wording. *Stub commands* return an error and do nothing. *Wiring* (`cli`,
  `app`, `main`) builds values that the models have as constants or settings.
- *Texts*: encoding of tokens and replies (their validation, by the fields they must
  have, is in `Endpoint`), rendering of configs and of `nssm` and `netsh` arguments.
- *Keys*: a key is a number; the preshared key goes with the key it was made with. The server's key is
  fixed in `Enrollment` and goes with the `config_dir` in `Endpoint`; its replacement is in `PeerRegistration` alone.
- *Settings* that only reach a command line or a log (names, versions, repositories, paths
  other than `config_dir`): `Config` merges them like the others, and no property tells them apart.
- *The install command's prompts*: the role is the operator's choice of action; for the endpoint
  he takes the default in `Endpoint`, and elsewhere it is not told apart.
- *Hardware and time*: torn writes shorter than a file, disk full (a failure like others), timeouts.
- *A cancelled context on the command line*: `cli/root.go` passes one that is never
  cancelled, so only `InstallerPlan` has `Cancel`; an interrupt is a kill.

## Plan

Everything planned is done: the engine, its contract and refinement; the two plans; the programs step by
step and that they keep the contract; the enrolment files under two commands; the protocol; the
download; the settings of both machines; and the proofs of every safety and action property
that the passing runs check. What would come next is outside the planned scope: `doctor`'s
findings against the states of `Endpoint`, and the update and uninstall commands once they exist.
