---------------------------- MODULE NSSMService ----------------------------
(***************************************************************************)
(* The llama.cpp service as NSSMManager (internal/service) sees it: one    *)
(* nssm command at a time, on a service control manager that outlives the  *)
(* program.  What nssm itself does is external; here is what the manager   *)
(* and the installer rely on.                                              *)
(***************************************************************************)
EXTENDS Naturals, Sequences

CONSTANT Fields      \* the optional fields of service.Spec that are not empty

VARIABLE svc        \* the registration: its status and how many settings it has

\* Status answers; "paused" is how nssm holds a program that exits at once.
Statuses == {"absent", "stopped", "paused", "pending", "running"}

\* settings: one `nssm set` for each field that is there, then Start.
Settings ==
  LET If(key) == IF key \in Fields THEN <<key>> ELSE <<>>
  IN If("DisplayName") \o If("AppDirectory") \o If("AppStdout") \o If("AppStderr")
       \o If("AppEnvironmentExtra") \o <<"Start">>

Absent == [is |-> "absent", set |-> 0]

ServiceTypeOK == svc \in [is : Statuses, set : 0..Len(Settings)]
ServiceInit   == svc = Absent

Registered == svc.is # "absent"

\* nssm install does not take a name that is registered.
NssmInstall == ~Registered /\ svc' = [is |-> "stopped", set |-> 0]

NssmSet(k) == Registered /\ svc' = [svc EXCEPT !.set = k]

\* nssm start waits for the program: one that cannot load is paused, and one
\* that is slow to come up is reported as an error too.
NssmStart(loads)      == loads /\ svc' = [svc EXCEPT !.is = "running"]
NssmStartFails(loads) ==
  IF loads THEN svc' \in {svc, [svc EXCEPT !.is = "pending"]}
           ELSE svc' = [svc EXCEPT !.is = "paused"]

NssmStop == Registered /\ svc' = [svc EXCEPT !.is = "stopped"]

NssmRemove == svc' = Absent

\* Mutant: the answer for a service that runs is not recognized.
StatusTooStrict ==
  CASE svc.is \in {"stopped", "paused"} -> "stopped"
    [] svc.is = "absent"                -> "not-installed"
    [] OTHER                            -> "unknown"

\* NSSMManager.Status when nssm answers.
Status ==
  CASE svc.is = "running"               -> "running"
    [] svc.is \in {"stopped", "paused"} -> "stopped"
    [] svc.is = "absent"                -> "not-installed"
    [] OTHER                            -> "unknown"
=============================================================================
