-------------------------- MODULE MCInstallerPlan --------------------------
(* InstallerPlan on four steps shaped like those of the two real plans: an *)
(* unchecked step (preflight), a checked download that cannot be undone,   *)
(* and two checked steps that can be (tunnel, service).                    *)
EXTENDS InstallerPlan

MCChecked    == {2, 3, 4}
MCReversible == {3, 4}
MCHonest     == {1, 3, 4}       \* the download may leave a decoy
=============================================================================
