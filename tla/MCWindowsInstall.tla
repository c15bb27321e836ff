-------------------------- MODULE MCWindowsInstall --------------------------
(* The server's plan with two models in the registry.                      *)
EXTENDS WindowsInstall
CONSTANTS m1, m2
MCModels == {m1, m2}
=============================================================================
