---------------------------- MODULE MCMacInstall ----------------------------
(* The client's plan with two models in the registry.  Three keys suffice:  *)
(* wg0.conf and the tunnel hold one each, and enrolling needs one more.     *)
EXTENDS MacInstall
CONSTANTS m1, m2, k1, k2, k3
MCModels == {m1, m2}
MCKeys   == {k1, k2, k3}
=============================================================================
