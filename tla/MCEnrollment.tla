---------------------------- MODULE MCEnrollment ----------------------------
(* A server and one or two clients in a subnet with three client addresses,*)
(* the first of which the server hands out next to its own.                *)
EXTENDS Enrollment, TLC
CONSTANTS c1, c2
OneClient  == {c1}
TwoClients == {c1, c2}
Subnet     == 1..4
ClientSymmetry == Permutations(TwoClients)
=============================================================================
