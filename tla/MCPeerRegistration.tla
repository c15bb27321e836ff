------------------------- MODULE MCPeerRegistration -------------------------
(* Two commands at the same time, or one operator who waits for each; two    *)
(* clients.                                                                  *)
EXTENDS PeerRegistration, TLC
CONSTANTS p1, p2, c1, c2
OneProc   == {p1}
TwoProcs  == {p1, p2}
MCClients == {c1, c2}
Symmetry  == Permutations(MCClients) \cup Permutations(TwoProcs)
=============================================================================
