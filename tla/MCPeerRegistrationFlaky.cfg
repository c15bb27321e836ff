SPECIFICATION Spec
CONSTANTS
  p1 = p1
  p2 = p2
  c1 = c1
  c2 = c2
  Procs <- TwoProcs
  Clients <- MCClients
  MaxFaults = 1
SYMMETRY Symmetry
INVARIANT
  IdentityIsStable
