SPECIFICATION Spec
CONSTANTS
  c1 = c1
  c2 = c2
  Clients <- OneClient
  Hosts <- Subnet
  Server = 1
  MaxKeys = 2
  MaxFaults = 0
INVARIANT
  ReinstallIsSafe
