SPECIFICATION Spec
CONSTANTS
  c1 = c1
  c2 = c2
  Clients <- TwoClients
  Hosts <- Subnet
  Server = 1
  MaxKeys = 3
  MaxFaults = 2
SYMMETRY ClientSymmetry
INVARIANTS
  TypeOK
  AddressesUniqueIfCareful
  AckedIsServed
  AckedIsConnectedIfCareful
PROPERTY
  OnlySameAddressCutsOff
