SPECIFICATION FairSpec
CONSTANTS
  N = 9
  m1 = m1
  m2 = m2
  NoModel = NoModel
  Models <- MCModels
  k1 = k1
  k2 = k2
  k3 = k3
  NoKey = NoKey
  Keys <- MCKeys
  OpenCodeVia = "npm"
  MaxFaults = 3
INVARIANTS
  TypeOK
  ConfiguredOrUntouched
PROPERTIES
  ImplementsAtomicInstall
  ResumesGivenPackagers
