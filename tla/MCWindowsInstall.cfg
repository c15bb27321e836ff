SPECIFICATION FairSpec
CONSTANTS
  N = 9
  m1 = m1
  m2 = m2
  NoModel = NoModel
  Models <- MCModels
  MaxFaults = 3
  MaxRules = 2
INVARIANTS
  TypeOK
  ConsumersFindTheirKeys
  ServiceHasItsFiles
  SuccessServes
  FailureKeepsServing
PROPERTIES
  ImplementsAtomicInstall
  ResumesUnlessStuck
