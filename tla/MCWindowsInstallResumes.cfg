SPECIFICATION FairSpec
CONSTANTS
  N = 9
  m1 = m1
  m2 = m2
  NoModel = NoModel
  Models <- MCModels
  MaxFaults = 1
  MaxRules = 2
PROPERTY
  Resumes
