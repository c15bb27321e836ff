SPECIFICATION FairSpec
CONSTANTS
  N = 3
  Releases <- MCReleases
  Name <- MCName
  Fields <- MCFields
  First = "b4585"
  Last = "b4600"
  MaxFaults = 4
INVARIANT
  TypeOK
PROPERTIES
  KeepsTheStepContract
  ResumesUnlessStuck
