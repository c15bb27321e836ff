SPECIFICATION FairSpec
CONSTANTS
  F = 2
  Size <- TwoSizes
  MaxFaults = 3
INVARIANTS
  TypeOK
  InPlace
  VerifiedIsWhole
PROPERTIES
  OnlyRestartShrinks
  EventuallyDownloaded
