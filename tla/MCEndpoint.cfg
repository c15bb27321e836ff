SPECIFICATION FairSpec
CONSTANTS
  Width = 4
  Defaults <- MCDefaults
  UserDir = "user"
  Overrides <- MCOverrides
  MaxEdits = 2
  MaxOutages = 1
CHECK_DEADLOCK FALSE
INVARIANT
  TypeOK
PROPERTIES
  TokensSound
  
  ConvergesUnlessKept
