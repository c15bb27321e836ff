SPECIFICATION FairSpec
CONSTANTS
  N = 4
  Checked <- MCChecked
  Reversible <- MCReversible
  Honest <- MCHonest
  MaxFaults = 2
INVARIANTS
  SuccessIsComplete
  FailureRestores
  ReportIsTrue
  IInv
PROPERTIES
  OnlyOwnWorkUndone
  ImplementsAtomicInstall
  Resumes
