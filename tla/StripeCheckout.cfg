CONSTANTS
  r1 = r1
  r2 = r2
  Requests <- MCRequests
  Prior = Prior
  Manual = Manual
  Null = Null
SYMMETRY RequestSymmetry
SPECIFICATION Spec
INVARIANTS
  TypeOK
  OneTrialSession
  TrialSessionIsRecorded
  FailedCheckoutReleases
  MarkedTogether
PROPERTY
  OnlyHolderReleases TrialGivenOnce
CHECK_DEADLOCK FALSE
