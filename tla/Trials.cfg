CONSTANTS
  d1 = d1
  w1 = w1
  w2 = w2
  c1 = c1
  Users <- TwoUsers
  Devices <- OneDevice
  Grants <- TwoGrants
  Checks <- OneCheck
  Duration = 1
  MaxTime = 1
  MaxLost = 1
  None = None
SPECIFICATION Spec
INVARIANTS
  TypeOK
  TrialFollowsGrant
  FingerprintHasGrant
  SenderHoldsClaim
SYMMETRY GrantSymmetry
