CONSTANTS
  d1 = d1
  w1 = w1
  w2 = w2
  c1 = c1
  Users <- TwoUsers
  Devices <- OneDevice
  Grants <- TwoGrants
  Checks <- NoChecks
  Duration = 1
  MaxTime = 1
  MaxLost = 2
  None = None
SPECIFICATION Spec
INVARIANTS
  SenderHoldsClaim
PROPERTY
  StartLogged
SYMMETRY GrantSymmetry
