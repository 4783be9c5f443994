CONSTANTS
  r1 = r1
  r2 = r2
  Requests <- MCRequests
  Prior = Prior
  Manual = Manual
  Null = Null
SPECIFICATION Spec
PROPERTY
  NoCheckoutWhileActive
CHECK_DEADLOCK FALSE
