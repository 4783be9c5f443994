SPECIFICATION Spec
CONSTANTS
  a1 = a1
  a2 = a2
  b = b
  Users <- AllUsers
  EmailOf <- Mail
  Workers = {w1, w2}
  r1 = r1
  r2 = r2
  RowIds <- SubscriptionIds
  MaxTerm = 1
  MaxLost = 1
  None = None
SYMMETRY Alike
INVARIANTS TypeOK LinkedHasSubscription AccessComesFromLink
PROPERTIES OnlyOvertakenTake ConversionLogged
CHECK_DEADLOCK FALSE
