SPECIFICATION Spec
CONSTANTS
  a1 = a1
  a2 = a2
  b = b
  r1 = r1
  r2 = r2
  Users <- AllUsers
  EmailOf <- Mail
  Workers = {w1, w2}
  RowIds <- SubscriptionIds
  MaxTerm = 1
  MaxLost = 1
  None = None
INVARIANTS OneAccountPerPurchase
CHECK_DEADLOCK FALSE
