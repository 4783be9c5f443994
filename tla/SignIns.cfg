SPECIFICATION SignInSpec
CONSTANTS
  Accounts = {x1, x2}
  Requests = {w1, w2}
  Firebase <- AllFirebase
  AppleTokens <- AllApple
  Written <- AllWritten
  MaxCalls = 4
  Null = Null
  g1 = g1
  g2 = g2
  f1 = f1
  a1 = a1
  e1 = e1
  e2 = e2
  r1 = r1
SYMMETRY Alike
INVARIANTS SignInTypeOK OnePersonPerAccount
CHECK_DEADLOCK FALSE
