CONSTANTS
  n1 = n1
  n2 = n2
  k1 = k1
  k2 = k2
  k3 = k3
  q1 = q1
  q2 = q2
  Nodes <- TwoNodes
  Keys <- TwoKeys
  Requests <- TwoRequests
  KeysOf <- EachCarriesOne
  MaxAttempts = 2
  LatePosts = 1
  Octet = 2
  None = None
SPECIFICATION FairSpec
INVARIANTS
  TypeOK
  UsableAddress
  RowRouted
  ScopedUnlessDisturbed
PROPERTY
  CallsEnd
