CONSTANTS
  n1 = n1
  n2 = n2
  k1 = k1
  k2 = k2
  k3 = k3
  q1 = q1
  q2 = q2
  Nodes <- TwoNodes
  Keys <- ThreeKeys
  Requests <- OneRequest
  KeysOf <- OneCarriesAll
  MaxAttempts = 2
  LatePosts = 0
  Octet = 4
  None = None
SPECIFICATION Spec
INVARIANT
  AddressScoped
