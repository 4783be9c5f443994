SPECIFICATION Spec
CONSTANTS
  Users = {u1, u2, u3}
  Subs = {s1, s2}
  Purchases = {s1}
  Workers = {w1, w2}
  MaxRequests = 3
  None = None
SYMMETRY Alike
INVARIANTS TypeOK SharersConnected SharingNeedsLink ViewsAgree
CHECK_DEADLOCK FALSE
