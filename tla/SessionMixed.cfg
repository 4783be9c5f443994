CONSTANTS
  u1 = u1
  u2 = u2
  w1 = w1
  w2 = w2
  c1 = c1
  Users <- TwoUsers
  Uploads <- OneUpload
  Records <- OneRecord
  Starts <- OneStart
  MaxTime = 1
  Stale = 1
  NoTime = NoTime
  NoUser = NoUser
SPECIFICATION Spec
INVARIANTS
  TypeOK
PROPERTIES
  DurationNeverRegresses
  OwnerIsKept
CHECK_DEADLOCK FALSE
SYMMETRY UserSymmetry
