CONSTANTS
  u1 = u1
  u2 = u2
  w1 = w1
  w2 = w2
  c1 = c1
  Users <- OneUser
  Uploads <- TwoUploads
  Records <- NoRecords
  Starts <- TwoStarts
  MaxTime = 2
  Stale = 1
  NoTime = NoTime
  NoUser = NoUser
SPECIFICATION Spec
PROPERTY
  LastSeenMovesForward
CHECK_DEADLOCK FALSE
