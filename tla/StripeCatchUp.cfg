SPECIFICATION FairSpec
CONSTANTS
  Subs = {s1}
  Hooks = {h1, h2}
  MaxPeriod = 1
  MaxChanges = 2
  MaxFaults = 1
  MaxCancels = 1
  MaxPassed = 0
  MaxLost = 0
  None = None
PROPERTIES RowsGetOwner EventsAnswered
CHECK_DEADLOCK FALSE
