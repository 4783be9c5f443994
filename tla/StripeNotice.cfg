SPECIFICATION Spec
CONSTANTS
  Subs = {s1}
  Hooks = {h1, h2}
  MaxPeriod = 1
  MaxChanges = 2
  MaxFaults = 1
  MaxCancels = 0
  MaxPassed = 0
  MaxLost = 1
  None = None
INVARIANTS NotifiedOnce
CHECK_DEADLOCK FALSE
