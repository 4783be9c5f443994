SPECIFICATION Spec
CONSTANTS
  Subs = {s1}
  Hooks = {h1, h2}
  MaxPeriod = 2
  MaxChanges = 2
  MaxFaults = 1
  MaxCancels = 1
  MaxPassed = 0
  MaxLost = 0
  None = None
INVARIANTS CancellationStands
CHECK_DEADLOCK FALSE
