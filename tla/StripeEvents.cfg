SPECIFICATION Spec
CONSTANTS
  Subs = {s1}
  Hooks = {h1, h2}
  MaxPeriod = 2
  MaxChanges = 2
  MaxFaults = 2
  MaxCancels = 0
  MaxPassed = 1
  MaxLost = 1
  None = None
SYMMETRY AlikeHooks
INVARIANTS TypeOK AnsweredStored
PROPERTIES ConversionLogged
CHECK_DEADLOCK FALSE
