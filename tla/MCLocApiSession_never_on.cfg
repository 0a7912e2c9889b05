SPECIFICATION Spec
CONSTANTS
  Masks <- OneUser
  mExcludedMask <- Excluded
  Faults = {}
  MaxEngineOn = 1
  MaxRestarts = 0
INVARIANT
  QuietIfEngineNeverOn
