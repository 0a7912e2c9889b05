SPECIFICATION Spec
CONSTANTS
  Masks <- TwoUsers
  mExcludedMask <- Excluded
  Faults = {"send", "open", "crash_in_open"}
  MaxEngineOn = 2
  MaxRestarts = 1
INVARIANT
  MasksInStep
  RequestsAlwaysRegistered
