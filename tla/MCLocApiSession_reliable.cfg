SPECIFICATION FairSpec
CONSTANTS
  Masks <- ThreeUsers
  mExcludedMask <- Excluded
  Faults = {}
  MaxEngineOn = 2
  MaxRestarts = 2
INVARIANT
  SessionReportsRegistered
  ClientCopyInStep
  TrackingOnlyWhileEngineOn
  AllUsersServed
  LossIsReported
PROPERTY
  EngineOffQuiets
  Reconnects
