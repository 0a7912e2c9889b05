SPECIFICATION FairSpec
CONSTANTS
  b1 = b1
  b2 = b2
  none = none
  Blocks <- TwoBlocks
  NULL = none
  ProfileLists <- Lists
  MaxWaits = 2
  Faults = {"notifier", "init", "alloc", "list", "settings", "release", "session", "dsi", "start", "stop"}
  Retries = FALSE
  ReleaseWaits = TRUE
  MaxOpens = 3
  MaxDowns = 2
INVARIANT
  EventFindsCaller
  SessionsReachable
  FirstEmergencyProfile
  CleanAfterSuccess
PROPERTY
  OpenReturns
CHECK_DEADLOCK FALSE
