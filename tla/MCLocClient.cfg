SPECIFICATION FairSpec
CONSTANTS
  b1 = b1
  b2 = b2
  none = none
  Blocks <- TwoBlocks
  NoBlock = none
  ReleaseWaits = TRUE
  Faults = {"alloc", "notifier", "init", "send", "release"}
  LOC_CLIENT_MAX_OPEN_RETRIES = 1
  MaxOpens = 2
  MaxDowns = 2
INVARIANT
  NoDanglingCallback
  CalledOnlyWhileOpen
  NoOrphans
PROPERTY
  ServiceNoticed
  OpenReturnsOrWaits
CHECK_DEADLOCK FALSE
