SPECIFICATION FairSpec
CONSTANTS
  Lengths <- Files
  PartLen = 4
  PartMod = 8
  LenMod = 16
  Faults = {"send", "refuse", "late"}
INVARIANT
  ReadsInsideFile
  CountedPartsTaken
  PartsAreRight
PROPERTY
  Returns
  ImplementsFairTransfer
CHECK_DEADLOCK FALSE
