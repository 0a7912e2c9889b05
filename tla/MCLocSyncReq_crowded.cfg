SPECIFICATION Spec
CONSTANTS
  t1 = t1
  t2 = t2
  t3 = t3
  c1 = c1
  i1 = i1
  i2 = i2
  Threads = {t1, t2, t3}
  Clients = {c1}
  IndIds = {i1, i2}
  SizedInds = {i1, i2}
  Requests <- SameCall
  NumSlots = 2
  MaxCalls = 1
  Faults = {"timeout", "spurious"}
  InvalidHandle = InvalidHandle
  NoIndId = NoIndId
  NULL = NULL
INVARIANT
  EverySlotHasOneOwner
