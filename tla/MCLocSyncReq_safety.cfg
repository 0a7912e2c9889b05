SPECIFICATION FairSpec
CONSTANTS
  t1 = t1
  t2 = t2
  t3 = t3
  c1 = c1
  i1 = i1
  i2 = i2
  Threads = {t1, t2}
  Clients = {c1}
  IndIds = {i1, i2}
  SizedInds = {i1}
  Requests <- FewCalls
  NumSlots = 2
  MaxCalls = 2
  Faults = {"timeout", "send_error"}
  InvalidHandle = InvalidHandle
  NoIndId = NoIndId
  NULL = NULL
INVARIANT
  TypeOK
  InUseIsExact
  NoLostWakeup
  SuccessHasPayload
PROPERTY
  ImplementsFairSyncCall
  BufferWrittenOnlyDuringCall
