SPECIFICATION Spec
CONSTANTS
  t1 = t1
  t2 = t2
  t3 = t3
  o1 = o1
  o2 = o2
  o3 = o3
  Thread = {t1, t2, t3}
  NoThread = NoThread
  Op = {o1, o2, o3}
  NoOp = NoOp
  ENTRIES = 3
  ReqEntries <- MixedSizes
  FetchAndAdd = FALSE
  ZeroedStorage = TRUE
  Future = {o1, o3}
  LockUsers = {t1, t2, t3}
  StarvationFree = FALSE
  RETRY_LIMIT = 2
  WAIT_PERIOD = 2
SYMMETRY ThreadAndOpSymmetry
INVARIANTS
  SafetyInv
  OrderOK
PROPERTIES
  ImplementsDelegation
  ImplementsTantrumQueue
