SPECIFICATION Spec
CONSTANTS
  t1 = t1
  t2 = t2
  t3 = t3
  o1 = o1
  o2 = o2
  o3 = o3
  Thread = {t1, t2, t3}
  NoThread = NoThread
  Op = {o1, o2, o3}
  NoOp = NoOp
  ENTRIES = 1
  ReqEntries <- UnitSizes
  FetchAndAdd = TRUE
  ZeroedStorage = FALSE
  Future = {}
  LockUsers = {}
  StarvationFree = TRUE
  RETRY_LIMIT = 3
  WAIT_PERIOD = 2
INVARIANTS
  WaitsUntilAvailable
