SPECIFICATION FairSpec
CONSTANTS
  t1 = t1
  t2 = t2
  t3 = t3
  o1 = o1
  o2 = o2
  o3 = o3
  Thread = {t1, t2, t3}
  NoThread = NoThread
  Op = {o1}
  NoOp = NoOp
  ENTRIES = 1
  ReqEntries <- UnitSizes
  FetchAndAdd = TRUE
  ZeroedStorage = TRUE
  Future = {}
  LockUsers = {t2, t3}
  StarvationFree = TRUE
  RETRY_LIMIT = 3
  WAIT_PERIOD = 2
PROPERTIES
  CallsReturn
