SPECIFICATION LiveSpec
CONSTANTS
  t1 = t1
  t2 = t2
  t3 = t3
  o1 = o1
  o2 = o2
  o3 = o3
  Thread = {t1, t2, t3}
  NoThread = NoThread
  Op = {o1, o2, o3}
  NoOp = NoOp
  ENTRIES = 2
  ReqEntries <- MixedSizes
  FetchAndAdd = TRUE
  ZeroedStorage = TRUE
  Future = {o2}
  LockUsers = {}
  StarvationFree = TRUE
  RETRY_LIMIT = 2
  WAIT_PERIOD = 1
PROPERTIES
  CallsGoOn
  AcceptedRuns
