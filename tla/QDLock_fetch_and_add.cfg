SPECIFICATION Spec
CONSTANTS
  t1 = t1
  t2 = t2
  t3 = t3
  o1 = o1
  o2 = o2
  o3 = o3
  Thread = {t1, t2, t3}
  NoThread = NoThread
  Op = {o1, o2, o3}
  NoOp = NoOp
  ENTRIES = 2
  ReqEntries <- MixedSizes
  FetchAndAdd = TRUE
  ZeroedStorage = TRUE
  Future = {o1}
  LockUsers = {}
  StarvationFree = TRUE
  RETRY_LIMIT = 4
  WAIT_PERIOD = 2
SYMMETRY ThreadSymmetry
INVARIANTS
  TypeOK
  MutualExclusion
  RunsWhatWasStored
  NoLostOperation
  RealTimeOrder
  CounterBounded
PROPERTIES
  ImplementsDelegation
