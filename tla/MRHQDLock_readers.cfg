SPECIFICATION FairSpec
CONSTANTS
  Thread = {t1, t2, t3}
  NoThread = NoThread
  GROUPS = 2
  Node = {n1, n2}
  NoNode = NoNode
  Top = Top
  Templates <- AllClasses
  Readers = {t1, t2}
  Delegators = {t2, t3}
  LockUsers = {t3}
  PATIENCE = 1
  CAPACITY = 1
INVARIANTS
  TypeOK
  MutualExclusion
  ReaderExclusion
  StoredIsHelped
  ReadersAccounted
  IdsAccounted
PROPERTIES
  UnlocksOwn
  RaisedReaderGetsIn
  WriterProceeds
