SPECIFICATION Spec
CONSTANTS
  Thread = {t1, t2}
  NoThread = NoThread
  GROUPS = 2
  Node = {n1, n2}
  NoNode = NoNode
  Top = Top
  Templates <- FlagClass
  Readers = {t1}
  Delegators = {t2}
  LockUsers = {t2}
  PATIENCE = 1
  CAPACITY = 1
INVARIANTS
  NoReaderBesideWriter
