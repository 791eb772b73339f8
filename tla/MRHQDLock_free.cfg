SPECIFICATION Spec
CONSTANTS
  Thread = {t1, t2}
  NoThread = NoThread
  GROUPS = 2
  Node = {n1, n2}
  NoNode = NoNode
  Top = Top
  Templates <- FreeClass
  Readers = {}
  Delegators = {t1}
  LockUsers = {t2}
  PATIENCE = 1
  CAPACITY = 1
PROPERTIES
  UnlocksWhileLocked
