SPECIFICATION AllFairSpec
CONSTANTS
  Thread = {t1, t2, t3}
  NoThread = NoThread
  LockKinds = {"futex", "ticket", "mcs", "mcs_futex"}
  NodeGarbage = {"free"}
  W = 16
  FirstTicket = 12
  MaxTickets = 5
INVARIANTS
  AllTypeOK
  MutualExclusion
  SleepersRemembered
  TicketOrder
  ListOrder
PROPERTIES
  LockReturns
  UnlockReturns
  FutexWakes
