SPECIFICATION QueuesSpec
CONSTANTS
  Thread = {t1, t2, t3}
  NoThread = NoThread
  Op = {o1, o2, o3}
  o1 = o1
  o2 = o2
  o3 = o3
  NoOp = NoOp
  f = f
  g = g
  Function = {f, g}
  FunctionOf <- SharedFunction
  SizeOf <- FitSizes
  ARRAY_SIZE = 8
  WORD = 2
  ENTRIES = 2
  QueueKinds = {"entry", "buffer"}
INVARIANTS
  QueuesTypeOK
  RunsWhatWasStored
PROPERTIES
  ImplementsTantrumQueue
  FlushComesBack
