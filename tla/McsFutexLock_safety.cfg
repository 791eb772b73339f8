SPECIFICATION Spec
CONSTANTS
  Thread = {t1, t2, t3, t4}
  NoThread = NoThread
  NodeGarbage = {"contended"}
SYMMETRY ThreadSymmetry
INVARIANTS
  TypeOK
  OwnerHolds
  ListIsOrder
  SleeperHasFlag
  ListInv
PROPERTIES
  ImplementsHandoff
