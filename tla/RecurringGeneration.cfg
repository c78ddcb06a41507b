SPECIFICATION Spec
CONSTANTS
  TxIds = {1}
  Accounts = {1}
  MaxAmount = 2
  Notes = {n1}
  Members = {m1}
  Rules = {1}
  Categories = {1}
  Groups = {1}
  Workers = {w1, w2}
  Users = {u1}
  NoHolder = NoHolder
  Templates <- Schedules
  CategoryChanges <- None
  GroupChanges <- None
  AccountChanges <- None
  Batch = 2
  LastInstant = 5
  MaxVersion = 2
  MaxFaults = 1
SYMMETRY Symmetry
INVARIANTS
  TypeOK
  NothingLost
  ConstraintNeverNeeded
  ActiveCursorOnSchedule
PROPERTIES
  GeneratedOnceFromRule
CHECK_DEADLOCK FALSE
