SPECIFICATION FairSpec
CONSTANTS
  TxIds = {1}
  Accounts = {1}
  MaxAmount = 1
  Notes = {n1}
  Members = {m1}
  Rules = {1, 2}
  Categories = {1}
  Groups = {1}
  Workers = {w1}
  Users = {u1}
  NoHolder = NoHolder
  Templates <- TwoSchedules
  CategoryChanges <- None
  GroupChanges <- None
  AccountChanges <- None
  Batch = 1
  LastInstant = 4
  MaxVersion = 1
  MaxFaults = 1
PROPERTIES
  DueIsHandled
CHECK_DEADLOCK FALSE
