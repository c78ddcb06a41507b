SPECIFICATION Spec
CONSTANTS
  TxIds = {1}
  Accounts = {1, 2}
  MaxAmount = 1
  Notes = {n1}
  Members = {m1}
  Rules = {1}
  Categories = {1}
  Groups = {1}
  Workers = {w1}
  Users = {u1, u2}
  NoHolder = NoHolder
  Templates <- References
  CategoryChanges <- MoveOrArchive
  GroupChanges = {TRUE}
  AccountChanges <- ArchiveOrReclassify
  Batch = 2
  LastInstant = 2
  MaxVersion = 1
  MaxFaults = 0
SYMMETRY Symmetry
INVARIANTS
  ActiveReferencesUsable
  NoDeadlock
CHECK_DEADLOCK FALSE
