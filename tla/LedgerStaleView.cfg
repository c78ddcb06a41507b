SPECIFICATION Spec
CONSTANTS
  TxIds = {1}
  Accounts = {1, 2}
  MaxAmount = 1
  Notes = {n1}
  Members = {m1}
  Sessions = {s1, s2}
  NoSession = NoSession
  Postings <- AccountEdits
  AccountChanges <- NoChanges
  InitialKind <- BankAndCard
  ReadOnly = FALSE
  MaxVersion = 1
PROPERTIES
  StaleViewRefused
CHECK_DEADLOCK FALSE
