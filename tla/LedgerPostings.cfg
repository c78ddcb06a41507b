SPECIFICATION FairSpec
CONSTANTS
  TxIds = {1, 2}
  Accounts = {1, 2}
  MaxAmount = 1
  Notes = {n1}
  Members = {m1}
  Sessions = {s1, s2}
  NoSession = NoSession
  Postings <- Transfers
  AccountChanges <- Reclassify
  InitialKind <- BankAndCard
  ReadOnly = TRUE
  MaxVersion = 1
INVARIANTS
  EntrySetsValid
  NoDeadlock
PROPERTIES
  ImplementsAtomicLedger
  EveryRequestEnds
CHECK_DEADLOCK FALSE
