SPECIFICATION Spec
CONSTANTS
  TxIds = {1, 2, 3}
  Accounts = {1}
  MaxAmount = 2
  Notes = {n1}
  Members = {m1}
  Sessions = {s1, s2}
  NoSession = NoSession
  Postings <- Expenses
  AccountChanges <- NoChanges
  InitialKind <- BankAndCard
  ReadOnly = FALSE
  MaxVersion = 2
SYMMETRY SessionSymmetry
INVARIANTS
  TypeOK
  RefundCap
  RefundLineage
PROPERTIES
  VersionGuardsRow
  RefundedOriginalFrozen
CHECK_DEADLOCK FALSE
