SPECIFICATION FairSpec
CONSTANTS
  Deployers = {d1}
  Backup = Backup
  Free = Free
  Stale = Stale
  Stopped = 0
  Revisions = {1, 2}
  Configs = {1, 2}
  BuiltFrom <- Labels
  Keep = 0
  First <- FirstRelease
  Outlives = TRUE
  MaxRuns = 3
  MaxFaults = 3
  MaxSchema = 3
INVARIANTS
  TypeOK
  RecordsConsistent
  IdleServesCommitted
  OnlyOrphansMisfit
PROPERTIES
  LeftoverFreezesHost
  SuccessIsWhole
  CommittedOnlyWhenServing
  WriterReturns
CHECK_DEADLOCK FALSE
