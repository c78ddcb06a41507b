SPECIFICATION Spec
CONSTANTS
  Deployers = {d1}
  Backup = Backup
  Free = Free
  Stale = Stale
  Stopped = 0
  Revisions = {1, 2}
  Configs = {1, 2}
  BuiltFrom <- Labels
  Keep = 0
  First <- FirstRelease
  Outlives = TRUE
  MaxRuns = 1
  MaxFaults = 1
  MaxSchema = 2
INVARIANTS
  SchemaFitsServing
CHECK_DEADLOCK FALSE
