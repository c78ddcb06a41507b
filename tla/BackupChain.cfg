SPECIFICATION FairSpec
CONSTANTS
  Scenarios <- Combinations
  Recent = 3
  Days = 2
  Releases = {1, 2, 3}
  ComposeOf <- Composes
  MaxTime = 5
  MaxSchema = 2
  MaxBundles = 5
  FewBundles = 2
  MaxFaults = 1
INVARIANTS TypeOK MarkerNamesRestorePoint DailyPointKept CopyBehindMarker
PROPERTIES CatchesUp
\* the bounds on bundles and time end every behaviour
CHECK_DEADLOCK FALSE
