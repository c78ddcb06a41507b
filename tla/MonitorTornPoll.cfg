SPECIFICATION Spec
CONSTANTS
  Stale = 1
  BackupStale = 1
  MaxLag = 1
  MaxStreak = 3
  Runs = {r1}
  Agent = r1
  Scenarios <- OnlyPolls
  MaxPolls = 3
  MaxEpisodes = 1
  MaxFaults = 0
CHECK_DEADLOCK FALSE
PROPERTY FailedPollCounted
