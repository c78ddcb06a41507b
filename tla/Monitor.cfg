SPECIFICATION FairSpec
CONSTANTS
  Stale = 1
  BackupStale = 1
  MaxLag = 1
  MaxStreak = 3
  Runs = {r1, r2}
  Agent = r1
  Scenarios <- OneAtATime
  MaxPolls = 3
  MaxEpisodes = 2
  MaxFaults = 1
CHECK_DEADLOCK FALSE
INVARIANTS TypeOK StateNeverRejected StreaksFollowTheClock SamePollCountedOnce
PROPERTIES NothingSentUnsaved ImplementsEpisodes LowDiskReported
