CONSTANTS
  Kinds = {"sync", "policies", "schedules", "logins", "statuses", "resources"}
  WireSize = 1
  MaxAgain = 1
  MaxSequence = 2
  ChannelSize = 1
  Rows = {r1, r2}
  Names = {n1, n2}
  Jobs = {j1, j2}
  HistorySize = 1
  BufferSize = 2
  MonitorChannel = 1
  MaxChanges = 3
  MinDelay = 1
  MaxDelay = 256
  MaxPolls = 10
  None = None
  Interests <- InterestsValue
SPECIFICATION FairSpec
INVARIANTS InOrder MissedAreSuccessors EndsWhenFinished ViewsAgree PollsBackOff
PROPERTIES SyncEnds ViewsCatchUp
\* A client that has what it wanted, or cannot connect again, stops.
CHECK_DEADLOCK FALSE
