CONSTANTS
  r1 = r1
  r2 = r2
  a1 = a1
  Schedules = {r1, a1}
  Timing <- TimingValue
  Interval <- IntervalValue
  First = 1
  ChannelSize = 1
  MaxTime = 3
  MaxJobs = 2
  MaxRequests = 1
  DueYears = {2024, 2025, 2100}
  MaxUnits = 26
  None = None
SPECIFICATION FairSpec
INVARIANTS OneNextRun RemovedHasNoEvent Spaced OneInstance DatesAreRight
PROPERTY DueIsStarted
\* The last action is a restart, which is always possible.
