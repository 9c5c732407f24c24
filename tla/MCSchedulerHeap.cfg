CONSTANTS
  r1 = r1
  r2 = r2
  a1 = a1
  Schedules = {r1, r2, a1}
  Timing <- TimingValue
  Interval <- IntervalValue
  First = 1
  ChannelSize = 1
  MaxTime = 3
  MaxJobs = 3
  MaxRequests = 0
  DueYears = {2024}
  MaxUnits = 1
  None = None
SPECIFICATION Spec
INVARIANT NoneIsLate
