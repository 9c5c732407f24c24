CONSTANTS
  u1 = u1
  u2 = u2
  u3 = u3
  Urls = {u1, u2, u3}
  Seeds <- MCSeedTwice
  Links <- MCLinksOut
  Broken = {}
  Disallowed = {u3}
  BadLinks = {}
  UseRobots = TRUE
  Timed = FALSE
  ItemLimits = {3}
  BatchSize = 1
  InsertSize = 1
  Permits = 1
  MaxRuns = 2
  None = None
SPECIFICATION Spec
INVARIANTS OneStationPerRow PipelineIsInFlight DownloadedOnce
  NoUrlForgotten LinksAreFollowed
\* A job that has ended stays as it is.
CHECK_DEADLOCK FALSE
