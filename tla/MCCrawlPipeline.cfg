CONSTANTS
  u1 = u1
  u2 = u2
  u3 = u3
  Urls = {u1, u2, u3}
  Seeds <- MCSeeds
  Links <- MCLinks
  Broken = {u2}
  Disallowed = {}
  BadLinks = {u1}
  UseRobots = FALSE
  Timed = TRUE
  ItemLimits = {None, 0, 1}
  BatchSize = 2
  InsertSize = 1
  Permits = 2
  MaxRuns = 1
  None = None
SPECIFICATION FairCrawlSpec
INVARIANTS InFlightIsInPipeline PermitsAreUsed ItemsAreCounted
  ExhaustedMeansIdle LimitIsNoticed
PROPERTY EventuallyEnds
\* A job that has ended stays as it is.
CHECK_DEADLOCK FALSE
