CONSTANTS
  j1 = j1
  j2 = j2
  c1 = c1
  c2 = c2
  Jobs = {j1}
  Clients = {c1, c2}
  MaxRuns = 2
  ChannelSize = 1
  MaxDisorder = 1
  None = None
SPECIFICATION FairSpec
INVARIANTS OneRunPerJob RegistryIsExact ServerSurvives PlacesAgree
PROPERTIES LifeCycle RequestsReturn
\* After a crash, or when every job is deleted, nothing happens any more.
CHECK_DEADLOCK FALSE
