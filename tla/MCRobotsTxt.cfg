CONSTANTS
  Tasks = {"job1", "job2"}
  ObeyDelay = {"job1"}
  Urls = {"file", "none"}
  Delaying = {1}
  Day = 2
  MaxAges = {0, 2}
  MaxCache = 1
  Permits = 1
  MaxTime <- MaxTimeValue
  MaxVersion <- MaxVersionValue
  MaxFailures = 1
  Subjects = {"a", "b"}
  Amounts = {0, 2}
  Proxies = {"socks"}
  MaxRules = 2
  Bad = Bad
  None = None
  Missing = Missing
SPECIFICATION FairSpec
INVARIANTS NoNeedlessFetch CacheIsSaved PolicyDecides
PROPERTIES RequestsEnd NeverGoesBack
CHECK_DEADLOCK FALSE
