CONSTANTS
  j1 = j1
  j2 = j2
  d1 = d1
  d2 = d2
  r1 = r1
  r2 = r2
  r3 = r3
  Jobs = {j1, j2}
  Tokens = {d1, d2}
  Requests = {r1, r2, r3}
  JobOf <- MCJobOf
  TokenOf <- MCTokenOf
  Capacity = 1
  Delays = {1}
  None = None
  Forever = Forever
SPECIFICATION FairSpec
PROPERTY EventuallyServed
\* A task that died stops the limiter.
CHECK_DEADLOCK FALSE
