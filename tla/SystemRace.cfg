SPECIFICATION FairSpec
CONSTANTS
  q1 = q1
  q2 = q2
  Request = {q1, q2}
  Good = {q1, q2}
  AllowReset = TRUE
  MaxResets = 0
  None = None
  MaxFailures = 2
  ProbeAfter = 1
  RebootAfter = 2
  LongestPass = 1
  ChildrenFail = FALSE
  MaxFaults = 0
PROPERTY
  RetryComesHome
