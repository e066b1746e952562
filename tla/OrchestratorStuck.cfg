SPECIFICATION FairSpec
CONSTANTS
  MaxFailures = 2
  ProbeAfter = 2
  RebootAfter = 4
  LongestPass = 2
  ChildrenFail = FALSE
  MaxChanges = 2
  MaxFaults = 1
PROPERTY
  OnlineRunsA
