SPECIFICATION FairSpec
CONSTANTS
  MaxFailures = 2
  ProbeAfter = 2
  RebootAfter = 4
  LongestPass = 2
  ChildrenFail = TRUE
  MaxChanges = 2
  MaxFaults = 3
INVARIANTS
  TypeOK
  OpposingNeverTogether
  NoOrphans
  ModeIsExclusive
PROPERTIES
  GateIsEarned
  SetupComesBack
  HomeAgain
