SPECIFICATION FairSpec
CONSTANTS
  q1 = q1
  q2 = q2
  q3 = q3
  None = None
  Request = {q1, q2, q3}
  Good = {q1, q2}
  AllowReset = TRUE
  OneAtATime = TRUE
  MaxResets = 2
  MaxKills = 1
INVARIANTS
  TypeOK
  NeverStranded
  AcceptedIdentityKept
PROPERTIES
  SuccessIsOwnNetwork
  SwitchEnds
CHECK_DEADLOCK FALSE
