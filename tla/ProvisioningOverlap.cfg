SPECIFICATION Spec
CONSTANTS
  q1 = q1
  q2 = q2
  q3 = q3
  None = None
  Request = {q1, q2}
  Good = {q1}
  AllowReset = FALSE
  OneAtATime = FALSE
  MaxResets = 0
  MaxKills = 0
INVARIANT
  AcceptedIdentityKept
CHECK_DEADLOCK FALSE
