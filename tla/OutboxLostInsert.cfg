SPECIFICATION Spec
CONSTANTS
  r1 = r1
  r2 = r2
  r3 = r3
  Reading = {r1, r3}
  Valid = {r1, r3}
  Shelf <- TwoShelves
  SampledAt <- Times
  BatchSize = 2
  Threshold = 2
  BackoffInitial = 1
  BackoffCap = 3
  BackoffFactor = 2
  Sick = {}
  ErrorRollsBack = TRUE
  MaxGlitches = 0
  MaxFaults = 1
INVARIANT
  PersistedIsKept
