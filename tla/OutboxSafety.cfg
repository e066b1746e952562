SPECIFICATION Spec
CONSTANTS
  r1 = r1
  r2 = r2
  r3 = r3
  Reading = {r1, r2}
  Valid = {r1, r2}
  Shelf <- TwoShelves
  SampledAt <- Times
  BatchSize = 2
  Threshold = 3
  BackoffInitial = 1
  BackoffCap = 3
  BackoffFactor = 2
  Sick = {}
  ErrorRollsBack = FALSE
  MaxGlitches = 1
  MaxFaults = 2
INVARIANTS
  TypeOK
  NoSilentLoss
  QuarantineEarned
  QuarantinedNotPosted
PROPERTIES
  KeepsPromise
  OldestFirst
