SPECIFICATION FairSpec
CONSTANTS
  z1 = z1
  z2 = z2
  SensorSequence <- Sensors
  AdcOf <- Zones
  Raw = {100, 700}
  Deadzone = 150
  WindowSize = 5
  Unit = 60
  NearZero = 300
  MarginPercent = 15
  Grams <- RoundedGrams
  ChangeThreshold = 15
  Cooldown = 2
  ClockBack = 2
  MaxChanges = 2
  MaxKills = 1
  MaxFaults = 1
INVARIANTS
  TypeOK
  BaselinesSaved
  LoadsReported
PROPERTY
  QuietsDown
