SPECIFICATION FairSpec
CONSTANTS
  first = first
  well = well
  last = last
  short = short
  lasting = lasting
  Shelf = {first, well, last}
  EnvShelves <- ThreeShelves
  Identity = {well}
  Sick = {first, last}
  Command = {short, lasting}
  Target <- Targets
  Wake = {short, lasting}
  Expires <- Expiries
  Unparseable = Unparseable
  Horizon = 1
  MaxLag = 1
  BackoffCap = 3
  BackoffFactor = 2
  None = None
  MaxChanges = 1
  MaxFaults = 1
INVARIANT
  TypeOK
PROPERTIES
  WakeOnce
  DeliversOnce
  WakeArrives
  ShelfRowHeals
  ShutdownEnds
