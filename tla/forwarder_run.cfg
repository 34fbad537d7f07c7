SPECIFICATION FairSpec
CONSTANTS
  MaxEvents = 5
  BatchSize = 2
  Dropped = {2}
  MaxFaults = 3
  Once = FALSE
INVARIANTS
  WatermarkIsHonest
  NoHoles
  OnlyEmittedIsDelivered
PROPERTIES
  EverythingArrives
