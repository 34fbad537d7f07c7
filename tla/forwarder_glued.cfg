SPECIFICATION Spec
CONSTANTS
  MaxEvents = 4
  BatchSize = 2
  Dropped = {2}
  MaxFaults = 2
  Once = FALSE
INVARIANTS
  NoEmittedEventIsLost
