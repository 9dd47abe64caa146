SPECIFICATION Spec
CONSTANTS
  Images = {imageA}
  Release <- OneRelease
  Clients = {c1}
  MaxAttempts = 3
  MaxFaults = 2
INVARIANT
  Inv
CHECK_DEADLOCK FALSE
