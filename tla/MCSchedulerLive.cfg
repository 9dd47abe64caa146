SPECIFICATION FairSpec
CONSTANTS
    Events = {e1, e2}
    MaxSequence = 3
    MaxConcurrent = 1
    MaxFaults = 1
    MaxCrashes = 1
PROPERTIES
    EveryoneIsServed
    CapacityReturns
