SPECIFICATION Spec
CONSTANTS
    Events = {e1, e2}
    MaxSequence = 3
    MaxConcurrent = 2
    MaxFaults = 2
    MaxCrashes = 1
INVARIANTS
    Inv
    CurrentIsNewest
    RetainedIsTerminal
