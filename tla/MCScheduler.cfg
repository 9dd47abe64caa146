SPECIFICATION Spec
CONSTANTS
    Events = {e1, e2, e3}
    MaxSequence = 3
    MaxConcurrent = 2
    MaxFaults = 2
    MaxCrashes = 1
SYMMETRY EventSymmetry
INVARIANTS
    OneTransaction
    WorkersOwnTheirEvent
PROPERTIES
    QueueRefined
    MovesRefined
