SPECIFICATION Spec
CONSTANTS
    Events = {e1, e2}
    MaxSequence = 2
    MaxConcurrent = 2
    Damageable = {1}
SYMMETRY EventSymmetry
INVARIANTS
    NothingVanishes
    FinishedStaysFinished
    EvidenceBelongs
