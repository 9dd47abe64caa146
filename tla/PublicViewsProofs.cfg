SPECIFICATION FairSpec
CONSTANTS
    Events = {e1}
    MaxSequence = 2
    MaxConcurrent = 1
    Damageable = {}
INVARIANTS
    Inv
    TypeOK
    FinishedStaysFinished
    BlockedIsSaid
PROPERTY
    ReadEnds
