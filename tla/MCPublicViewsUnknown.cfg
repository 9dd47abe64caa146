SPECIFICATION Spec
CONSTANTS
    Events = {e1}
    MaxSequence = 2
    MaxConcurrent = 1
    Damageable = {}
INVARIANT
    KnownIsNotUnknown
