CONSTANTS
    Requests = {r1, r2}
    Names = {event, data}
    Required = event
    MaxFaults = 2
SPECIFICATION Spec
SYMMETRY RequestSymmetry
INVARIANTS
    SequenceNeverReused
    AcknowledgedFirst
    EntryIsWhole
    BytesAreKept
    AcceptedIsDurable
    QuietWhileFinalizing
