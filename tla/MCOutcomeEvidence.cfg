SPECIFICATION OutcomeSpec
CONSTANTS
    MaxFaults = 2
    MaxCrashes = 2
INVARIANTS
    SuccessHasEvidence
    EvidenceAgrees
