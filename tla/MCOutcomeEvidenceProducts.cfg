SPECIFICATION OutcomeSpec
CONSTANTS
    MaxFaults = 0
    MaxCrashes = 1
INVARIANT
    SuccessHasProducts
