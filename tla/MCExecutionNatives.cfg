SPECIFICATION FairSpec
CONSTANTS
    Calculations = {c1}
    MaxFaults = 2
INVARIANT
    TypeOK
PROPERTY
    NativesEnd
