SPECIFICATION FairSpec
CONSTANTS
    Calculations = {c1}
    MaxFaults = 2
PROPERTIES
    ShutdownSettles
