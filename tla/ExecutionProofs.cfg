SPECIFICATION Spec
CONSTANTS
    Calculations = {c1, c2}
    MaxFaults = 2
INVARIANT
    Inv
