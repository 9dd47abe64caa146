SPECIFICATION Spec
CONSTANTS
    Helpers = {h1, h2, h3}
    MaxFaults = 0
SYMMETRY HelperSymmetry
INVARIANT
    LeftIsValid
