SPECIFICATION Spec
CONSTANTS
    Helpers = {h1, h2}
    MaxFaults = 0
SYMMETRY HelperSymmetry
INVARIANT
    OnlyLegacyIsReplaced
