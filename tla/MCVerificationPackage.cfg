SPECIFICATION Spec
CONSTANTS
    Helpers = {h1, h2}
    MaxFaults = 2
SYMMETRY HelperSymmetry
VIEW Relevant
INVARIANTS
    LeftIsValid
PROPERTY
    NothingDestroyed
