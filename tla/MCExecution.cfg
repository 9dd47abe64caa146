SPECIFICATION Spec
CONSTANTS
    Calculations = {c1, c2}
    MaxFaults = 2
SYMMETRY CalculationSymmetry
INVARIANTS
    SuccessIsBacked
    ChildrenAccounted
    NoneMissed
    BlameIsRight
PROPERTY
    SecondLifeIsAlone
