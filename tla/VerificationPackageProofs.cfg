SPECIFICATION Spec
CONSTANTS
    Helpers = {h1, h2}
    MaxFaults = 1
INVARIANTS
    InvOfTwo
    TypeOK
