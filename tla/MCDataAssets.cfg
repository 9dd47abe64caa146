SPECIFICATION Spec
CONSTANTS
    Helpers = {h1, h2}
    Commands = {"provision", "stage", "activate"}
    AssetCount = 2
    Operated = {2}
    MaxFaults = 1
SYMMETRY HelperSymmetry
VIEW Relevant
INVARIANT
    RefusedChangesNothing
PROPERTY
    OwnIsKept
