SPECIFICATION Spec
CONSTANTS
    Helpers = {h1, h2}
    Commands = {"provision", "stage", "activate"}
    AssetCount = 1
    Operated = {1}
    MaxFaults = 2
INVARIANTS
    Inv
    TypeOK
    OnlyPinnedIsInstalled
