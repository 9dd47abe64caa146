SPECIFICATION Spec
CONSTANTS
    Helpers = {h1}
    Commands = {"stage", "activate"}
    AssetCount = 1
    Operated = {1}
    MaxFaults = 1
INVARIANT
    ActivationIsAtomic
