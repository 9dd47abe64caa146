SPECIFICATION Spec
CONSTANTS
    Files = {f1, f2}
SYMMETRY FileSymmetry
INVARIANTS
    IInv
    RunningIsJournaled
    SettledIsClean
