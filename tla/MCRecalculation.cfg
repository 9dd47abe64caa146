SPECIFICATION FairSpec
CONSTANTS
    Files = {f1, f2}
INVARIANTS
    TypeOK
    PrecedingConserved
    DestructionDeclared
    NeverContradicts
    PublishedWhole
    ArchiveWhole
PROPERTIES
    OutcomeNeverFlips
    NeverHangs
    RecoveryCompletes
