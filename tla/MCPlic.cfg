SPECIFICATION Spec
CONSTANTS
    NrSources = 3
    Contexts = {0, 1}
    MaxPriority = 2
INVARIANTS
    TypeOK
    LevelTriggered
    ClaimIsExclusive
