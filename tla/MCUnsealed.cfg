SPECIFICATION Spec
CONSTANTS
    PcCount = 4
    Spaces = {0, 1}
    Instr <- MCInstr
    Programs <- PageEnd
    Entry = 0
    TrapVectors = {2}
    CacheSize = 6
    JumperSize = 1
    MaxInstr = 3
    MaxStores = 1
INVARIANTS
    NeverFallsThroughUnintentionally
