SPECIFICATION Spec
CONSTANTS
    XLEN = 2
    NReg = 3
    WordBytes = 2
    f1 = f1
    Frames = {f1}
    NoFrame = NoFrame
    Maps <- OneWordMaps
    Contexts <- Programs
    Instrs <- Overlaps
    MAX_RESERVATION_ITEMS = 2
    hart_id = 0
INVARIANT ScIsPaired
