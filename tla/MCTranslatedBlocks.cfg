SPECIFICATION Spec
CONSTANTS
    XLEN = 4
    Half = 8
    NReg = 3
    ImmBits = 3
    SraBit = 2
    BranchBits = 2
    JumpBits = 3
    UpperShift = 2
INVARIANTS
    TypeOK
    BlocksMatchIsa
    StopsExactly
CHECK_DEADLOCK FALSE
