SPECIFICATION Spec
CONSTANTS
    Pcs <- AllAround
    Modulus = 16
    MaxInstr = 6
INVARIANTS
    CommitAssertHolds
