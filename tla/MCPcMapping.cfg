SPECIFICATION FairSpec
CONSTANTS
    Pcs <- Window
    Modulus = 16
    MaxInstr = 5
INVARIANTS
    TypeOK
    ArrayInOrder
    AnswerIsRight
    CommitAssertHolds
PROPERTIES
    LoopsEnd
