SPECIFICATION FairSpec
CONSTANTS
    PcCount = 4
    Spaces = {0, 1}
    Instr <- MCInstr
    Programs <- MCPrograms
    Entry = 0
    TrapVectors = {2}
    CacheSize = 6
    JumperSize = 1
    MaxInstr = 3
    MaxStores = 1
INVARIANTS
    TypeOK
    LayoutInv
    ControlFollowsPc
    NoStaleExecution
    AssertedItemsAreStored
PROPERTIES
    ImplementsGuestMachine
    PrefetchTerminates
    GuestReturnsToVmm
