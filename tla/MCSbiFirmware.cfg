SPECIFICATION FairSpec
CONSTANTS
    Half = 6
    MaxTime = 22
    Ticks = 1
    Deadlines = {16, 20, 35}
    MaxExternal = 1
    GuestSps = {1, 2}
INVARIANTS
    TypeOK
    FirmwareIsNotReentered
    TickIsNotLost
    NoEarlyTick
PROPERTIES
    FirmwareIsTransparent
    TickArrives
    IpiArrives
