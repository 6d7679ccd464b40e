SPECIFICATION FairSpec
CONSTANTS
    FifoSize = 4
    Bytes = {"x", "ctrl-a"}
    Escape = "ctrl-a"
    Quit = "x"
    NrSources = 2
    Contexts = {0, 1}
    MaxPriority = 1
    UART0 = 1
    Supervisor = 1
    PollInterval = 2
    MaxRead = 2
INVARIANTS
    TypeOK
    FifoIsQueue
    LineMatchesUart
    HandlerFindsWork
PROPERTIES
    ReceivedIsRead
