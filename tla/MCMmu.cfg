SPECIFICATION Spec
CONSTANTS
    Fan = 2
    Region <- MCRegion
    Pages <- MCPages
    Words <- MCWords
    SatpValues <- MCSatpValues
    Image <- MCImage
    ItlbCap = 4
    DtlbCap = 4
    MaxStores = 2
INVARIANTS
    TypeOK
    TlbIsLicensed
    RamIsLeftOnlyAtItsEnd
PROPERTIES
    FaultInstallsNothing
    ImplementsAddressSpace
