SPECIFICATION Spec
CONSTANTS
    Fan = 2
    Region <- MCRegion
    Pages <- MCPages
    Words <- MCWords
    SatpValues <- MCSatpValues
    Image <- MCImage
    ItlbCap = 2
    DtlbCap = 2
    MaxStores = 0
INVARIANTS
    LookupFindsItsPage
