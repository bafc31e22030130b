\* Entries of all sizes, of which some are locked.
SPECIFICATION PmpSpec
CONSTANTS
    NumEntries = 2
    PerWord = 2
    AddressBits = 6
    PageSize = 32
    CfgWrites <- SomeCfgs
    AddrWrites <- SomeAddresses
    Accesses <- HartAccesses
INVARIANTS CheckIsFirstMatch
PROPERTIES LockedDecisionsStay
