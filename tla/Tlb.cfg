\* One hart with two address spaces and a TLB of two rows.
SPECIFICATION Spec
CONSTANTS
    Harts = {0}
    Asids = {0, 1}
    Tables = {0, 1, 2}
    Root <- RootIsAsid
    TopLevel = 1
    Fanout = 2
    TagLimit = 4
    NumRows = 2
    NumColumns = 1
    CounterLimit = 2
    Vpns = {0, 2, 3}
    InitialTables <- TwoSpaces
    PteWrites <- Remappings
    MaxWrites = 1
    Accesses <- LoadsAndStores
INVARIANTS TranslationCurrent AccessRecorded
CHECK_DEADLOCK FALSE
