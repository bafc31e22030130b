\* Another hart stores a PTE while a walk updates it.
SPECIFICATION Spec
CONSTANTS
    Harts = {0, 1}
    Asids = {0}
    Tables = {0}
    Root <- RootIsAsid
    TopLevel = 0
    Fanout = 2
    TagLimit = 4
    NumRows = 1
    NumColumns = 2
    CounterLimit = 2
    Vpns = {0, 1}
    InitialTables <- OneTable
    PteWrites <- Remap
    MaxWrites = 1
    Accesses <- Loads
PROPERTIES PteWritesSurvive
