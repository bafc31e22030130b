\* Two harts share one page table, which each changes.
SPECIFICATION Spec
CONSTANTS
    Harts = {0, 1}
    Asids = {0}
    Tables = {0}
    Root <- RootIsAsid
    TopLevel = 0
    Fanout = 2
    TagLimit = 4
    NumRows = 1
    NumColumns = 1
    CounterLimit = 1
    Vpns = {0}
    InitialTables <- OneTable
    PteWrites <- Remap
    MaxWrites = 2
    Accesses <- LoadsAndStores
INVARIANTS TranslationCurrent
