\* Two pages that RV_TLB_VPN_MASK does not tell apart.
SPECIFICATION Spec
CONSTANTS
    Harts = {0}
    Asids = {0}
    Tables = {0}
    Root <- RootIsAsid
    TopLevel = 0
    Fanout = 2
    TagLimit = 1
    NumRows = 1
    NumColumns = 2
    CounterLimit = 2
    Vpns = {0, 1}
    InitialTables <- OneTable
    PteWrites = {}
    MaxWrites = 0
    Accesses <- Loads
INVARIANTS TranslationCurrent
