SPECIFICATION Spec
CONSTANTS
    NumPlaces = 2
    MHandler = 0
    SHandler = 1
    Unfetchable = {}
    Undecodable = {}
    Irqs = {}
    HookedCauses = {}
    StatusWrites <- ReservedMpp
    MedelegWrites <- Nothing
    MidelegWrites <- Nothing
    MieWrites <- Nothing
    BootMemPrivilege = 3
INVARIANTS NeverAborts
