SPECIFICATION Spec
CONSTANTS
    NumPlaces = 4
    MHandler = 0
    SHandler = 1
    Unfetchable = {2}
    Undecodable = {3}
    Irqs = {"MTIP"}
    HookedCauses = {"ecall_m"}
    StatusWrites <- Status
    MedelegWrites <- Exceptions
    MidelegWrites <- Nothing
    MieWrites <- TimerOnly
    BootMemPrivilege = 3
INVARIANTS MemPrivilegeInSync NoBorrowedPrivilege
PROPERTIES MachineReturns SupervisorReturns
