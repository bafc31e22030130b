SPECIFICATION MachineSpec
CONSTANTS
    NumPlaces = 2
    MHandler = 0
    SHandler = 1
    Unfetchable = {}
    Undecodable = {}
    Irqs = {"MTIP", "SEIP"}
    HookedCauses = {"ecall_m"}
    StatusWrites <- Enabled
    MedelegWrites = {}
    MidelegWrites <- ExternalOnly
    MieWrites <- Both
    BootMemPrivilege = 3
    Me = me
    Owners = {me}
    Deadlines = {1}
    MaxNow = 1
INVARIANTS PendingMeansFired
PROPERTIES NothingLeftToTake InterruptsRespectModes DeadlineInterrupts DueTaken
