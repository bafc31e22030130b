SPECIFICATION Spec
CONSTANTS
    FRegs = {0, 1}
    WordLen = 2
    LongLen = 4
    Insns <- FewInsns
    Starts <- FewStarts
    HostNans <- FewNans
CHECK_DEADLOCK FALSE
INVARIANTS TypeOK ClassIsUnique
PROPERTIES UnboxedIsNan OffTouchesNothing
